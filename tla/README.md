# Formal model of the Online History Server

TLA+ specifications of the core of the Online History Server (OHS,
`src/services/online-history-server`), the configurations that model-check them
with TLC, and theorems about them checked with the TLA+ proof system.

OHS keeps connections to a broker (TRANSAQ) alive, records trades of the
instruments the operator has chosen, and keeps an account of everything that
went wrong: a lost link is an *incident*, which appears as a thread of
notifications in the user interface, as a row of a journal, and as state in the
memory of several services. Most of the logic that is hard to test is the
agreement of these three while pumps, timers, the supervisor, HTTP requests and
restarts work on them at once. The other half of the program is the page in the
browser: it keeps its own copy of all of this, and must stay true while answers
come late, fail or are overtaken by live events.

- [1. The system](#1-the-system)
- [2. Plan](#2-plan)
- [3. Modules and the code they model](#3-modules-and-the-code-they-model)
- [4. Runs: bounds, results, what they show](#4-runs-bounds-results-what-they-show)
- [5. Fairness](#5-fairness)
- [6. Proofs](#6-proofs)
- [7. Where code and intention part](#7-where-code-and-intention-part)
- [8. What is not modelled](#8-what-is-not-modelled)
- [9. How to run](#9-how-to-run)

## 1. The system

Paths are relative to `src/services/online-history-server/src` unless they name
another root. `PROJECT.json` has the same list with its files, and every hazard
at its line.

| Component | State | Operations | What makes it correct |
|---|---|---|---|
| **Notification hub** (`Scinverse.Ohs.Host/NotificationHub.cs`) | map of open incidents by subject, ring of 500 recent atoms with a counter | Open, Progress, Append, Resolve, Publish, Ingest, Adopt, Forget, Hydrate, List, RemoveByCorrelationId | a thread ends with its resolved atom; an open incident is never overwritten; the ring is bounded |
| **Durable log** (`NotificationPersistQueue`, `NotificationPersistWriter`, `NotificationStore`) | queue of 10 000 that drops the oldest, a batch of at most 500, table `notification` | enqueue, drain, store, warm-up of the ring | every atom is stored or dropped at a place the code chose |
| **Incident journal** (`JournalRegistrator`, `IncidentStore`) | table `incident`, a row per correlation id: status, outcome, owner, escalation, soft-delete | break/crash open, adopt, handover, recovering, await operator, resolve, bind, operator's close, delete, restore | a closed episode stays closed with its first outcome; a close that returns has closed |
| **Link break** (`ConnectionManager`, `ConnectionSupervisor`, `IncidentFanOut`) | session, status and link state; open break in memory (since, owner, correlation id); pending Degraded; failed attempts | link states, Degraded timer, TRANSAQ's grace, handover, connect, disconnect, close, adoption, supervisor's tick, operator's requests | one break per loss, announced as recovered once, only over a live link; memory, hub and journal agree in the end; the connection comes back |
| **Host outage** (`HostOutageCoordinator`, emitters, endpoints) | current outage, its seed, last closed episode | report, merge, open and close through hub and journal | an accepted report leaves a row in the journal |
| **Host outage, client** (`web/src/core/OhsStore.ts`, `hostOutageReport.ts`) | phase, hold, probe, settle and cool-down timers; a pending report in memory and in localStorage, which all pages share | drop, reconnect, 500 in the recovery, hold, report, retry | the page leaves the outage; a report survives until accepted |
| **Notification centre** (`src/packages/notification-center`, `web/src/core/notifications.ts`) | ring of atoms, read ids, hidden incidents, probe; the dock's filter, marks and store | backlog, live atoms, threads, collapse, hide, probe; chips, marks, grouping, reload | order, duplicates and losses of delivery do not change what is shown; no click loses an item |
| **Connection schedule** (`connectionSchedule.ts`, `scheduleLayerDict.ts`, `ConnectionSchedulePopover.tsx`, `ConnectionScheduleStore`) | rules by scope and date; a draft of layers, dialogues, a batch of PUTs | resolve, enumerate, edit, confirm, save, live push | the rule of the highest priority wins, also across midnight; nothing unsaved is taken away, nothing unasked is saved |
| **Timeline and ribbons** (`OhsStore.ts`, `moexSession.ts`, `sessionProjection.ts`, `coverageGeometry.ts`, ribbon components) | timeframe, filters, axis, window; layers and a refresh pass; rows, journal and the optimistic crash | choose, answer, midnight, pass, drop, recover | what is drawn belongs to what is chosen, and to what happened |
| **Connections panel, catalogue, sets** (`OhsStore.ts`, `ConnectionsPanel.tsx`, `InstrumentPicker.tsx`, `BasketEditorModal.tsx`) | rows, flashes, forms; chips, tree, busy keys; editor, preview, available list | toggle, save, delete; open, mark, record in bulk; edit, preview, save | no row hangs; an open branch is loaded; a set is saved from its own fields |
| WebSocket broadcaster (`WebSocketBroadcaster`, `live.ts`) | a queue of 256 per client | subscribe, broadcast | a slow client loses its oldest messages only |
| Client recovery gate (`ClientRecoveryGate`) | three phases with time-outs | wait, heads-up, recovery | the supervisor starts after the outage is closed, and always starts |
| Recording and coverage (`RecordingManager`, `RecordingSupervisor`, `CoverageTracker`) | recordings, open coverage segments, counters | start, stop, link events, heartbeats | one open segment per instrument; a stopped recording stays stopped |
| Trade pipeline (`TradeBatcher`, `OhsWorker`, writer) | bounded channel, batch in hand | enqueue, flush, restart, drain | no accepted trade is lost, also at shutdown |
| Connector session (`ConnectorSession`) | the connector's two channels and its pumps | start, stop, pump | messages in order; a stop ends |
| Liveness of links and capture (`LivenessProbe`, two stores) | intervals extended by heartbeats | extend, open, close, mark | intervals do not overlap nor cover an outage |
| Write gaps (`WriteGapService`, `WriteHoleBuilder`) | none | compute | exactly the holes between coverage, liveness and schedule |
| Instrument registry (`InstrumentRegistry`, `InstrumentLifecycleService`) | catalogue, write-behind queue | observe, invalidate, sweep | a reappearing instrument is not swept |
| HTTP endpoints, start-up, back-fill, server side of baskets and catalogues, calendars, reference stores, parsers, migrations | little or none | CRUD and wiring | not modelled, see section 8 |

How they interact:

- The connector's pump hands link states to `ConnectionManager`. It opens and
  closes breaks through `IncidentFanOut`, which tells the **hub** first
  (synchronously) and the **journal** after (open: in the background; close:
  awaited). `ConnectionSupervisor` ticks over all connections: it adopts open
  journal rows into memory and hub, closes what is open while the link is live,
  hands a break over after the grace, and reconnects.
- The hub puts an atom into its ring under a lock and, outside the lock, gives
  it to the persist queue and the broadcaster.
- HTTP requests run beside all of it: connect, disconnect, Auto, resolve,
  delete, restore, posting of atoms.
- After a restart only the database survives: ring and journal rows are read
  back, and the supervisor waits for the client recovery gate before its first
  tick.

- The page holds a socket and asks over HTTP. At every opening of the socket it
  asks for the backlog, the deleted incidents, the connections and the layers of
  its ribbon again, while live events go on arriving. When the socket is lost it
  masks its switches, asks the restarted host to hold its connectors, waits until
  it is stable and reports the interval; the host merges such reports into one
  crash per episode.

What is hard: no lock spans memory, hub and journal, so every await is a place
where another thread may change what was read; opens are fire-and-forget;
store exceptions are swallowed (`JournalRegistrator.SafeAsync`); queues drop;
five actors may close the same break. In the page nothing is parallel, but
between a request and its answer anything may be clicked, pushed or reloaded.

## 2. Plan

All of it is done except what section 8 names.

1. `NotificationHub` with the durable log, with proofs.
2. `IncidentLifecycle` (abstract) and `IncidentJournal` (implements it), with
   proofs of the refinement and of what a close promises.
3. `LinkBreak`: memory, hub and journal of one connection as its actors see them;
   proved: the handover is one way, and a trouble opens one break at most.
4. `HostOutage`: the page's outage machine against the host's coordinator, with
   crashes, cuts, reloads and two pages on one localStorage.
5. `NotificationFeed` over `FeedProjection`, and `NotificationDock` over
   `DockFilter`.
6. `ScheduleEditor` over `ConnectionSchedule` over `ScheduleLayers`.
7. `TimelineAxis` and `RibbonRefresh` over `SessionAxis`; `LinkRibbon` over
   `RibbonGeometry`.
8. `Connections`, `InstrumentTree`, `BasketEditor`.

Composition: `LinkBreak` and `HostOutage` contain hub and journal reduced to what
their actors see of them. The reduction is justified by what is proved of the full
modules: per subject one open incident (`OpenNotReplaced`), nothing after resolved
until the id is opened or adopted again (`EndedStaysEnded`), and a row that closes
once (`IncidentLifecycle`). `NotificationCentre` and `Desk` put the screens of the
page side by side; what is proved of a screen is lifted to them. Proofs live in
modules of their own, and no module has a recursive operator.

## 3. Modules and the code they model

| Module | Code | State and actions |
|---|---|---|
| `NotificationHub` | hub, persist queue, writer, log table, restore endpoint | `open` = `_openIncidents`, `ring`/`count` = `_buffer`/`_count`; a caller takes one step under the lock (`Open`, `Progress`, `AppendAtom`, `Resolve`, `Publish`, `Ingest`) and one outside (`PersistEnqueue`); `Adopt`, `Forget`, `RemoveByCorrelationId`; `RestoreQuery`, `RestoreHydrate`; the writer's `WriterQuery`, `WriterHydrate`, `WriterRead` (one atom, or the skip of `TryMap`), `WriterFlush`, `WriterStore`; `Crash` |
| `IncidentLifecycle` | the promise: `docs/dev/phase8/incident-journal.md`, migration V028 | per correlation id: appears, works, resolves once; visibility is an axis of its own |
| `IncidentJournal` | `JournalRegistrator`, `IncidentStore`, resolve/delete/restore of `OhsEndpoints` | a step is one SQL statement; a call is a record with its program counter and the row it read; `Throw` is a failing store call, swallowed as `SafeAsync` does |
| `LinkBreak` | `ConnectionManager`, `ConnectionSupervisor`, `IncidentFanOut`, connect/disconnect of `OhsEndpoints` | five threads with program counters; a step is the code between two awaits; what memory holds of a break is written and removed field by field (`Remembers`, `RemembersOwner`, …; `Takes`, `TakesOwner`, …; `Adopts`, …), which the window `statement` lets other threads come between |
| `HostOutage` | outage machine of `OhsStore`, `hostOutageReport.ts`, `HostOutageCoordinator`, `HostOutageConnectionEmitter` | `page[c]` is one page: socket, phase, hold, timers, pending report; `Drop`, `Reopen`, `ProbeAnswered`, `SettleFires`, `CoolFires`, `Fatal`, `Reload`; a report's way is `PostMerged`, `PostLists`, `PostOpens`, `PostCloses`, `PostOk`/`PostFails`; `Crash`, `Boot`, `Cut` |
| `FeedProjection` | `projectThreads.ts`, collapse and order of `NotificationBus.ts` | pure: atoms to rows, rows to threads |
| `NotificationFeed` | `NotificationBus`, `notifications.ts`, backlog and deleted set of `OhsStore`, a client's queue in `WebSocketBroadcaster` | `raw` = the ring, `queue` = the socket's channel, `asks`/`hideAsks` = requests under way; a request has two steps (`Answer…`, `Take…`), so that anything may come between |
| `DockFilter` | `filter/*.ts`, `ncMarks.ts`, date ranges | pure: which containers are shown |
| `NotificationDock` | `NotificationDock.tsx`, `DockFilters.tsx`, `dockFilterState.ts`, `notificationDockStorage.ts` | filter, chips, open menu, marks, stored snapshot; one action per control, `Reload` |
| `ScheduleLayers` | `scheduleLayerDict.ts` | pure: layers, promotion, boards, the diff that is saved |
| `ConnectionSchedule` | `connectionSchedule.ts` | pure: the rule in force, desired windows, idle spans |
| `ScheduleEditor` | `ConnectionSchedulePopover.tsx`, the calendar, `ConnectionScheduleStore`'s supersession | `base` = the rules the draft is compared with, `draft`, `panel`; the net: reads under way, one batch of PUTs, other operators' rules |
| `SessionAxis` | `moexSession.ts`, `sessionProjection.ts`, `activityBucket.ts` | pure: sessions of a horizon, the folded scale and its inverse |
| `TimelineAxis` | timeframe, filters, view and their store in `OhsStore.ts`, `viewStateStorage.ts` | a choice publishes at once; two kinds of answers replace it later; `Midnight`, `Reload` |
| `RibbonRefresh` | the refresh pass of `OhsStore.ts` (`requestRibbonRefresh` to `fetchConnectionIncidents$`) | `due` = the debounce, `pass` = the running concat with what it has fixed, `layers` = the key each layer was asked for |
| `RibbonGeometry` | `coverageGeometry.ts`, `incidentRibbonProjection.ts`, `ConnectionRibbon.tsx` | pure: gaps, overlay, episodes, the colour on top |
| `LinkRibbon` | rows of `link_liveness` (`ConnectionManager`, `LinkLivenessStore`), the browser's answers and optimistic crash | one change of the link per instant; `happened` remembers the truth that the painting is compared with |
| `Connections` | connections of `OhsStore.ts`, `ConnectionsPanel.tsx`, `ConnectionForm.tsx`, `ConnectionToggle.tsx` | rows, live statuses on the wire, requests that are answered or fail, flash timers, a form |
| `InstrumentTree` | catalogue of `OhsStore.ts`, `InstrumentPicker.tsx`, filter chips | chips, query, pages, open and loaded nodes, busy series, recordings; bulk start and stop, reload |
| `BasketEditor` | `BasketEditorModal.tsx`, baskets of `OhsStore.ts` and `ProviderCard.tsx` | list, mounted editor, preview, available pages, calls under way |
| `NotificationCentre` | feed and dock side by side | `screen` = the one that plays; the other's variables rest |
| `Desk` | the other seven screens side by side | the same |
| `MC…` | – | small sets for TLC |
| `…_proofs` | – | theorems, see section 6 |

Breaks are numbers in the order they are opened. An atom of `NotificationHub`
has an id (the number of its issue, or the client's), a stamp of its own (now, or
a moment its caller hands in) and a correlation id; names, texts, severities and
actors are left out. Where a definition abstracts detail, its
comment says so. Definitions named as mutants (`\* Mutant: …`) are plausible
bugs: replacing the definition they stand beside makes the named property fail,
which shows that the property depends on that code. They are not part of any
specification.

**Granularity of `LinkBreak`.** One step is the code between two awaits. The
code is multi-threaded, so threads can also interleave *inside* such a piece.
`Races` names the windows that a run opens:

- `statement`: preemption inside an update that has no await in it;
- `join`: the link may be lost while a connect request is still joining;
- `drop`: a session may be dropped while the pump handles a state of the link,
  or by two threads at once.

A window left closed is an assumption of the run, and each is closed for a
reason stated in section 7: with it open, the property fails in the code.
With `statement` open every write of the four dictionaries that hold a break in
memory is a step. `ConfirmKnown` (a Degraded confirmed although the break is
already open) can run only in that window. `OneWay` is stated for it, too, and
for it claims less: while a thread stands before the write of the owner of a
break that it remembers, adopts or removes, any owner may be seen, because the code then
overwrites what the other thread has written (section 7). In every other state,
and always without that window, a break that is handed over stays so.

Simplifications of `LinkBreak`: one pump and one timer (the pump of an old
session running beside a new one is not modelled); Error counts as Down; no
ping-stall report, no abandoning by the wizard, no switching Auto off without a
disconnect; a connect fails before, not after, its session is registered; the
owner in memory and the owner column change in one step at a handover; the
supervisor's declined attempt does not look for a row again; the schedule is a
flag that the environment moves; the client recovery gate is a first tick that
may come arbitrarily late.

**Granularity of the client's modules.** JavaScript runs to completion, so one
step is one event handler with every call it makes: a click, a timer, an answer,
an event of the socket. Requests under way are part of the state, and their
answers carry what the server knew when it served them where that matters
(`NotificationFeed`, `BasketEditor`, `LinkRibbon`). Ghost variables are marked as
such in their modules; they excuse what the code is known to lose (section 7) and
guard nothing.

Simplifications of the client's modules: names, texts and search words are left
out or members of a small set; a fresh identifier is any unused one; a month is
nine days long, so that the horizons M, Q and Y stay small; one link change
per instant, with a heartbeat at every tick; in `ScheduleEditor` a read that is
served late is one asked late, and preset hours are loaded already; in
`InstrumentTree` the statuses of recording under Auto are not kept.

## 4. Runs: bounds, results, what they show

"Pass" runs are exhaustive within their bounds. The behaviours of a bounded
model stop when the bounds are spent, and an idle server with nothing wrong, or a
page without a click, may stop as well, so deadlock is not an error in any run
that says `CHECK_DEADLOCK FALSE`.

| Run | Configuration | Bounds | Distinct states | Shows |
|---|---|---|---|---|
| `hub_safety` | `MCNotificationHub.cfg` | one subject, two threads, two correlation ids, two atoms with stamps now or in the past, a client id that is a Guid and one that is not, ring of 2, queue of 1, batch of 2, one restart | 1 089 203 | `TypeOK`, `RingBounded`, `AtomsAccounted`, `OpenNotReplaced`, `EndedStaysEnded` |
| `hub_live` | `MCNotificationHubLive.cfg` | the same with one correlation id, stamps of now and a batch of 1; fair | 133 596 | `EventuallyStored`: no atom waits for ever |
| `journal_calls` | `MCIncidentJournal.cfg` | one break, one outage, four calls, two at a time, two retries, one failing store call, one restart | 773 000 | `TypeOK`, `HiddenIsClosed`, `ResolveReturnsClosed`, `Implements` |
| `link_recovered` | `MCLinkBreak.cfg` | two of {degrade, drop, failed connect, operator's connect}; windows join, drop | 541 405 | `RecoveredOnce`, `OneWay` |
| `link_rows` | `MCLinkBreakRows.cfg` | two of {degrade, drop, failed connect, operator's connect, failing store, closed window, operator's disconnect, restart}; window drop | 758 609 | `TypeOK`, `OneOpenRow`, `RecoveredIsUp` |
| `link_heals` | `MCLinkBreakHeals.cfg` | two of {drop, failed connect, failing store, restart, closed window}, or one degrade; fair | 6 865 | `Converges`, through the grace, the handover and the reconnect too |
| `outage` | `MCHostOutage.cfg` | two pages, three of {crash, cut, 500 in the recovery, reload, connections not listed, failing store}; fair | 188 834 | `TypeOK`, `NeverStuck`, `Settles` |
| `client_notifications` | `MCNotificationCentre.cfg` | six scenes of the feed (two 500s; a 500 with late stamps, a cut and a reload; a 500 and a link incident; a link incident with late stamps and a mark; ticks that overflow the ring around a cut; hide, restore and a reload with more incidents than an answer holds) with a ring of 3, a channel of 1, a backlog of 3, an answer of 1 incident; a dock with every kind of filter, old marks and an old store, three clicks | 524 242 | ten properties, below |
| `client_desk` | `MCDesk.cfg` | seven screens with budgets of clicks, failures, moves of the server, cuts and reloads of their own; the schedule also starts with a rule of two days that are no group | 551 272 | eleven properties, below |
| `journal_escalation` | `MCIncidentJournalEscalation.cfg` | as `journal_calls`, no failures | – | violation, section 7 |
| `link_dropped` | `MCLinkBreakDropped.cfg` | one degrade, window drop, fair | – | violation, section 7 |
| `options_ensured` | `MCDeskOptions.cfg` | the tree alone | – | violation, section 7 |

Why the bounds are enough to be interesting:

- A ring of 2 with two atoms overflows through warm-up and restore, which put
  atoms into it a second time; a queue of 1 with two threads drops; a batch of 2
  takes more than the queue holds. Two correlation ids are needed for an
  incident to be replaced by another and for one to be ended while another is
  open; both may be opened or adopted again.
- Two calls at a time and four in all put any statement of one call between any
  two of another, with an earlier call having prepared the row and a later one
  reading the result. Two retries instead of ten: the loop is entered, repeated
  and left.
- Two troubles in `LinkBreak` are, for example, a loss and the failure of its
  repair. Two attempts instead of five: one failure leaves one more, two reach
  the limit. A degrade goes alone in `link_heals`, for the reasons of section 7.
- Two pages are what one localStorage needs to be contended for; three troubles
  are a crash, its relapse and a lost report.
- In the feed a channel of 1 overflows at the second atom, a ring of 3 evicts at
  the fourth, and one request of each kind is enough to be overtaken: it is asked
  again as soon as it is answered. A stamp may be one place late, which puts an
  atom under one that was issued before it. An answer of the journal holds one
  incident and the journal two, so one is always beyond the answer. The scenes
  divide what would multiply: no scene has a 500, or its ok, that is pushed out and
  brought back by the backlog of a cut, the last disjuncts of `OrphansAreProbed`;
  the theorem covers them.
- On the desk every budget is the smallest with which the deepest mutant of the
  screen is found, plus failures and reloads; alternatives of budgets (many
  clicks and no failure, fewer clicks and one failure) replace one large one.
- Symmetry is used for the callers (threads of the hub, calls of the journal) and
  the hub's correlation ids in safety runs only.

Screens do not share state in what is modelled of them, so `NotificationCentre`
and `Desk` let a behaviour play on one screen; a property of a screen is named
there as in the screen's own module.

The properties of the server in words:

- `RingBounded`: `_count` is adjusted beside a concurrent queue by four
  operations; it equals the length, and the length stays within the capacity.
- `EndedStaysEnded`: of racing callers one closes an incident and none speaks
  after it: the hub's incident calls issue nothing under an ended correlation id
  until somebody opens or adopts it again. That does happen, to a closed id too
  (section 7); and what `Publish` and `Ingest` say under an id is their callers'
  affair, which the hub does not check.
- `AtomsAccounted`, `EventuallyStored`: an atom is with its thread, in the
  queue, with the writer, in the log under its key, or dropped by a full queue, a
  failed batch or a crash. The writer passes over an atom whose id is not a Guid
  (`Mappable`); the property says that this never costs an atom, because the
  hub mints Guids and `POST /notifications` refuses any other id.
- `Implements`: the table, seen through status, outcome and visibility, is
  `IncidentLifecycle`: whatever stale row a call writes back.
- `ResolveReturnsClosed`: `RegisterBreakResolved` returns only after the
  episode is closed, even before the open of the same episode has arrived.
- `HiddenIsClosed`: a soft-deleted row is closed, unless a store call failed.
- `RecoveredOnce`, `RecoveredIsUp`, `OneOpenRow`, `OneWay`: one announcement
  per break, not over a lost link; one open row per connection; a break handed
  over is not handed back (with window `statement`: see section 3).
- `Converges`: when troubles end and Auto wants the connection, it comes up,
  and memory, hub and journal agree for good that nothing is open.
- `NeverStuck`: a page that masks its switches has a timer, a probe or a request
  under way that will end it.
- `Settles`: every outage comes to its end. No page shows it, no report waits in
  localStorage, every drop that a page saw was counted in an episode whose row is
  resolved, and no crash row stays open. What the code loses is excused case by
  case: an episode the host gave up, a report a page forgot before it was
  answered or has still to send, and a row left open by the host's death whose
  report was counted elsewhere afterwards (section 7).

Of the page:

- `NothingMissed`: with the socket served, every atom the host issued is in the
  ring or on its way, unless the channel, a failed request or newer atoms lost it.
- `OrphansAreProbed`: a recent 500 is being probed, or an ok closes its thread,
  whatever the clocks that stamped the two, unless its probe failed or so many newer
  atoms came that the ring may have pushed it or its ok out.
- `NoAlertUnderClose`: the badge counts no alert that a later close of its thread
  answers, in whatever order and with whatever delay the atoms came. An alert that is
  stamped after the close counts, as `NotificationBus.test.ts:375` expects of an
  incident announced again.
- `CollapseKeepsThreads`, `ReadStays`: folding the ticks of a phase changes no
  thread's status, and what was read stays read.
- `HiddenIsTrue`: at rest only incidents that the journal hides are hidden, and all
  of those that an answer of the journal would hold, which is limited to 500.
- `NoChipFiltersNothing`, `GroupingHidesNothing`, `HeaderMarkFlips`,
  `ReloadKeeps`: a filter without a chip is at its default and a period is whole
  days of the feed's zone; grouping shows what the flat list shows; a click on a
  header's mark flips it; a reload brings back what was left, an old store too.
- `EditorShowsActiveLayer`, `MainChangeIsAsked`, `UnsavedKept`: the ribbon shows
  the layer being edited; a change of the main layer was asked about; nothing
  from the net takes an unsaved draft.
- `TopOfBoardWins`, `IdleIsNotConnected`: the layer on top of the board is in
  force, unless one without a board is (section 7), which never happens on a day
  with a layer of its own or of dates; and exactly what is not due is painted idle,
  minute by minute, also across midnight.
- `AxisIsTrue`: the axis shows the chosen days (of a range the latest 4200 dates,
  where `sessionsFrom` stops) and hours, the cursor tells the time drawn under it,
  a reload keeps the view. An axis over all data follows the sessions, or the
  extent of the data, and is compared with no dates.
- `RestIsCurrent`: at rest every layer of the ribbon belongs to what is shown.
- `RibbonIsTrue`: red while the browser is cut off; afterwards the colours of
  what happened to the link.
- `NothingHangs`: no row stays busy or red without an answer or a timer to come.
- `TreeIsServed`: an open branch is loaded or on its way; a series has at most
  one operation and is busy exactly as long; the query follows the chips.
- `EditorIsTrue`: the preview is of the present rules, and fields of one set are
  never written over another.

## 5. Fairness

- Hub: weak fairness of each thread's `Dispatch` and of the writer. Both run on
  the thread pool and wait for nothing but their own awaits; the writer's loop
  catches everything except cancellation (`NotificationPersistWriter.cs`).
- Link break: weak fairness of each thread (pump, timer, grace loop,
  supervisor, operator's request, background write of the journal), for the same
  reason; of the first Live report of a new session, since the environment
  is assumed able to connect once its troubles are spent; strong fairness of
  `ForgetsClose`, a sixty-second time-out that is enabled whenever no close is
  under way; strong fairness of `BackupHandover`, because ticks go on and one
  of them meets the elapsed grace.
- Troubles are never fair, and every trouble costs one of `MaxTrouble`.
- Host outage: weak fairness of `Boot` (a service manager starts the process
  again), of a page's own events (its socket reports its end and is opened again
  by `live.ts` for as long as the page is open; probes are answered or time out;
  timers fire), and of requests under way. Crashes, cuts, 500s and reloads cost
  one of `MaxTrouble` each and are never fair.
- The screens of the page have safety properties only. What must happen in the
  end is stated there as what must be under way (`NothingHangs`, `TreeIsServed`,
  `OrphansAreProbed`, `NeverStuck`): a page left alone asks nothing.

## 6. Proofs

`tlapm` proves the following for all values of the constants that satisfy the
named assumptions of the modules:

- server: `HubAssumption` (positive capacities, natural bounds, the two "none"
  values being none of the others, clients' ids no numbers of the hub),
  `JournalAssumption` (breaks and outages are
  disjoint, at least one retry, natural bounds), `LinkAssumption`,
  `OutageAssumption` (finitely many pages, natural bounds);
- notification centre: `FeedAssumption` (ring, channel, backlog and an answer of the
  journal hold at least one entry), `ScenesAssumption` (the journal of a scene lists
  link incidents), `CorrsAssumption` (correlation ids of links and of failed requests
  are distinct), `DayAssumption` and `TimesAssumption` (a day has a length, times
  are integers), `OptionsAssumption` (connections, layers and period have menus
  of their own), `StoresAssumption` (the browser has kept what a dock wrote, the
  old forms included), `ThreadsAssumption` (a thread holds one incident's entries,
  of one layer: `layerFilter.ts:82`), `MarksAssumption` (marks are looked up for
  all entries; an absent one is unset);
- desk: `FlagsAssumption` (the switches of the timeline are among the flags),
  `ViewsAssumption` (a kept view has Boolean switches, a frame the page offers or
  wrote and hours of the day, which is what `viewStateStorage.ts` checks field by
  field), `AxisAssumption` (dates are integers, a month has some days, a time frame
  counts something, and the hours known of a day lie within it), `RulesAssumption` (the store
  starts with finitely many rules that the server would take, each dated by an
  integer moment) and `ProbesAssumption` (dates are integers, the instants looked
  at minutes of a day). The connections, the tree, the editor of sets and the
  refresh pass assume nothing.

| Theorem | Statement | Argument |
|---|---|---|
| `NotificationHub_proofs!HubInvariant` | `Spec => []IInv` | one lemma per group of actions |
| `HubTyped`, `RingIsBounded` | `TypeOK`, `RingBounded` | conjuncts of `IInv` |
| `ResolvedIsLast` | `EndedStaysEnded` | an open incident's id is not ended |
| `OpenIncidentStays` | `OpenNotReplaced` | step by step from typing |
| `NoAtomIsForgotten` | `AtomsAccounted` | each step hands an atom from one place to the next |
| `IncidentJournal_proofs!JournalInvariant`, `JournalTyped` | `Spec => []IInv`, `[]TypeOK` | one lemma per SQL statement, one per action |
| `JournalImplementsLifecycle` | `Spec => Implements` | each statement is a step of `IncidentLifecycle` or a stutter |
| `ClosesBeforeReturning`, `HiddenRowsAreClosed` | `ResolveReturnsClosed`, `HiddenIsClosed` | from `SafeInv` |
| `LinkBreak_proofs!HandoverIsOneWay` | `OneWay` | from typing; one lemma per group of actions, one per write of the owner |
| `LinkInvariant`, `LinkTyped` | `Spec => []IInv`, `[]TypeOK` | licences to open a break are counted |
| `HostOutage_proofs!OutageInvariant`, `OutageTyped`, `OutageGoesOn` | `IInv` and typing of what is forgotten, `[]TypeOK`, `[]NeverStuck` | one lemma per method of `OhsStore`, one per action |
| `RibbonRefresh_proofs!RefreshInvariant`, `LayersAreCurrent` | `Spec => []IInv`, `[]RestIsCurrent` | what a pass has left behind is current |
| `Connections_proofs!RowsInvariant`, `RowsGoOn` | `Spec => []IInv`, `[]NothingHangs` | who makes a row busy has asked |
| `Desk_proofs!EditorInvariant`, `EditorBelongsToSet` | `Sets!Spec => []SetsInv`, `[]EditorIsTrue` | which preview is still listened to |
| `TreeInvariant`, `TreeGoesOn` | `Tree!Spec => []TreeInv`, `[]TreeIsServed` | each operation holds the key of its series |
| `ScheduleInvariant`, `MainIsAskedFirst`, `NetTakesNothing` | `Schedule!Spec => []ScheduleInv`, `[]MainChangeIsAsked`, `UnsavedKept` | a main layer that differs was asked about |
| `WindowsArePaintedAsDue`, `IdleIsPaintedAsNotDue` | paint and due agree, minute by minute, both ways | segments are the windows of the day and of the day before, cut at the day; the fold of the sorted windows covers what they cover, the voids of the cursor the rest |
| `ListsInvariant`, `ArrivedIsPaintedAsDue` | `Schedule!Spec => []RulesInv`, `[]IdleIsNotConnected` | the store and every list under way hold only rules the server took |
| `ViewInvariant`, `AxisKeepsView` | `Axis!Spec => []ViewInv`, `[]ReloadKeepsView` | reading a stored view makes its switches exclusive |
| `AxisShows`, `CursorComesBack` | the axis published of any horizon, filter and hours shows just the chosen days; from a place on any axis in order to the instant and back is the same place | the selection and the fold of the days, place by place; stretches laid end to end |
| `HorizonInvariant`, `AxisIsShown` | `Axis!Spec => []HorizonInv`, `[](AxisIsChosen /\ CursorIsTrue)` | an axis that is not behind has the days of the choice |
| `RibbonInvariant`, `RibbonShowsLink` | `Ribbon!Spec => []RibbonInv`, `[]RibbonIsTrue` | the rows and the time between them tell what happened; the fold of the gaps keeps that, gap by gap |
| `DeskAsksAboutMain`, `DeskKeepsUnsaved`, `DeskPaintsAsDue`, `DeskKeepsView`, `DeskAxisIsTrue`, `DeskRibbonIsTrue`, `DeskRestIsCurrent`, `DeskNothingHangs`, `DeskTreeIsServed`, `DeskEditorIsTrue` | the desk's properties | the screen that plays keeps its own specification |
| `NotificationCentre_proofs!DockInvariant` | `Dock!Spec`'s initial states and steps keep `DockInv` | one lemma per handler |
| `DockFiltersByItsChips`, `DockReloads`, `DockGroupingHidesNothing`, `DockHeaderFlips` | `NoChipFiltersNothing`, `ReloadKeeps`, `GroupingHidesNothing`, `HeaderMarkFlips` | from `DockInv` |
| `FeedInvariant`, `FeedHidesTheDeleted` | `Feed!Spec => []FeedInv`, `HiddenIsTrue` | the last word about an incident is on its way, or the incident is beyond the answer |
| `FeedKeepsRead` | `ReadStays` | step by step |
| `MissInvariant`, `FeedMissesNothing` | `Feed!Spec => [](FeedInv /\ MissInv)`, `NothingMissed` | every issued atom is accounted for |
| `ProbeInvariant`, `FeedProbesOrphans` | `Feed!Spec => [](AtomsInv /\ ThreadsHeard)`, `OrphansAreProbed` | every 500 that is heard of is seen to |
| `FeedAlertsAreOpen` | `NoAlertUnderClose` | the newest row shown of a thread counts, and no row that closes it is folded away |
| `FeedFoldsFaithfully` | `CollapseKeepsThreads` | the threads of the folded rows are those of the ring, whatever was folded |

*Hub.* `EndedStaysEnded` says of a step that it issues nothing under an ended id.
The incident calls speak under the id of an open incident, so it needs that such
an id is not ended (`OpenIsLive`): `Open` and `Adopt` take the id out of `ended`
when they put the incident into the map, `Resolve` does the opposite, and the
guard under the lock keeps a subject from having two. `RingBounded` rests on a
lemma about the eviction loop (`PutIntoRingBounded`).

*Journal.* The danger is `UpdateOpenAsync`, which writes a whole row back. `IInv`
holds that the snapshot in hand is that of an open row (`SnapshotsOpen`), so
writing it back under `status IN ('active','recovering')` is a step of the life
cycle; a row without status is the absent row (`TableOK`); retries remain as
long as a call is in its loop (`RetriesLeft`).

*Atoms.* `AtomsAccounted` counts every atom of a thread under way as accounted
for. `AllPlaced` is sharper: an atom is the first one of a thread about to
persist it, in the queue, in the writer's batch while that is being stored, in
the log under its key, or lost. It is inductive with typing and with `Mappable` of
every issued atom, which is what keeps the writer's skip out: a full queue gives
up its oldest atom and only that (`QueueTakes`), what is read joins the batch, of
atoms with one key the table has one, and only a crash empties threads, queue and
batch.

*Closing.* `SafeInv` holds that a call that goes on trying has seen a row
(which cannot vanish), and that a call at its last INSERT, at binding or at
hiding has seen the episode closed (which it stays, by the refinement: lemma
`LifecycleGrows`). A visible row that an UPDATE does not match is therefore
closed, and the loop of retries can only be left in that case.

*Link break.* `TypeOK` bounds two counters that nothing in the code bounds: the
correlation ids the hub mints and the failed attempts of Auto. `IInv` gives each
trouble one licence to open a break and follows it: to the pending Degraded, to
the timer or the pump that confirms it, to the thread that has lost the link (the
pump holds two while it confirms on its way to a lost link); what is minted and
what is held is at most what was spent (`Licensed`). A thread about to connect
has not used up the attempts (`Attempting`), and one about to remind knows of
which break (`RemindsOfOne`). That the newest open row is an open row needs the
existence of a maximum, which `NewestIsOne` takes from well-foundedness.

*Host outage.* `IInv` is typing and `NeverStuck`, which is inductive together
with it, page by page. The lemmas follow the methods (`Signal`, `Start`,
`Reachable`, `Dropped`, `Resolved`, `Flushed`), because several actions run
several of them in one step and only the page they end in must be well again.

*Refresh.* `RestIsCurrent` speaks of the time when nothing runs; the work is to
say what holds while something does. Unless a refresh is due, the link is down
or the extent is being asked for, the running pass has fixed what is shown now
(`PassCurrent`), and each layer the pass has left behind, unless its request
failed, was read for it (`LeftCurrent`). A pass ends with nothing left to do, so
all layers are left behind.

*Connections.* What comes from the server (live events, lists, answers) is a
settled status; only a click makes a row busy, and it sends the request that the
row awaits. When that is answered without a status, the list is asked for, and
the list settles every row.

*Editor of sets.* No preview is listened to while the editor is closed, and only
that of the rules in the fields while it is open; an answer can therefore only
be about the fields.

*Tree.* An open node is loaded, excused by a failure, or has a request under way
that reads it (`Served`); a busy series has exactly one request that holds its
key, and a request that holds a key has its series busy (`Keyed`); the query is
that of the chips (`QueryOK`), and what the browser has kept of it needs no chip
that is not kept with it (`StoredOK`, which a reload uses).

*Schedule.* `MainChangeIsAsked` speaks of an open panel. `ScheduleInv` says it of
every draft: where it differs in the main layer from what it is compared with,
the operator was asked, or the question stands before him in the view of
editing. That the main layer of what rules are made into has at most one member
is what makes the comparison an equality. `UnsavedKept` needs no more: what the
net changes reaches a draft only through a save that succeeded or a refresh that
finds nothing at stake.

*Painting.* The server decides at an instant (`IsDue`), the page paints intervals:
it cuts windows at midnight, sorts them, merges what touches and inverts what is
left. `RulesInv` says what makes the two comparable: the store and the lists
under way hold finitely many rules, each one `Valid` (`Validate` refuses any
other) and dated by an integer moment, so that a date has one winner. `HoursAre`
lists the segments of a day: those of its own window, and of the window of the day
before that runs past midnight; a window of the day after has not opened. The
folds are taken step by step (`FoldInSteps`): `MergeCovers` says that merging the
sorted segments covers the minutes they cover, `InvertCovers` that the voids
before the cursor are the minutes below it that nothing covers.

*Axis.* `ViewInv` adds to `ReloadKeepsView` that the kept view is one and that
the shown view has not both kinds of switches on, since `RestoreView` would
otherwise change it. That an axis shows what was chosen is a fact about one
computation first (`AxisShows`): the calendar of a horizon, with the hours merged
into it and each day reshaped by the filter, has the chosen dates in order, each
once, and each day the stretch that filter and server give it. Only the latest
4200 dates of a horizon are computed (`Reach`), in the property as in the code.
`HorizonInv` then says of the state what makes the published axis one of those:
today, the view, the picker and the answers under way are well made, and an axis
that is not behind is the one computed of the view and of the hours heard since,
as is every calendar that an answer with hours will be merged into
(`AxisFollows`). The cursor needs only that the stretches are laid end to end and
none runs backwards (`LaidOut`); the offsets are a recursive function, opened
place by place.

*Ribbon.* `RibbonIsTrue` compares what is painted with `happened`, which the code
does not keep. `RibbonInv` says what of it the server's rows do keep: a row covers
instants at which the link was live, and the time from its end to the next row (or
to now) is one in which the link was what the row's reason makes of it
(`RowsTell`); the two leave no instant out after the first row begins (`RowsSpan`),
and the breaks of the journal are the instants at which it was broken
(`BreaksTell`). A row without length marks a change of owner in the middle or at
the end of a break, and lost time never begins with one; that is what lets
`Coalesce` join across it (`RowsSay`);
`LastSays` ties the last row to the present link and is what each change of it
needs. `GapsAreTold` takes the fold of the gaps step by step (`GapsFold`): after
each row the list covers exactly the time so far in which the link was away, each
gap with the cause of its owner. Whatever is painted of an answer then is what
happened (`AnswerTells`, `PaintedTells`). For the time without the host `SuspectInv`
holds that the crash the browser suspects is drawn open, or that the journal read
last knows a crash that overlaps it, which stays there. Both invariants were checked
by TLC first, also on longer ribbons than the run's.

*Dock.* The state is a filter, the chips, the marks and the store. `DockInv` says
that the filter has its fields and its period is one of the forms the dock writes
(`FilterOK`), that every entry has its marks (`MarksOK`), that without its chip a
field is at its default (`Kept`), and that reading the store gives the dock back
(`ReloadKeeps`). `DockGroupingHidesNothing` follows from the definitions of the
filter: `EffectiveFields` and `EntryShowsItsThread` compare, field by field, what
a flat list asks of an entry with what the grouped one asks of its thread.

*Hidden incidents.* The last event in the channel about an incident says of it
what the journal holds (`LastWordHolds`); an incident the page has wrong is spoken
of in the channel, unless the socket is down, the deleted ones are being asked for
or an answer crossed a change (`WordIsComing`). Wrong means hidden without being
deleted, or deleted, among the newest incidents of the journal and not hidden
(`Right`); an incident only leaves the newest, when others are opened after it.
Where nothing is on its way the page is therefore right. The channel is a sequence
that drops its oldest entry (`ChannelOK`, lemma `SentIs`).

*Atoms of the feed.* Stamps need not follow the order of issue: the host stamps
before its lock or takes a caller's moment, and the page stamps its own ok. `AtomsInv`
says that every atom has a stamp of its own, that the page's ring is sorted by stamps,
within `Limit` and made of atoms that exist. `Accounted` then follows each issued atom:
on the page, in the channel, coming with a backlog that is asked for or was read when
the atom existed, excused, further back than a backlog reaches, or pushed out, that is
with `Limit` stamps above its own (`Pushed`). `AsksOK` holds that an answer on its way
is a prefix of what was issued. The lemmas about the ring (`PublishedKeeps`,
`FoldPublished`, `Holds`) reduce what `publish` does (replace, insert, sort, cut) to a
fact about sets of rows.

*Threads of the feed.* `ThreadsInv` says which atoms can exist at all (of a link,
of a failed request, of the page), that a request has one 500, that every ok of the
page is remembered in `oks`, and that a closing atom is never the row of the outage,
which alone is removed from the ring. A 500 that was heard of (`HeardAt`) is in the
ring or pushed out, and a probe is under way, or a probe gave it up, or it is done
with: too old to be probed, closed by an ok that is on the page or pushed out, or
itself pushed out. An ok may be stamped before its 500, so the newest row need not
be the one that closes: `ThreadOf` looks for a closing row anywhere in the ring, which
is why the thread of an answered 500 is resolved all the same (`ThreadsClose`), while
the badge looks at the newest row shown, over which no close can lie (`AlertIsOpen`).

*Folded threads.* `CollapseKeepsThreads` compares the threads of the ring with
those of its folded rows, which have fewer rows and other times. `SayOfRing` says
what the fold leaves true: each row says what one atom of its thread says, at that
atom's time; for each atom some row says the same, no earlier; no two rows have one
time. Two lists of which this holds have the same newest row among those that pass
any test of code and status (`NewestAgree`), and so agree in status, last close and
last activity. The kinds are read from the first row that tells them, which the
fold may replace; they are kept because all atoms of a thread tell them alike
(`OneVoice`), and the outcome because a thread's closing atoms are of one code or
tell none (`ClosesPlainly`): both follow from what the host sends (`WellMade`).

*Lifting.* The compositions let one screen play; lemmas such as `DockPlays`,
`FeedPlays` and `SchedulePlays` say that a behaviour of the composition either is
one of the screen's specification or never has the screen, so that an invariant
of the screen holds of the composition.

`FeedProjection` and `SessionAxis` spell out a sort and selections (`StableSort`,
`Only`, `Picked`) by
counting places, and what it looks up in a thread by the greatest or least place,
instead of using `SortSeq` and `SelectSeq`, of which the prover
knows nothing. `InPlaces` and `InTheirOrder` say once what they return; they need
`IsOrder`, finite cardinalities and the existence of a least number (`LeastOf`),
and every lemma about sorted or folded rows rests on them. The sort of a day's
windows is spelt out too (`Sorted`), and the gaps of an answer and the offsets of
an axis are recursive functions; `FoldLeft` is opened down to the set of places it
folds (`JoinsFold`, `VoidsFold`, `GapsFold`).

Model-checked but not proved:

- `OneOpenRow`, `RecoveredOnce` and `RecoveredIsUp`: they hold for two troubles
  and the windows of the runs only. With a third they are false of the code
  (section 7), so there is no theorem for every `MaxTrouble`.
- `EditorShowsActiveLayer` and `TopOfBoardWins`.
- `OptionsAreEnsured` and the other two refuted properties, of course.
- All liveness (`EventuallyStored`, `Converges`, `Settles`), which under fairness
  is out of the prover's reach.

## 7. Where code and intention part

Three disagreements are kept as runs whose property TLC refutes.

- `journal_escalation`: a *recovering* event that read the row before a handover
  wrote it puts back the old owner and clears `escalated_at`.
- `link_dropped`: while the handover drops the session, the pump still handles
  Live and sets the status last; the connection looks up, has no session, and
  the supervisor's tick takes it for connected.
- `options_ensured`: the page loads options through a connection whose row has
  the status `connected`; the host never sends that word, so a live connection
  always reads the cache.

Others are visible by changing a configuration or a ghost, and are the reason for
the bounds of the passing runs and for what their properties excuse.

*Server.*

- *Restore* (`OhsEndpoints.cs:906`): restoring a soft-deleted episode hydrates its
  atoms although they are still in the ring; they appear twice and push others out.
- *Warm-up* (`NotificationHub.cs:371`): hydration puts the old rows behind the
  ring's atoms and evicts from the front, so an atom published before the
  start-up query returned is the first to go.
- *Hidden and open* (`OhsEndpoints.cs:828`): a store exception during the close
  of a delete request is swallowed and the row is hidden while open; nothing
  closes it any more. Drop `faults = 0` from `HiddenIsClosed`.
- *Adopted after a restart* (`ConnectionSupervisor.cs:352`): a break adopted with
  TRANSAQ as its owner is never handed over: no progress loop runs in the new
  process, and the backup tick needs a link state that is null. `Converges` with
  degrade and restart.
- *Second row* (`ConnectionManager.cs:173`): an operator's connect that fails after
  a restart, before the supervisor's first tick, opens a second break beside the
  open row. `OneOpenRow` with restart, failed connect and operator's connect.
- *Degraded after Down* (`ConnectionSupervisor.cs:343`): a break of the supervisor
  whose link turns Degraded counts as connected, and neither side repairs it.
  `Converges` with troubles {degrade, drop}.
- *Lost while joining* (`ConnectionManager.cs:455`): a connect that has joined
  closes the break without looking at the link again. `RecoveredIsUp` with
  window join.
- *Two closers* (`ConnectionManager.cs:1105`): the second of two concurrent
  closers takes a newer break out of memory. `Converges` with two degrades.
- *Disconnect during a close* (`ConnectionSupervisor.cs:614`): the halt puts the
  row it read before back into the hub, and it is announced twice.
  `RecoveredOnce` with {degrade, operatorOff}.
- *Disconnect during a connect*: the status remains up without a session.
  `Converges` with operatorOff or operatorOn and connectFails.
- *A third trouble* (`MCLinkBreak` with `MaxTrouble` 3). `OneOpenRow`: a close whose
  store call fails leaves the row open and forgets the break, and the next loss
  opens another; also after *Two closers*. `RecoveredOnce`: after *Two closers* a
  thread that still holds the row announces its break again. `RecoveredIsUp`: the
  operator's disconnect during a close puts the break back into the hub, the tick
  finds it as an orphan (`TryResolveOrphanOpenBreak`), and while it waits for the
  journal the link turns Degraded; it announces the recovery all the same.
- *Preemption without an await*: with window statement `OneOpenRow`,
  `RecoveredOnce` and `RecoveredIsUp` fail; memory is a set of concurrent
  dictionaries that are read and written one by one. A break that is resolved
  between the writes with which another thread adopts it is put back into the hub
  and announced twice. A pump that reports Down between the writes of the timer
  (`ConnectionManager.cs:1705`) hands the break over, and the timer writes
  TRANSAQ over it, which is what `OneWay` excuses.

*Host outage.* A host that dies again in the warning phase comes back without the
hold: the page counts it as signalled by the first answer and forgets only when
the outage ends (`OhsStore.ts:734`). A crash whose report is cut short between
merge and journal is not journalled by that request: the emitter works on the
token of the request (`HostOutageEndpoints.cs:14`), which a cut or a reload
aborts; what a page then sends again is merged, answered and never written
(`skipped`). The same is true when the connections cannot be listed or none of
them is enabled (`HostOutageConnectionEmitter.cs:42`), and the row stays open when
the store fails or the token is aborted between the open and the close of a
crash. A row left open by the host's death is closed only if its own report
begins an episode again. A report whose failure arrives after the page's socket is
back waits in memory for the next reconnect. A second outage before the first is
delivered overwrites the pending slot, and the late success of an older report
clears a newer one. A second cut of the network within 120 s is merged into the
episode before it.

*Feed and dock.* An atom issued between the acceptance of a socket and its
registration is lost until the next opening (excused). A failed backlog is not
asked again (excused). A stale answer with the deleted set can show a hidden
incident (`crossed`). A 500 that is known from the backlog only is not probed, and
a failed probe is not repeated (`forsaken`). A 500, or the ok that closed it,
which newer atoms pushed out and a later backlog brought back is not probed either
(the last disjuncts of `OrphansAreProbed`). An incident that was deleted before
the newest 500 of the journal is not in the answer (`OhsStore.ts:2775`), so a page
that asks again, or is loaded again, shows it once more; `HiddenIsTrue` speaks of
the newest only. An incident announced again after its close counts on the badge,
while its thread is shown as resolved (`projectThreads.ts:124`). Two atoms with
one stamp, whose order in the ring is that of their arrival, are not modelled. A
thread's badge counts what is displayed, so collapse switched off, or a reload,
fills the tray again; marking all as read marks displayed rows only. A legacy mark
of a thread cannot be taken from one of its entries, and hides the thread only in
groups. Two tabs overwrite each other's dock.

*Schedule.* A saved change of a wider range supersedes nested exceptions that were
not touched, although the confirmation lists them as unchanged. Rules of one batch
share their moment, so ties between them are resolved arbitrarily. In the
aggregate view a click on a chosen, not highlighted chip removes the layer. In the
view with the eye a live push overwrites the draft; a re-opened draft is not
compared with rules changed meanwhile; going back to editing while a batch runs
loses the newer edits when it succeeds. A window of 24 hours is saved as 1439
minutes. Days of a group that are chosen one by one are taken for the group
(`OneByOne` exempts it), and a board leaves out a second group (`TopOfBoardWins`
asks for at most one). The server takes a rule of several days that are no group,
which the editor never makes: it gets no board (`scheduleLayerDict.ts:273`) and
yet has its way (`:445`), where `TopOfBoardWins` lets it; and editing it makes
layers of the single days instead, with the window of the main layer where they
are new, while the ribbon shows its own (`ConnectionSchedulePopover.tsx:327`;
`OneByOne` exempts it).

*Timeline and ribbons.* A late answer with the hours of D/W overwrites a later
M, Q, Y, All or range, and a late extent any later choice (`behind`). A changed
filter of exchanges waits for the minute's tick in smart mode; a range is never
computed anew. A custom window entered backwards makes the cursor's inverse wrong.
A pass longer than the poll of 12 s is abandoned for ever. A late quick journal
answer may belong to an older window or another connection (`missed`). Without a
source the optimistic crash is erased. After a recovery the overlay hides what
was live after the drop until journal or gap know of the crash; between the
report and the journalled crash the red disappears from the journal's view.

*Connections, catalogue, sets.* A save answered with an error status drops the
edited row. A late answer of connect, PUT or list overwrites a newer status or
brings back a deleted row (`NothingHangs` speaks of busy and red rows only). A
creation whose second step fails leaves a connection that is not listed. A busy
form that stays mounted for another connection writes the first one's fields to
the second on a retry. A change of the list's filter while a page is loading is
never read (`OhsStore.ts:1708`, `2017`), against the comment at line 1707. A late
spine opens the tree of a later filter. A late page of available instruments is
appended to a list filtered anew; every answer with the list of sets resets
unsaved edits; a set deleted elsewhere empties the fields, and OK then creates
it anew; `enabled` is written back from a stale list.

## 8. What is not modelled

- *Recording and coverage, trade pipeline, connector session, write gaps,
  instrument registry*: the recording half of the server. It shares with the
  modelled half only the link's state, which reaches it as an event. Its hazards
  are listed in `PROJECT.json` without a property.
- *Client recovery gate*: in `LinkBreak` and `HostOutage` what waits for it
  happens at any time after it could; its own time-outs are left out.
- No state of their own, or one store call each: the remaining HTTP endpoints and
  start-up wiring, the back-fill of recent incidents (an INSERT with ON CONFLICT
  DO NOTHING, as `IncidentJournal!Insert`), the server's side of baskets and
  catalogues, calendars and schedule confirmers, reference stores, parsers and
  migrations.
- In the page: layout, theme, texts and icons, the table of incidents and its
  modal, the exchange calendar, settings, tracks of recordings' coverage, the
  zone of display, scrubbing, labels; exported functions that nothing calls
  (`subtractActivityBuckets`, `writeGapPaintSpans`, `resolveGapEndMs`,
  `mergeIncidentReds` and a few more).
- The native TRANSAQ library, PostgreSQL and the browser are external: link states
  and connects that succeed or fail, atomic statements that succeed or throw,
  sockets and requests that arrive, are lost or fail.

Within the modelled components: the scope table of crash rows, annotations,
titles and severities of the journal; formatting and actors of atoms;
notifications that neither open nor close a break; `link_liveness` markers;
reports without an end and the earlier reports that rebind an episode's seed,
which no page of this repository sends; the connection that needs an operator
after an outage; and the simplifications of section 3.

## 9. How to run

    tlc -config MCLinkBreak.cfg MCLinkBreak
    tlc -config MCDesk.cfg MCDesk
    tlapm NotificationHub_proofs.tla
    tlapm IncidentJournal_proofs.tla
    tlapm LinkBreak_proofs.tla
    tlapm HostOutage_proofs.tla
    tlapm RibbonRefresh_proofs.tla
    tlapm Connections_proofs.tla
    tlapm Desk_proofs.tla
    tlapm NotificationCentre_proofs.tla

The table of section 4 names the configuration of each run; the module of a
configuration is the `MC` module whose name it starts with.
