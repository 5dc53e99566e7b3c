--------------------------- MODULE NotificationDock ---------------------------
(***************************************************************************)
(* The dock of the notification centre under the operator's hands: the     *)
(* chips of the filter and their menus, the marks of entries and threads,  *)
(* the setting that groups the feed into threads, and the snapshot each    *)
(* change writes to the browser's storage and a reload reads back.         *)
(*                                                                         *)
(* The feed stands still: the threads and the deleted incidents are        *)
(* constants.  A second page on the same storage is left out.              *)
(***************************************************************************)
EXTENDS DockFilter

CONSTANTS Threads,      \* the threads of the feed
          Deleted,      \* the ids of those the journal has deleted
          OldMarks,     \* maps of marks the storage may hold at first
          OldStores,    \* snapshots the storage may hold at first
          Options,      \* per chip with boxes, its options
          ConnectionIds, Queries, CustomDays, ClockTimes,   \* what is typed
          Offsets, Instants,                                \* zones and instants
          MaxClicks     \* changes the operator makes

VARIABLES dockFilter, active, menu, group, marks, stored, clicks
dockVars == <<dockFilter, active, menu, group, marks, stored, clicks>>

NoStore == [there |-> FALSE]

(***************************************************************************)
(* The storage.                                                            *)
(***************************************************************************)

\* Mutant: the snapshot does not say that "left" means shown.
SnapshotUnversioned(f, a, g) ==
  [there |-> TRUE, filter |-> f, active |-> a, group |-> g, polarity |-> "none"]

\* writeStorage: the whole state, with the polarity of the spam choice.
Snapshot(f, a, g) ==
  [there |-> TRUE, filter |-> f, active |-> a, group |-> g, polarity |-> "show"]

\* A date is kept with the preset that has dates only.
ParseRange(r) ==
  IF r.preset = "custom" THEN r ELSE [r EXCEPT !.from = {}, !.to = {}]

\* A snapshot of the time when "left" hid the spam loses that choice.
MigrateSpamChoicePolarity(f, s) ==
  IF s.polarity = "show" THEN f ELSE [f EXCEPT !.choices = @ \ {"left"}]

ReadStorage(s) ==
  IF ~s.there
    THEN [filter |-> EmptyFilter, active |-> {}, group |-> TRUE]
    ELSE [filter |-> MigrateSpamChoicePolarity([s.filter EXCEPT !.range = ParseRange(@)], s),
          active |-> s.active \cap Keys, group |-> s.group]

Load(s) ==
  LET v == ReadStorage(s)
  IN  /\ dockFilter' = v.filter /\ active' = v.active /\ group' = v.group

Init ==
  /\ stored \in OldStores \cup {NoStore}
  /\ LET v == ReadStorage(stored)
     IN  /\ dockFilter = v.filter /\ active = v.active /\ group = v.group
  /\ marks \in OldMarks
  /\ menu = "none" /\ clicks = 0

(***************************************************************************)
(* Every change of the filter is one snapshot: applyFiltersSnapshot.       *)
(***************************************************************************)
Click == clicks < MaxClicks /\ clicks' = clicks + 1

Commit(f, a) ==
  /\ Click
  /\ dockFilter' = f /\ active' = a
  /\ stored' = Snapshot(f, a, group)
  /\ UNCHANGED <<group, marks>>

\* The chips to see: no status of threads in a flat feed, no connections
\* without their layer; the layers' own chip is pinned.
Available == Keys \ (({"threadStatus"} \cap (IF group THEN {} ELSE Keys))
                     \cup ({"connection"} \cap (IF dockFilter.layers.cl THEN {} ELSE Keys)))
Visible == active \cap Available

ToggleOpen(key) ==
  /\ key \in {"add", "layers"} \cup Visible
  /\ menu' = IF menu = key THEN "none" ELSE key
  /\ UNCHANGED <<dockFilter, active, group, marks, stored, clicks>>

OnAdd(key) ==
  /\ menu = "add" /\ key \in Available \ (active \cup {"layers"})
  /\ Commit(IF key = "range" /\ dockFilter.range.preset = "all"
              THEN [dockFilter EXCEPT !.range = [EmptyRange EXCEPT !.preset = "today"]]
              ELSE dockFilter,
            active \cup {key})
  /\ UNCHANGED menu

\* Mutant: the chip goes, its value stays.
RemoveChipOnly(key) == Commit(dockFilter, active \ {key})

Remove(key) == Commit(ResetFilterValue(key, dockFilter), active \ {key})

OnRemove(key) ==
  /\ menu = "add" /\ key \in Available \cap active
  /\ Remove(key)
  /\ menu' = "none"

\* The cross of a chip: first back to the default, then away.
OnChipClose(key) ==
  /\ key \in Visible
  /\ IF IsFilterAtDefault(key, dockFilter)
       THEN Remove(key)
       ELSE Commit(ResetFilterValue(key, dockFilter), active)
  /\ menu' = "none"

OnClear ==
  /\ active # {}
  /\ Commit([EmptyFilter EXCEPT !.query = dockFilter.query], {})
  /\ menu' = "none"

\* A box of a chip's menu, or its box for all.
ToggleOption(key, option) ==
  /\ menu = key /\ key \in Visible
  /\ LET field == FieldOf[key]
         on == dockFilter[field]
     IN  Commit([dockFilter EXCEPT ![field] =
                   IF option \in on THEN on \ {option} ELSE on \cup {option}], active)
  /\ UNCHANGED menu
ToggleAll(key) ==
  /\ menu = key /\ key \in Visible
  /\ LET field == FieldOf[key]
     IN  Commit([dockFilter EXCEPT ![field] = IF @ = Options[key] THEN {} ELSE Options[key]],
                active)
  /\ UNCHANGED menu

\* Without the layer of the connections their filter goes too.
WithLayers(layers) ==
  IF layers.cl
    THEN Commit([dockFilter EXCEPT !.layers = layers], active) /\ UNCHANGED menu
    ELSE /\ Commit([dockFilter EXCEPT !.layers = layers, !.connection = EmptyConnection],
                   active \ {"connection"})
         /\ menu' = IF menu = "connection" THEN "none" ELSE menu
ToggleLayer(layer) ==
  menu = "layers" /\ WithLayers([dockFilter.layers EXCEPT ![layer] = ~@])
ToggleAllLayers ==
  /\ menu = "layers"
  /\ LET on == \E l \in {"tl", "cl", "wl"} : ~dockFilter.layers[l]
     IN  WithLayers([tl |-> on, cl |-> on, wl |-> on])
ResetLayers == WithLayers(DefaultLayers)

WithConnectionActive(c) ==
  /\ menu = "connection" /\ "connection" \in Visible
  /\ Commit([dockFilter EXCEPT !.connection = c], active \cup {"connection"})
  /\ UNCHANGED menu

\* The menu of the period: a preset keeps the time of day, dates mean custom.
WithRangeActive(r) ==
  /\ menu = "range" /\ "range" \in Visible
  /\ Commit([dockFilter EXCEPT !.range = r], active \cup {"range"})
  /\ menu' \in {"range", "none"}
SetRangePreset(p) ==
  WithRangeActive(IF p = "custom" THEN [dockFilter.range EXCEPT !.preset = p]
                  ELSE [dockFilter.range EXCEPT !.preset = p, !.from = {}, !.to = {}])
SetCustomRange(from, to) ==
  WithRangeActive([dockFilter.range EXCEPT !.preset = "custom", !.from = from, !.to = to])
SetTimeEnabled(on) ==
  WithRangeActive([dockFilter.range EXCEPT !.timeEnabled = on,
                     !.timeFrom = {Or(@, 0)}, !.timeTo = {Or(@, Day)}])
SetTimeField(field, time) ==
  /\ dockFilter.range.timeEnabled
  /\ WithRangeActive([dockFilter.range EXCEPT ![field] = {time}])

\* A badge of the header: the chip of the severities with these boxes.
QuickFilterSeverities(targets) ==
  /\ Commit([dockFilter EXCEPT !.severities =
               IF targets \subseteq @ THEN @ \ targets ELSE @ \cup targets],
            active \cup {"severity"})
  /\ UNCHANGED menu

\* The search field, and a click on an incident's id.
SetQuery(q) ==
  /\ q # dockFilter.query
  /\ Commit([dockFilter EXCEPT !.query = q], active)
  /\ UNCHANGED menu

ToggleGroup ==
  /\ Click
  /\ group' = ~group
  /\ stored' = Snapshot(dockFilter, active, group')
  /\ UNCHANGED <<dockFilter, active, menu, marks>>

(***************************************************************************)
(* Marks.                                                                  *)
(***************************************************************************)
ToggleMark(id, key) ==
  /\ Click
  /\ marks' = ToggleNcMark(marks, id, key)
  /\ UNCHANGED <<dockFilter, active, menu, group, stored>>

ToggleThreadHeaderMark(t, key) ==
  /\ Click
  /\ marks' = SetThreadBulkMarks(marks, t, key, key \notin ResolveThreadHeaderMarks(marks, t))
  /\ UNCHANGED <<dockFilter, active, menu, group, stored>>

Reload ==
  /\ Load(stored)
  /\ menu' = "none"
  /\ UNCHANGED <<marks, stored, clicks>>

EntryIds == UNION {{t.notifications[i].id : i \in DOMAIN t.notifications} : t \in Threads}

Next ==
  \/ \E key \in Keys \cup {"add"} : ToggleOpen(key)
  \/ \E key \in Keys : OnAdd(key) \/ OnRemove(key) \/ OnChipClose(key)
  \/ \E key \in DOMAIN Options : ToggleAll(key) \/ \E o \in Options[key] : ToggleOption(key, o)
  \/ OnClear \/ ToggleAllLayers \/ ResetLayers
  \/ \E l \in {"tl", "cl", "wl"} : ToggleLayer(l)
  \/ \E show, hide \in ConnectionIds \cup {0} : WithConnectionActive([show |-> show, hide |-> hide])
  \/ \E p \in DOMAIN DaysBack \cup {"all", "custom"} : SetRangePreset(p)
  \/ \E from, to \in {{}} \cup {{d} : d \in CustomDays} : SetCustomRange(from, to)
  \/ \E on \in BOOLEAN : SetTimeEnabled(on)
  \/ \E field \in {"timeFrom", "timeTo"}, time \in ClockTimes : SetTimeField(field, time)
  \/ \E targets \in SUBSET Options["severity"] : QuickFilterSeverities(targets)
  \/ \E q \in Queries \cup {Absent} : SetQuery(q)
  \/ ToggleGroup
  \/ \E key \in {"isFavorite", "isLeft"} :
       \/ \E id \in EntryIds : ToggleMark(id, key)
       \/ \E t \in Threads : ToggleThreadHeaderMark(t, key)
  \/ Reload

(***************************************************************************)
(* What the constants are.                                                 *)
(***************************************************************************)
EntryIdsOf(t) == {t.notifications[i].id : i \in DOMAIN t.notifications}

\* A filter has its fields, and a range at most one bound per side; dates only
\* with the preset that has dates.
IsFilter(f) == f = [x \in DOMAIN EmptyFilter |-> f[x]]
IsRange(r) ==
  /\ r = [x \in DOMAIN EmptyRange |-> r[x]]
  /\ r.preset \in DOMAIN DaysBack \cup {"all", "custom"} /\ r.timeEnabled \in BOOLEAN
  /\ r.preset = "custom" \/ (r.from = {} /\ r.to = {})
  /\ r.from = {} \/ \E d \in r.from : d \in Int /\ r.from = {d}
  /\ r.to = {} \/ \E d \in r.to : d \in Int /\ r.to = {d}
  /\ r.timeFrom = {} \/ \E m \in r.timeFrom : m \in 0..Day /\ r.timeFrom = {m}
  /\ r.timeTo = {} \/ \E m \in r.timeTo : m \in 0..Day /\ r.timeTo = {m}

\* Outside these chips the filter is at its defaults.
Chipless(f, a) == \A key \in Keys \ (a \cup {"layers"}) : IsFilterAtDefault(key, f)

\* A snapshot as the dock writes it.
IsStore(s) ==
  s.there /\ IsFilter(s.filter) /\ IsRange(s.filter.range) /\ Chipless(s.filter, s.active)

\* A thread carries its own id and those of its entries apart; each entry is of
\* the thread's incident and layer; 0 is no connection.
IsThread(t) ==
  /\ t.itemKind = "thread" /\ t.uid \notin EntryIdsOf(t) /\ DOMAIN t.notifications # {}
  /\ \A i \in DOMAIN t.notifications :
       /\ t.notifications[i].corr = t.uid /\ 0 \notin t.notifications[i].ids
       /\ ClassifyEventLayer(t.notifications[i]) = ClassifyItemLayer(t)

(***************************************************************************)
(* What the dock shows.                                                    *)
(***************************************************************************)
Effective(grouped) ==
  [dockFilter EXCEPT
     !.threadStatuses = IF grouped /\ "threadStatus" \in active THEN @ ELSE {},
     !.choices = IF "choice" \in active THEN @ ELSE {},
     !.connection = IF "connection" \in active THEN @ ELSE EmptyConnection,
     !.range = IF "range" \in active THEN @ ELSE EmptyRange]

Single(e) == [itemKind |-> "single", event |-> e]
At == [now |-> 1, offset |-> 0]
Shows(item, grouped) == ItemMatches(Marked(item, marks, Deleted), Effective(grouped), At)

(***************************************************************************)
(* Properties.                                                             *)
(***************************************************************************)

\* A filter whose chip is not there filters nothing, whatever was clicked:
\* the operator sees everything that cuts the feed.
NoChipFiltersNothing ==
  \A key \in Keys \ (active \cup {"layers"}) : IsFilterAtDefault(key, dockFilter)

\* A reload brings back the dock the operator left.
ReloadKeeps ==
  ReadStorage(stored) = [filter |-> dockFilter, active |-> active, group |-> group]

\* Grouping hides nothing: where the flat feed shows an entry the grouped one
\* shows its thread, unless a condition on threads or connections is set or
\* the thread itself carries a spam mark of old data.
GroupingHidesNothing ==
  (Effective(TRUE).threadStatuses = {} /\ Effective(TRUE).connection = EmptyConnection) =>
    \A t \in {u \in Threads : "isLeft" \notin marks[u.uid]} :
      (\E i \in DOMAIN t.notifications : Shows(Single(t.notifications[i]), FALSE))
        => Shows(t, TRUE)

\* The mark in a thread's header flips with every click, old data included.
HeaderFlips ==
  \A t \in Threads, key \in {"isFavorite", "isLeft"} :
    ToggleThreadHeaderMark(t, key) =>
      (key \in ResolveThreadHeaderMarks(marks', t) <=> key \notin ResolveThreadHeaderMarks(marks, t))
HeaderMarkFlips == [][HeaderFlips]_dockVars

\* A period is whole calendar days of the feed's zone: a preset goes back its
\* number of days, dates are inclusive, and "all" with a time looks at the
\* time of day only.
RangeIsByCalendar ==
  LET r == dockFilter.range
  IN  \A now, ts \in Instants, offset \in Offsets :
        LET shown == InRange(ts, ResolveRangeBounds(r, now, offset), offset)
            day == WallDay(ts, offset)
        IN  CASE r.timeEnabled /\ r.preset = "all" ->
                   shown <=> LocalTimeOfDay(ts, offset) \in
                               Or(r.timeFrom, 0)..(Or(r.timeTo, Day) - 1)
              [] ~r.timeEnabled /\ r.preset = "all" -> shown
              [] ~r.timeEnabled /\ r.preset = "custom" ->
                   shown <=> (\A d \in r.from : day >= d) /\ (\A d \in r.to : day <= d)
              [] ~r.timeEnabled /\ r.preset \in DOMAIN DaysBack ->
                   shown <=> day >= WallDay(now, offset) - DaysBack[r.preset]
              [] OTHER -> shown => day <= Or(r.to, WallDay(now, offset))
=============================================================================
