----------------------- MODULE NotificationCentre_proofs -----------------------
(***************************************************************************)
(* What holds of the notification centre for all values of its constants.  *)
(* A behaviour in which a screen plays is a behaviour of that screen, and  *)
(* in any other its properties claim nothing.                              *)
(***************************************************************************)
EXTENDS NotificationCentre, FiniteSetTheorems, WellFoundedInduction, TLAPS

-----------------------------------------------------------------------------
(* The dock. *)

\* The dock's filter is well formed, whatever is clicked; what has no chip is at
\* its default; and the storage holds the dock as it stands.
FilterOK == Dock!IsFilter(dockFilter) /\ Dock!IsRange(dockFilter.range) /\ active \subseteq Dock!Keys
MarksOK == \A t \in Threads : {t.uid} \cup Dock!EntryIdsOf(t) \subseteq DOMAIN dockMarks
Kept == Dock!Chipless(dockFilter, active)
DockInv == FilterOK /\ MarksOK /\ Kept /\ Dock!ReloadKeeps

\* The fields of a filter and of a range, the chips and the field each chip sets.
LEMMA FieldsOfFilter ==
  /\ DOMAIN Dock!EmptyFilter = {"severities", "interactions", "localizations", "statuses", "threadStatuses",
                           "choices", "connection", "layers", "range", "query"}
  /\ DOMAIN Dock!EmptyRange = {"preset", "from", "to", "timeEnabled", "timeFrom", "timeTo"}
  /\ Dock!Keys = {"severity", "interaction", "localization", "status", "threadStatus", "choice",
             "connection", "layers", "range"}
  /\ \A key \in Dock!Keys : Dock!FieldOf[key] \in DOMAIN Dock!EmptyFilter \ {"query"}
  /\ \A key, k \in Dock!Keys : Dock!FieldOf[key] = Dock!FieldOf[k] => key = k
  /\ \A key \in Dock!Keys : Dock!FieldOf[key] = "range" <=> key = "range"
  BY DEF Dock!EmptyFilter, Dock!EmptyRange, Dock!Keys, Dock!FieldOf

\* A filter with one field changed is a filter, and the other fields stay.
LEMMA FieldIsSet ==
  ASSUME NEW f, Dock!IsFilter(f), NEW field \in DOMAIN Dock!EmptyFilter, NEW v
  PROVE  LET g == [f EXCEPT ![field] = v]
         IN  Dock!IsFilter(g) /\ g[field] = v /\ \A x \in DOMAIN Dock!EmptyFilter \ {field} : g[x] = f[x]
  BY Zenon DEF Dock!IsFilter

\* The empty filter is a filter at its defaults.
LEMMA EmptyIsFilter ==
  /\ Dock!IsFilter(Dock!EmptyFilter) /\ Dock!IsRange(Dock!EmptyRange) /\ Dock!EmptyFilter.range = Dock!EmptyRange
  /\ \A key \in Dock!Keys : Dock!IsFilterAtDefault(key, Dock!EmptyFilter)
  <1>1. Dock!IsFilter(Dock!EmptyFilter) /\ Dock!EmptyFilter.range = Dock!EmptyRange
    BY DEF Dock!IsFilter, Dock!EmptyFilter
  <1>2. Dock!IsRange(Dock!EmptyRange)
    BY DEF Dock!IsRange, Dock!EmptyRange
  <1>3. \A key \in Dock!Keys : Dock!IsFilterAtDefault(key, Dock!EmptyFilter)
    BY <1>1 DEF Dock!IsFilterAtDefault, Dock!EmptyRange
  <1> QED
    BY <1>1, <1>2, <1>3

\* A range is read as it was written.
LEMMA RangeIsParsed ==
  ASSUME NEW r, Dock!IsRange(r)
  PROVE  Dock!ParseRange(r) = r
  <1>1. CASE r.preset = "custom"
    BY <1>1 DEF Dock!ParseRange
  <1>2. CASE r.preset # "custom"
    <2> DEFINE q == [r EXCEPT !.from = {}]
    <2>1. r.from = {} /\ r.to = {} /\ r = [x \in DOMAIN Dock!EmptyRange |-> r[x]]
      BY <1>2 DEF Dock!IsRange
    <2>2. q = r
      BY <2>1
    <2>3. [r EXCEPT !.from = {}, !.to = {}] = [q EXCEPT !.to = {}]
      OBVIOUS
    <2>4. [q EXCEPT !.to = {}] = r
      BY <2>1, <2>2
    <2> QED
      BY <1>2, <2>3, <2>4 DEF Dock!ParseRange
  <1> QED
    BY <1>1, <1>2

\* What is saved is read back as it is.
LEMMA SavedIsRead ==
  ASSUME NEW f, NEW a, NEW g, Dock!IsFilter(f), Dock!IsRange(f.range), a \subseteq Dock!Keys
  PROVE  Dock!ReadStorage(Dock!Snapshot(f, a, g)) = [filter |-> f, active |-> a, group |-> g]
  <1>1. Dock!ParseRange(f.range) = f.range
    BY RangeIsParsed
  <1>2. [f EXCEPT !.range = Dock!ParseRange(@)] = f
    BY <1>1, FieldsOfFilter DEF Dock!IsFilter
  <1>3. a \cap Dock!Keys = a
    OBVIOUS
  <1> DEFINE s == Dock!Snapshot(f, a, g)
  <1>4. s.there = TRUE /\ s.filter = f /\ s.active = a /\ s.group = g /\ s.polarity = "show"
    BY DEF Dock!Snapshot
  <1> HIDE DEF s
  <1>5. Dock!MigrateSpamChoicePolarity([s.filter EXCEPT !.range = Dock!ParseRange(@)], s) = f
    BY <1>2, <1>4 DEF Dock!MigrateSpamChoicePolarity
  <1> QED
    BY <1>3, <1>4, <1>5 DEF Dock!ReadStorage, s

-----------------------------------------------------------------------------
\* What a change of the filter has to keep.
LEMMA CommitKeeps ==
  ASSUME DockInv, NEW f, NEW a, Dock!Commit(f, a), Dock!IsFilter(f), Dock!IsRange(f.range), a \subseteq Dock!Keys, Dock!Chipless(f, a)
  PROVE  DockInv'
  <1>1. dockFilter' = f /\ active' = a /\ dockStored' = Dock!Snapshot(f, a, group) /\ group' = group /\ dockMarks' = dockMarks
    BY DEF Dock!Commit
  <1>2. Dock!ReloadKeeps'
    BY <1>1, SavedIsRead DEF Dock!ReloadKeeps
  <1> QED
    BY <1>1, <1>2 DEF DockInv, FilterOK, MarksOK, Kept, Dock!Chipless, Dock!IsFilterAtDefault

\* The value of one chip changes, or goes back to its default.
LEMMA ChipIsSet ==
  ASSUME DockInv, NEW key \in Dock!Keys \ {"range"}, NEW v
  PROVE  LET f == [dockFilter EXCEPT ![Dock!FieldOf[key]] = v]
         IN  /\ Dock!IsFilter(f) /\ Dock!IsRange(f.range) /\ f[Dock!FieldOf[key]] = v
             /\ \A k \in Dock!Keys \ {key} : Dock!IsFilterAtDefault(k, f) <=> Dock!IsFilterAtDefault(k, dockFilter)
  <1> DEFINE f == [dockFilter EXCEPT ![Dock!FieldOf[key]] = v]
  <1>1. /\ Dock!IsFilter(f) /\ f[Dock!FieldOf[key]] = v
        /\ \A x \in DOMAIN Dock!EmptyFilter \ {Dock!FieldOf[key]} : f[x] = dockFilter[x]
    BY FieldIsSet, FieldsOfFilter DEF DockInv, FilterOK
  <1>2. f.range = dockFilter.range
    BY <1>1, FieldsOfFilter
  <1> HIDE DEF f
  <1>3. \A k \in Dock!Keys \ {key} : Dock!IsFilterAtDefault(k, f) <=> Dock!IsFilterAtDefault(k, dockFilter)
    <2> SUFFICES ASSUME NEW k \in Dock!Keys \ {key}
                 PROVE  Dock!IsFilterAtDefault(k, f) <=> Dock!IsFilterAtDefault(k, dockFilter)
      OBVIOUS
    <2>1. Dock!FieldOf[k] \in DOMAIN Dock!EmptyFilter \ {Dock!FieldOf[key]}
      BY FieldsOfFilter
    <2>2. f[Dock!FieldOf[k]] = dockFilter[Dock!FieldOf[k]]
      BY <1>1, <2>1
    <2> QED
      BY <1>2, <2>2 DEF Dock!IsFilterAtDefault
  <1>4. Dock!IsRange(f.range)
    BY <1>2 DEF DockInv, FilterOK
  <1> QED
    BY <1>1, <1>3, <1>4 DEF f
\* The same of the period, and of the query, which has no chip.
LEMMA RangeIsSet ==
  ASSUME DockInv, NEW r, Dock!IsRange(r)
  PROVE  LET f == [dockFilter EXCEPT !.range = r]
         IN  /\ Dock!IsFilter(f) /\ f.range = r /\ Dock!IsRange(f.range)
             /\ \A k \in Dock!Keys \ {"range"} : Dock!IsFilterAtDefault(k, f) <=> Dock!IsFilterAtDefault(k, dockFilter)
  <1> DEFINE f == [dockFilter EXCEPT !.range = r]
  <1>1. /\ Dock!IsFilter(f) /\ f.range = r
        /\ \A x \in DOMAIN Dock!EmptyFilter \ {"range"} : f[x] = dockFilter[x]
    BY FieldIsSet, FieldsOfFilter DEF DockInv, FilterOK
  <1> HIDE DEF f
  <1>3. \A k \in Dock!Keys \ {"range"} : Dock!IsFilterAtDefault(k, f) <=> Dock!IsFilterAtDefault(k, dockFilter)
    <2> SUFFICES ASSUME NEW k \in Dock!Keys \ {"range"}
                 PROVE  Dock!IsFilterAtDefault(k, f) <=> Dock!IsFilterAtDefault(k, dockFilter)
      OBVIOUS
    <2>1. Dock!FieldOf[k] \in DOMAIN Dock!EmptyFilter \ {"range"}
      BY FieldsOfFilter
    <2>2. f[Dock!FieldOf[k]] = dockFilter[Dock!FieldOf[k]]
      BY <1>1, <2>1
    <2> QED
      BY <2>2 DEF Dock!IsFilterAtDefault
  <1> QED
    BY <1>1, <1>3 DEF f

\* The search text is no chip: setting it changes no chip's field.
LEMMA QueryIsSet ==
  ASSUME NEW f, Dock!IsFilter(f), Dock!IsRange(f.range), NEW q
  PROVE  LET g == [f EXCEPT !.query = q]
         IN  /\ Dock!IsFilter(g) /\ Dock!IsRange(g.range)
             /\ \A k \in Dock!Keys : Dock!IsFilterAtDefault(k, g) <=> Dock!IsFilterAtDefault(k, f)
  <1> DEFINE g == [f EXCEPT !.query = q]
  <1>1. Dock!IsFilter(g) /\ \A x \in DOMAIN Dock!EmptyFilter \ {"query"} : g[x] = f[x]
    BY FieldIsSet, FieldsOfFilter
  <1>2. g.range = f.range
    BY <1>1, FieldsOfFilter
  <1> HIDE DEF g
  <1>3. \A k \in Dock!Keys : Dock!IsFilterAtDefault(k, g) <=> Dock!IsFilterAtDefault(k, f)
    <2> SUFFICES ASSUME NEW k \in Dock!Keys
                 PROVE  Dock!IsFilterAtDefault(k, g) <=> Dock!IsFilterAtDefault(k, f)
      OBVIOUS
    <2>1. Dock!FieldOf[k] \in DOMAIN Dock!EmptyFilter \ {"query"}
      BY FieldsOfFilter
    <2>2. g[Dock!FieldOf[k]] = f[Dock!FieldOf[k]]
      BY <1>1, <2>1
    <2> QED
      BY <1>2, <2>2 DEF Dock!IsFilterAtDefault
  <1> QED
    BY <1>1, <1>2, <1>3 DEF g

\* Back to its default: the other chips are not touched.
LEMMA ChipIsReset ==
  ASSUME DockInv, NEW key \in Dock!Keys
  PROVE  LET f == Dock!ResetFilterValue(key, dockFilter)
         IN  /\ Dock!IsFilter(f) /\ Dock!IsRange(f.range) /\ Dock!IsFilterAtDefault(key, f)
             /\ \A k \in Dock!Keys \ {key} : Dock!IsFilterAtDefault(k, f) <=> Dock!IsFilterAtDefault(k, dockFilter)
  <1> DEFINE f == Dock!ResetFilterValue(key, dockFilter)
  <1>1. CASE key = "range"
    <2>1. f = [dockFilter EXCEPT !.range = Dock!EmptyRange]
      BY <1>1, FieldsOfFilter, EmptyIsFilter DEF Dock!ResetFilterValue, Dock!FieldOf
    <2>2. Dock!IsFilter(f) /\ f.range = Dock!EmptyRange /\ Dock!IsRange(f.range)
          /\ \A k \in Dock!Keys \ {"range"} : Dock!IsFilterAtDefault(k, f) <=> Dock!IsFilterAtDefault(k, dockFilter)
      BY <2>1, RangeIsSet, EmptyIsFilter
    <2>3. Dock!IsFilterAtDefault(key, f)
      BY <1>1, <2>2 DEF Dock!IsFilterAtDefault, Dock!EmptyRange
    <2> QED
      BY <1>1, <2>2, <2>3
  <1>2. CASE key # "range"
    <2> DEFINE v == Dock!EmptyFilter[Dock!FieldOf[key]]
    <2>1. f = [dockFilter EXCEPT ![Dock!FieldOf[key]] = v]
      BY DEF Dock!ResetFilterValue
    <2>4. key \in Dock!Keys \ {"range"}
      BY <1>2
    <2> HIDE DEF f, v
    <2>2. Dock!IsFilter(f) /\ f[Dock!FieldOf[key]] = v /\ Dock!IsRange(f.range)
          /\ \A k \in Dock!Keys \ {key} : Dock!IsFilterAtDefault(k, f) <=> Dock!IsFilterAtDefault(k, dockFilter)
      BY <2>1, <2>4, ChipIsSet
    <2>3. Dock!IsFilterAtDefault(key, f)
      BY <1>2, <2>2 DEF Dock!IsFilterAtDefault, v
    <2> QED
      BY <2>2, <2>3 DEF f
  <1> QED
    BY <1>1, <1>2

-----------------------------------------------------------------------------
\* Every step keeps the invariant; a lemma for each group of handlers.
LEMMA ChipsKeep ==
  ASSUME DockInv, NEW key \in Dock!Keys, Dock!OnAdd(key) \/ Dock!OnRemove(key) \/ Dock!OnChipClose(key)
  PROVE  DockInv'
  <1>0. active \subseteq Dock!Keys /\ Dock!Chipless(dockFilter, active) /\ Dock!IsFilter(dockFilter) /\ Dock!IsRange(dockFilter.range)
    BY DEF DockInv, FilterOK, Kept
  <1>1. ASSUME Dock!Remove(key)
        PROVE  DockInv'
    <2> DEFINE f == Dock!ResetFilterValue(key, dockFilter)
    <2>1. Dock!Commit(f, active \ {key})
      BY <1>1 DEF Dock!Remove
    <2>2. Dock!IsFilter(f) /\ Dock!IsRange(f.range) /\ Dock!Chipless(f, active \ {key})
      BY <1>0, ChipIsReset DEF Dock!Chipless
    <2> HIDE DEF f
    <2> QED
      BY <1>0, <2>1, <2>2, CommitKeeps
  <1>2. CASE Dock!OnAdd(key)
    <2>1. CASE key = "range" /\ dockFilter.range.preset = "all"
      <3> DEFINE r == [Dock!EmptyRange EXCEPT !.preset = "today"]
                 f == [dockFilter EXCEPT !.range = r]
      <3>1. Dock!IsRange(r)
        BY DEF Dock!IsRange, Dock!EmptyRange, Dock!DaysBack
      <3>2. Dock!Commit(f, active \cup {key})
        BY <1>2, <2>1 DEF Dock!OnAdd
      <3> HIDE DEF r
      <3>3. Dock!IsFilter(f) /\ Dock!IsRange(f.range) /\ Dock!Chipless(f, active \cup {key})
        BY <1>0, <2>1, <3>1, RangeIsSet DEF Dock!Chipless
      <3> HIDE DEF f
      <3> QED
        BY <1>0, <3>2, <3>3, CommitKeeps
    <2>2. CASE ~(key = "range" /\ dockFilter.range.preset = "all")
      <3>1. Dock!Commit(dockFilter, active \cup {key})
        BY <1>2, <2>2 DEF Dock!OnAdd
      <3>2. Dock!Chipless(dockFilter, active \cup {key})
        BY <1>0 DEF Dock!Chipless
      <3> QED
        BY <1>0, <3>1, <3>2, CommitKeeps
    <2> QED
      BY <2>1, <2>2
  <1>3. CASE Dock!OnRemove(key)
    BY <1>1, <1>3 DEF Dock!OnRemove
  <1>4. CASE Dock!OnChipClose(key)
    <2>1. CASE Dock!IsFilterAtDefault(key, dockFilter)
      BY <1>1, <1>4, <2>1 DEF Dock!OnChipClose
    <2>2. CASE ~Dock!IsFilterAtDefault(key, dockFilter)
      <3> DEFINE f == Dock!ResetFilterValue(key, dockFilter)
      <3>1. Dock!Commit(f, active)
        BY <1>4, <2>2 DEF Dock!OnChipClose
      <3>2. Dock!IsFilter(f) /\ Dock!IsRange(f.range) /\ Dock!Chipless(f, active)
        BY <1>0, ChipIsReset DEF Dock!Chipless
      <3> HIDE DEF f
      <3> QED
        BY <1>0, <3>1, <3>2, CommitKeeps
    <2> QED
      BY <2>1, <2>2
  <1> QED
    BY <1>2, <1>3, <1>4

\* A change of one field whose chip is there, or that comes with its chip.
LEMMA WithChipKeeps ==
  ASSUME DockInv, NEW key \in Dock!Keys \ {"range"}, NEW v,
         Dock!Commit([dockFilter EXCEPT ![Dock!FieldOf[key]] = v], active \cup {key})
  PROVE  DockInv'
  <1> DEFINE f == [dockFilter EXCEPT ![Dock!FieldOf[key]] = v]
  <1>1. Dock!IsFilter(f) /\ Dock!IsRange(f.range)
        /\ \A k \in Dock!Keys \ {key} : Dock!IsFilterAtDefault(k, f) <=> Dock!IsFilterAtDefault(k, dockFilter)
    BY ChipIsSet
  <1> HIDE DEF f
  <1>2. Dock!Chipless(f, active \cup {key}) /\ active \cup {key} \subseteq Dock!Keys
    BY <1>1 DEF DockInv, FilterOK, Kept, Dock!Chipless
  <1>3. Dock!Commit(f, active \cup {key})
    BY DEF f
  <1> QED
    BY <1>1, <1>2, <1>3, CommitKeeps

\* A tick in a chip's menu, or all of them.
LEMMA OptionsKeep ==
  ASSUME DockInv, NEW key \in DOMAIN Options, NEW o, Dock!ToggleAll(key) \/ Dock!ToggleOption(key, o), key # "range"
  PROVE  DockInv'
  <1>1. key \in Dock!Keys \ {"range"} /\ active \cup {key} = active
    BY DEF Dock!ToggleAll, Dock!ToggleOption, Dock!Visible, Dock!Available
  <1>2. PICK v : Dock!Commit([dockFilter EXCEPT ![Dock!FieldOf[key]] = v], active)
    <2>1. CASE Dock!ToggleAll(key)
      BY <2>1 DEF Dock!ToggleAll
    <2>2. CASE Dock!ToggleOption(key, o)
      BY <2>2 DEF Dock!ToggleOption
    <2> QED
      BY <2>1, <2>2
  <1> QED
    BY <1>1, <1>2, WithChipKeeps

\* Clear: every chip goes, the search text stays.
LEMMA ClearKeeps ==
  ASSUME DockInv, Dock!OnClear
  PROVE  DockInv'
  <1> DEFINE f == [Dock!EmptyFilter EXCEPT !.query = dockFilter.query]
  <1>1. Dock!IsFilter(f) /\ Dock!IsRange(f.range) /\ Dock!Chipless(f, {})
    BY QueryIsSet, EmptyIsFilter DEF Dock!Chipless
  <1>2. Dock!Commit(f, {})
    BY DEF Dock!OnClear
  <1> HIDE DEF f
  <1> QED
    BY <1>1, <1>2, CommitKeeps

\* The layers that are ticked, with or without their chip.
LEMMA LayersKeep ==
  ASSUME DockInv, NEW l, Dock!WithLayers(l)
  PROVE  DockInv'
  <1>0. active \subseteq Dock!Keys /\ Dock!Chipless(dockFilter, active)
    BY DEF DockInv, FilterOK, Kept
  <1> DEFINE f == [dockFilter EXCEPT !.layers = l]
             g == [f EXCEPT !.connection = Dock!EmptyConnection]
  <1>1. /\ Dock!IsFilter(f) /\ Dock!IsRange(f.range)
        /\ \A k \in Dock!Keys \ {"layers"} : Dock!IsFilterAtDefault(k, f) <=> Dock!IsFilterAtDefault(k, dockFilter)
    <2>1. Dock!FieldOf["layers"] = "layers" /\ "layers" \in Dock!Keys \ {"range"}
      BY DEF Dock!FieldOf, Dock!Keys
    <2> QED
      BY <2>1, ChipIsSet
  <1>2. CASE l.cl
    <2>1. Dock!Commit(f, active)
      BY <1>2 DEF Dock!WithLayers
    <2>2. Dock!Chipless(f, active)
      BY <1>0, <1>1 DEF Dock!Chipless
    <2> HIDE DEF f
    <2> QED
      BY <1>0, <1>1, <2>1, <2>2, CommitKeeps
  <1>3. CASE ~l.cl
    <2>1. Dock!Commit(g, active \ {"connection"})
      BY <1>3 DEF Dock!WithLayers
    <2> HIDE DEF f
    <2>2. /\ Dock!IsFilter(g) /\ g.connection = Dock!EmptyConnection
          /\ \A x \in DOMAIN Dock!EmptyFilter \ {"connection"} : g[x] = f[x]
      BY <1>1, FieldIsSet, FieldsOfFilter
    <2>3. g.range = f.range
      BY <2>2, FieldsOfFilter
    <2> HIDE DEF g
    <2>4. \A k \in Dock!Keys \ {"connection"} : Dock!IsFilterAtDefault(k, g) <=> Dock!IsFilterAtDefault(k, f)
      <3> SUFFICES ASSUME NEW k \in Dock!Keys \ {"connection"}
                   PROVE  Dock!IsFilterAtDefault(k, g) <=> Dock!IsFilterAtDefault(k, f)
        OBVIOUS
      <3>1. Dock!FieldOf[k] \in DOMAIN Dock!EmptyFilter \ {"connection"}
        BY DEF Dock!FieldOf, Dock!Keys, Dock!EmptyFilter
      <3>2. g[Dock!FieldOf[k]] = f[Dock!FieldOf[k]]
        BY <2>2, <3>1
      <3> QED
        BY <2>3, <3>2 DEF Dock!IsFilterAtDefault
    <2>5. Dock!IsFilterAtDefault("connection", g)
      BY <2>2 DEF Dock!IsFilterAtDefault, Dock!FieldOf, Dock!EmptyFilter
    <2>6. Dock!Chipless(g, active \ {"connection"})
      BY <1>0, <1>1, <2>4, <2>5 DEF Dock!Chipless
    <2> QED
      BY <1>0, <1>1, <2>1, <2>2, <2>3, <2>6, CommitKeeps
  <1> QED
    BY <1>2, <1>3

\* The quick choice of a connection.
LEMMA ConnectionKeeps ==
  ASSUME DockInv, NEW c, Dock!WithConnectionActive(c)
  PROVE  DockInv'
  <1>1. Dock!FieldOf["connection"] = "connection" /\ "connection" \in Dock!Keys \ {"range"}
    BY DEF Dock!FieldOf, Dock!Keys
  <1>2. Dock!Commit([dockFilter EXCEPT ![Dock!FieldOf["connection"]] = c], active \cup {"connection"})
    BY <1>1 DEF Dock!WithConnectionActive
  <1> QED
    BY <1>1, <1>2, WithChipKeeps

\* The quick filter of severities in the dock's head.
LEMMA QuickFilterKeeps ==
  ASSUME DockInv, NEW targets, Dock!QuickFilterSeverities(targets)
  PROVE  DockInv'
  <1>1. Dock!FieldOf["severity"] = "severities" /\ "severity" \in Dock!Keys \ {"range"}
    BY DEF Dock!FieldOf, Dock!Keys
  <1> DEFINE v == IF targets \subseteq dockFilter.severities THEN dockFilter.severities \ targets
                  ELSE dockFilter.severities \cup targets
  <1>2. Dock!Commit([dockFilter EXCEPT !.severities = v], active \cup {"severity"})
    BY DEF Dock!QuickFilterSeverities
  <1> HIDE DEF v
  <1>3. Dock!Commit([dockFilter EXCEPT ![Dock!FieldOf["severity"]] = v], active \cup {"severity"})
    BY <1>1, <1>2
  <1> QED
    BY <1>1, <1>3, WithChipKeeps

\* A period that is chosen brings its chip.
LEMMA RangeKeeps ==
  ASSUME DockInv, NEW r, Dock!IsRange(r), Dock!WithRangeActive(r)
  PROVE  DockInv'
  <1> DEFINE f == [dockFilter EXCEPT !.range = r]
  <1>1. Dock!IsFilter(f) /\ Dock!IsRange(f.range)
        /\ \A k \in Dock!Keys \ {"range"} : Dock!IsFilterAtDefault(k, f) <=> Dock!IsFilterAtDefault(k, dockFilter)
    BY RangeIsSet
  <1>2. Dock!Commit(f, active \cup {"range"})
    BY DEF Dock!WithRangeActive
  <1> HIDE DEF f
  <1>3. Dock!Chipless(f, active \cup {"range"}) /\ active \cup {"range"} \subseteq Dock!Keys
    BY <1>1, FieldsOfFilter DEF DockInv, FilterOK, Kept, Dock!Chipless
  <1> QED
    BY <1>1, <1>2, <1>3, CommitKeeps

\* Setting one field of a period leaves the others.
LEMMA RangeFieldIsSet ==
  ASSUME NEW r, NEW field \in DOMAIN Dock!EmptyRange, NEW v, r = [x \in DOMAIN Dock!EmptyRange |-> r[x]]
  PROVE  LET q == [r EXCEPT ![field] = v]
         IN  /\ q = [x \in DOMAIN Dock!EmptyRange |-> q[x]] /\ q[field] = v
             /\ \A x \in DOMAIN Dock!EmptyRange \ {field} : q[x] = r[x]
  BY Zenon

\* The preset, the days or the times of the period change.
LEMMA RangesKeep ==
  ASSUME DockInv, \/ \E p \in DOMAIN Dock!DaysBack \cup {"all", "custom"} : Dock!SetRangePreset(p)
                  \/ \E from, to \in {{}} \cup {{d} : d \in CustomDays} : Dock!SetCustomRange(from, to)
                  \/ \E on \in BOOLEAN : Dock!SetTimeEnabled(on)
                  \/ \E field \in {"timeFrom", "timeTo"}, time \in ClockTimes : Dock!SetTimeField(field, time)
  PROVE  DockInv'
  <1> DEFINE r == dockFilter.range
  <1>0. Dock!IsRange(r)
    BY DEF DockInv, FilterOK
  <1> HIDE DEF r
  <1>1. ASSUME NEW p \in DOMAIN Dock!DaysBack \cup {"all", "custom"}, Dock!SetRangePreset(p)
        PROVE  DockInv'
    <2> DEFINE q1 == [r EXCEPT !.preset = p]
               q2 == [q1 EXCEPT !.from = {}]
               q3 == [q2 EXCEPT !.to = {}]
               q == IF p = "custom" THEN q1 ELSE q3
    <2>1. q = IF p = "custom" THEN [r EXCEPT !.preset = p]
              ELSE [r EXCEPT !.preset = p, !.from = {}, !.to = {}]
      OBVIOUS
    <2>2. Dock!WithRangeActive(q)
      BY <1>1, <2>1 DEF Dock!SetRangePreset, r
    <2>3. /\ q1 = [x \in DOMAIN Dock!EmptyRange |-> q1[x]] /\ q1.preset = p
          /\ q1.from = r.from /\ q1.to = r.to
          /\ q1.timeEnabled = r.timeEnabled /\ q1.timeFrom = r.timeFrom /\ q1.timeTo = r.timeTo
      BY <1>0, FieldsOfFilter DEF Dock!IsRange
    <2> HIDE DEF q1
    <2>4. /\ q2 = [x \in DOMAIN Dock!EmptyRange |-> q2[x]] /\ q2.preset = p
          /\ q2.from = {} /\ q2.to = r.to
          /\ q2.timeEnabled = r.timeEnabled /\ q2.timeFrom = r.timeFrom /\ q2.timeTo = r.timeTo
      BY <2>3, FieldsOfFilter
    <2> HIDE DEF q2
    <2>5. /\ q3 = [x \in DOMAIN Dock!EmptyRange |-> q3[x]] /\ q3.preset = p
          /\ q3.from = {} /\ q3.to = {}
          /\ q3.timeEnabled = r.timeEnabled /\ q3.timeFrom = r.timeFrom /\ q3.timeTo = r.timeTo
      BY <2>4, FieldsOfFilter
    <2> HIDE DEF q3
    <2>6. Dock!IsRange(q)
      <3>1. CASE p = "custom"
        BY <1>0, <2>3, <3>1 DEF Dock!IsRange
      <3>2. CASE p # "custom"
        BY <1>0, <1>1, <2>5, <3>2 DEF Dock!IsRange
      <3> QED
        BY <3>1, <3>2
    <2> HIDE DEF q
    <2> QED
      BY <2>2, <2>6, RangeKeeps
  <1>2. ASSUME NEW from \in {{}} \cup {{d} : d \in CustomDays}, NEW to \in {{}} \cup {{d} : d \in CustomDays},
               Dock!SetCustomRange(from, to)
        PROVE  DockInv'
    <2> DEFINE q1 == [r EXCEPT !.preset = "custom"]
               q2 == [q1 EXCEPT !.from = from]
               q3 == [q2 EXCEPT !.to = to]
    <2>1. q3 = [r EXCEPT !.preset = "custom", !.from = from, !.to = to]
      OBVIOUS
    <2>2. Dock!WithRangeActive(q3)
      BY <1>2, <2>1 DEF Dock!SetCustomRange, r
    <2>3. /\ q1 = [x \in DOMAIN Dock!EmptyRange |-> q1[x]] /\ q1.preset = "custom"
          /\ q1.timeEnabled = r.timeEnabled /\ q1.timeFrom = r.timeFrom /\ q1.timeTo = r.timeTo
      BY <1>0, FieldsOfFilter DEF Dock!IsRange
    <2> HIDE DEF q1
    <2>4. /\ q2 = [x \in DOMAIN Dock!EmptyRange |-> q2[x]] /\ q2.preset = "custom"
          /\ q2.from = from
          /\ q2.timeEnabled = r.timeEnabled /\ q2.timeFrom = r.timeFrom /\ q2.timeTo = r.timeTo
      BY <2>3, FieldsOfFilter
    <2> HIDE DEF q2
    <2>5. /\ q3 = [x \in DOMAIN Dock!EmptyRange |-> q3[x]] /\ q3.preset = "custom"
          /\ q3.from = from /\ q3.to = to
          /\ q3.timeEnabled = r.timeEnabled /\ q3.timeFrom = r.timeFrom /\ q3.timeTo = r.timeTo
      BY <2>4, FieldsOfFilter
    <2> HIDE DEF q3
    <2>6. /\ from = {} \/ \E d \in Int : from = {d}
          /\ to = {} \/ \E d \in Int : to = {d}
      BY TimesAssumption
    <2>7. Dock!IsRange(q3)
      BY <1>0, <2>5, <2>6 DEF Dock!IsRange
    <2> QED
      BY <2>2, <2>7, RangeKeeps
  <1>3. ASSUME NEW on \in BOOLEAN, Dock!SetTimeEnabled(on)
        PROVE  DockInv'
    <2> DEFINE f == {Dock!Or(r.timeFrom, 0)}
               e == {Dock!Or(r.timeTo, Day)}
               q1 == [r EXCEPT !.timeEnabled = on]
               q2 == [q1 EXCEPT !.timeFrom = f]
               q3 == [q2 EXCEPT !.timeTo = e]
    <2>0. /\ \E m \in 0..Day : f = {m}
          /\ \E m \in 0..Day : e = {m}
      BY <1>0, DayAssumption DEF Dock!IsRange, Dock!Or
    <2> HIDE DEF f, e
    <2>1. q3 = [r EXCEPT !.timeEnabled = on, !.timeFrom = f, !.timeTo = e]
      OBVIOUS
    <2>2. Dock!WithRangeActive(q3)
      BY <1>3, <2>1 DEF Dock!SetTimeEnabled, r, f, e
    <2>3. /\ q1 = [x \in DOMAIN Dock!EmptyRange |-> q1[x]] /\ q1.timeEnabled = on
          /\ q1.preset = r.preset /\ q1.from = r.from /\ q1.to = r.to
      BY <1>0, FieldsOfFilter DEF Dock!IsRange
    <2> HIDE DEF q1
    <2>4. /\ q2 = [x \in DOMAIN Dock!EmptyRange |-> q2[x]] /\ q2.timeEnabled = on
          /\ q2.preset = r.preset /\ q2.from = r.from /\ q2.to = r.to /\ q2.timeFrom = f
      BY <2>3, FieldsOfFilter
    <2> HIDE DEF q2
    <2>5. /\ q3 = [x \in DOMAIN Dock!EmptyRange |-> q3[x]] /\ q3.timeEnabled = on
          /\ q3.preset = r.preset /\ q3.from = r.from /\ q3.to = r.to /\ q3.timeFrom = f /\ q3.timeTo = e
      BY <2>4, FieldsOfFilter
    <2> HIDE DEF q3
    <2>6. Dock!IsRange(q3)
      BY <1>0, <2>0, <2>5 DEF Dock!IsRange
    <2> QED
      BY <2>2, <2>6, RangeKeeps
  <1>4. ASSUME NEW field \in {"timeFrom", "timeTo"}, NEW time \in ClockTimes, Dock!SetTimeField(field, time)
        PROVE  DockInv'
    <2> DEFINE q == [r EXCEPT ![field] = {time}]
    <2>1. Dock!WithRangeActive(q)
      BY <1>4 DEF Dock!SetTimeField, r
    <2>2. time \in 0..Day
      BY TimesAssumption
    <2>3. /\ q = [x \in DOMAIN Dock!EmptyRange |-> q[x]] /\ q[field] = {time}
          /\ \A x \in DOMAIN Dock!EmptyRange \ {field} : q[x] = r[x]
      BY <1>0, FieldsOfFilter, RangeFieldIsSet DEF Dock!IsRange
    <2> HIDE DEF q
    <2>4. CASE field = "timeFrom"
      <3>1. /\ q.timeFrom = {time} /\ q.preset = r.preset /\ q.from = r.from /\ q.to = r.to
            /\ q.timeEnabled = r.timeEnabled /\ q.timeTo = r.timeTo
        BY <2>3, <2>4, FieldsOfFilter
      <3>2. Dock!IsRange(q)
        BY <1>0, <2>2, <2>3, <3>1 DEF Dock!IsRange
      <3> QED
        BY <2>1, <3>2, RangeKeeps
    <2>5. CASE field = "timeTo"
      <3>1. /\ q.timeTo = {time} /\ q.preset = r.preset /\ q.from = r.from /\ q.to = r.to
            /\ q.timeEnabled = r.timeEnabled /\ q.timeFrom = r.timeFrom
        BY <2>3, <2>5, FieldsOfFilter
      <3>2. Dock!IsRange(q)
        BY <1>0, <2>2, <2>3, <3>1 DEF Dock!IsRange
      <3> QED
        BY <2>1, <3>2, RangeKeeps
    <2> QED
      BY <2>4, <2>5
  <1> QED
    BY <1>1, <1>2, <1>3, <1>4

\* The search text changes.
LEMMA QueryKeeps ==
  ASSUME DockInv, NEW q, Dock!SetQuery(q)
  PROVE  DockInv'
  <1> DEFINE f == [dockFilter EXCEPT !.query = q]
  <1>0. active \subseteq Dock!Keys /\ Dock!Chipless(dockFilter, active) /\ Dock!IsFilter(dockFilter) /\ Dock!IsRange(dockFilter.range)
    BY DEF DockInv, FilterOK, Kept
  <1>1. Dock!IsFilter(f) /\ Dock!IsRange(f.range) /\ Dock!Chipless(f, active)
    BY <1>0, QueryIsSet DEF Dock!Chipless
  <1>2. Dock!Commit(f, active)
    BY DEF Dock!SetQuery
  <1> HIDE DEF f
  <1> QED
    BY <1>0, <1>1, <1>2, CommitKeeps

\* Grouping is switched.
LEMMA GroupKeeps ==
  ASSUME DockInv, Dock!ToggleGroup
  PROVE  DockInv'
  <1>1. Dock!ReloadKeeps'
    BY SavedIsRead DEF Dock!ToggleGroup, Dock!ReloadKeeps, DockInv, FilterOK
  <1> QED
    BY <1>1 DEF Dock!ToggleGroup, DockInv, FilterOK, MarksOK, Kept, Dock!Chipless, Dock!IsFilterAtDefault

\* A mark is flipped, of an entry or of a thread's header.
LEMMA MarksKeep ==
  ASSUME DockInv, NEW key, \/ \E id \in Dock!EntryIds : Dock!ToggleMark(id, key)
                           \/ \E t \in Threads : Dock!ToggleThreadHeaderMark(t, key)
  PROVE  DockInv'
  <1>1. DOMAIN dockMarks' = DOMAIN dockMarks /\ UNCHANGED <<dockFilter, active, menu, group, dockStored>>
    <2>1. ASSUME NEW id \in Dock!EntryIds, Dock!ToggleMark(id, key)
          PROVE  DOMAIN dockMarks' = DOMAIN dockMarks /\ UNCHANGED <<dockFilter, active, menu, group, dockStored>>
      BY <2>1, Zenon DEF Dock!ToggleMark, Dock!ToggleNcMark, Dock!WriteMark
    <2>2. ASSUME NEW t \in Threads, Dock!ToggleThreadHeaderMark(t, key)
          PROVE  DOMAIN dockMarks' = DOMAIN dockMarks /\ UNCHANGED <<dockFilter, active, menu, group, dockStored>>
      BY <2>2, Zenon DEF Dock!ToggleThreadHeaderMark, Dock!SetThreadBulkMarks
    <2> QED
      BY <2>1, <2>2
  <1> QED
    BY <1>1 DEF DockInv, FilterOK, MarksOK, Kept, Dock!Chipless, Dock!IsFilterAtDefault, Dock!ReloadKeeps

\* The page is loaded again, or a menu opens: what is stored is read back.
LEMMA ReloadStays ==
  ASSUME DockInv, Dock!Reload \/ \E key \in Dock!Keys \cup {"add"} : Dock!ToggleOpen(key)
  PROVE  DockInv'
  <1>1. CASE Dock!Reload
    <2>1. dockFilter' = dockFilter /\ active' = active /\ group' = group /\ UNCHANGED <<dockMarks, dockStored>>
      BY <1>1 DEF Dock!Reload, Dock!Load, DockInv, Dock!ReloadKeeps
    <2> QED
      BY <2>1 DEF DockInv, FilterOK, MarksOK, Kept, Dock!Chipless, Dock!IsFilterAtDefault, Dock!ReloadKeeps
  <1>2. CASE \E key \in Dock!Keys \cup {"add"} : Dock!ToggleOpen(key)
    BY <1>2 DEF Dock!ToggleOpen, DockInv, FilterOK, MarksOK, Kept, Dock!Chipless, Dock!IsFilterAtDefault, Dock!ReloadKeeps
  <1> QED
    BY <1>1, <1>2

\* What the dock reads when it opens.
LEMMA InitKeeps ==
  ASSUME Dock!Init
  PROVE  DockInv
  <1> DEFINE v == Dock!ReadStorage(dockStored)
  <1>1. dockFilter = v.filter /\ active = v.active /\ group = v.group /\ dockMarks \in OldMarks
        /\ dockStored \in OldStores \cup {Dock!NoStore}
    BY DEF Dock!Init
  <1>2. MarksOK
    BY <1>1, MarksAssumption DEF MarksOK
  <1>3. v = [filter |-> v.filter, active |-> v.active, group |-> v.group]
    BY DEF Dock!ReadStorage
  <1>4. Dock!IsFilter(v.filter) /\ Dock!IsRange(v.filter.range) /\ v.active \subseteq Dock!Keys /\ Dock!Chipless(v.filter, v.active)
    <2>1. CASE ~dockStored.there
      <3>1. v.filter = Dock!EmptyFilter /\ v.active = {}
        BY <2>1 DEF Dock!ReadStorage
      <3> QED
        BY <3>1, EmptyIsFilter DEF Dock!Chipless
    <2>2. CASE dockStored.there
      <3>1. dockStored \in OldStores
        BY <1>1, <2>2 DEF Dock!NoStore
      <3> DEFINE s == dockStored
                 f == s.filter
                 p == [f EXCEPT !.range = Dock!ParseRange(@)]
                 g == [p EXCEPT !.choices = @ \ {"left"}]
      <3>2. Dock!IsFilter(f) /\ Dock!IsRange(Dock!ParseRange(f.range)) /\ Dock!Chipless(f, s.active)
        BY <3>1, StoresAssumption, RangeIsParsed DEF Dock!IsStore
      <3>3. v.filter \in {p, g} /\ v.active = s.active \cap Dock!Keys
        BY <2>2 DEF Dock!ReadStorage, Dock!MigrateSpamChoicePolarity
      <3> HIDE DEF f
      <3>4. Dock!IsFilter(p) /\ p.range = Dock!ParseRange(f.range)
            /\ \A x \in DOMAIN Dock!EmptyFilter \ {"range"} : p[x] = f[x]
        BY <3>2, FieldIsSet, FieldsOfFilter
      <3>5. p.range.preset = f.range.preset /\ p.range.timeEnabled = f.range.timeEnabled
        BY <3>4 DEF Dock!ParseRange
      <3> HIDE DEF p
      <3>6. Dock!IsFilter(g) /\ g.choices = p.choices \ {"left"}
            /\ \A x \in DOMAIN Dock!EmptyFilter \ {"choices"} : g[x] = p[x]
        BY <3>4, FieldIsSet, FieldsOfFilter
      <3>7. g.range = p.range
        BY <3>6, FieldsOfFilter
      <3> HIDE DEF g
      <3>8. \A k \in Dock!Keys : Dock!IsFilterAtDefault(k, f) => Dock!IsFilterAtDefault(k, p)
        BY <3>4, <3>5, FieldsOfFilter DEF Dock!IsFilterAtDefault
      <3>9. \A k \in Dock!Keys : Dock!IsFilterAtDefault(k, p) => Dock!IsFilterAtDefault(k, g)
        <4> SUFFICES ASSUME NEW k \in Dock!Keys, Dock!IsFilterAtDefault(k, p)
                     PROVE  Dock!IsFilterAtDefault(k, g)
          OBVIOUS
        <4>1. CASE k = "choice"
          BY <3>6, <4>1 DEF Dock!IsFilterAtDefault, Dock!FieldOf, Dock!EmptyFilter
        <4>2. CASE k # "choice"
          <5>1. Dock!FieldOf[k] \in DOMAIN Dock!EmptyFilter \ {"choices"}
            BY <4>2 DEF Dock!FieldOf, Dock!Keys, Dock!EmptyFilter
          <5>2. g[Dock!FieldOf[k]] = p[Dock!FieldOf[k]]
            BY <3>6, <5>1
          <5> QED
            BY <3>7, <5>2 DEF Dock!IsFilterAtDefault
        <4> QED
          BY <4>1, <4>2
      <3>10. Dock!Chipless(p, v.active) /\ Dock!Chipless(g, v.active)
        BY <3>2, <3>3, <3>8, <3>9 DEF Dock!Chipless
      <3> QED
        BY <3>2, <3>3, <3>4, <3>6, <3>7, <3>10
    <2> QED
      BY <2>1, <2>2
  <1> HIDE DEF v
  <1>5. Dock!ReloadKeeps
    BY <1>1, <1>3 DEF Dock!ReloadKeeps, v
  <1> QED
    BY <1>1, <1>2, <1>4, <1>5 DEF DockInv, FilterOK, Kept, Dock!Chipless, Dock!IsFilterAtDefault

\* The dock's inductive invariant: every click, typed bound, mark and reload keeps the filter well
\* formed, what has no chip at its default, and the storage as the dock stands
\* (useNotificationFilters and its storage).
THEOREM DockInvariant == Dock!Init /\ [][Dock!Next]_(Dock!dockVars) => []DockInv
  <1>1. Dock!Init => DockInv
    BY InitKeeps
  <1>2. DockInv /\ [Dock!Next]_(Dock!dockVars) => DockInv'
    <2> SUFFICES ASSUME DockInv, [Dock!Next]_(Dock!dockVars) PROVE DockInv'
      OBVIOUS
    <2>1. ASSUME NEW key \in Dock!Keys, Dock!OnAdd(key) \/ Dock!OnRemove(key) \/ Dock!OnChipClose(key)
          PROVE  DockInv'
      BY <2>1, ChipsKeep
    <2>2. ASSUME NEW key \in DOMAIN Options, Dock!ToggleAll(key) \/ \E o \in Options[key] : Dock!ToggleOption(key, o)
          PROVE  DockInv'
      BY <2>2, OptionsKeep, OptionsAssumption
    <2>3. CASE Dock!OnClear \/ Dock!ToggleAllLayers \/ Dock!ResetLayers \/ \E l \in {"tl", "cl", "wl"} : Dock!ToggleLayer(l)
      BY <2>3, ClearKeeps, LayersKeep DEF Dock!ToggleAllLayers, Dock!ResetLayers, Dock!ToggleLayer
    <2>4. CASE \E show, hide \in ConnectionIds \cup {0} : Dock!WithConnectionActive([show |-> show, hide |-> hide])
      BY <2>4, ConnectionKeeps
    <2>5. CASE \/ \E p \in DOMAIN Dock!DaysBack \cup {"all", "custom"} : Dock!SetRangePreset(p)
               \/ \E from, to \in {{}} \cup {{d} : d \in CustomDays} : Dock!SetCustomRange(from, to)
               \/ \E on \in BOOLEAN : Dock!SetTimeEnabled(on)
               \/ \E field \in {"timeFrom", "timeTo"}, time \in ClockTimes : Dock!SetTimeField(field, time)
      BY <2>5, RangesKeep
    <2>6. CASE \/ \E targets \in SUBSET Options["severity"] : Dock!QuickFilterSeverities(targets)
               \/ \E q \in Queries \cup {Dock!Absent} : Dock!SetQuery(q)
               \/ Dock!ToggleGroup
      BY <2>6, QuickFilterKeeps, QueryKeeps, GroupKeeps
    <2>7. ASSUME NEW key \in {"isFavorite", "isLeft"},
                 \/ \E id \in Dock!EntryIds : Dock!ToggleMark(id, key)
                 \/ \E t \in Threads : Dock!ToggleThreadHeaderMark(t, key)
          PROVE  DockInv'
      BY <2>7, MarksKeep
    <2>8. CASE Dock!Reload \/ \E key \in Dock!Keys \cup {"add"} : Dock!ToggleOpen(key)
      BY <2>8, ReloadStays
    <2>9. CASE UNCHANGED Dock!dockVars
      BY <2>9 DEF Dock!dockVars, DockInv, FilterOK, MarksOK, Kept, Dock!Chipless, Dock!IsFilterAtDefault, Dock!ReloadKeeps
    <2> QED
      BY <2>1, <2>2, <2>3, <2>4, <2>5, <2>6, <2>7, <2>8, <2>9 DEF Dock!Next
  <1> QED
    BY <1>1, <1>2, PTL

-----------------------------------------------------------------------------
\* The mark in the header.
LEMMA MarksOfEntries ==
  ASSUME NEW m, NEW t, NEW key
  PROVE  /\ key = "isFavorite" =>
              (key \in Dock!ResolveThreadHeaderMarks(m, t)
                 <=> \E i \in DOMAIN t.notifications :
                       key \in Dock!ResolveEntryMarks(m, t.notifications[i].id, t.uid))
         /\ key = "isLeft" =>
              (key \in Dock!ResolveThreadHeaderMarks(m, t)
                 <=> \A i \in DOMAIN t.notifications :
                       key \in Dock!ResolveEntryMarks(m, t.notifications[i].id, t.uid))
  <1>1. ASSUME NEW k
        PROVE  /\ k \in UNION Dock!EntryMarks(m, t) <=>
                    \E i \in DOMAIN t.notifications : k \in Dock!ResolveEntryMarks(m, t.notifications[i].id, t.uid)
               /\ (\A s \in Dock!EntryMarks(m, t) : k \in s) <=>
                    \A i \in DOMAIN t.notifications : k \in Dock!ResolveEntryMarks(m, t.notifications[i].id, t.uid)
    BY Zenon DEF Dock!EntryMarks
  <1> DEFINE U == UNION Dock!EntryMarks(m, t)
             E == \A s \in Dock!EntryMarks(m, t) : "isLeft" \in s
  <1>2. Dock!ResolveThreadHeaderMarks(m, t) = (U \cap {"isFavorite"}) \cup (IF E THEN {"isLeft"} ELSE {})
    BY DEF Dock!ResolveThreadHeaderMarks
  <1> HIDE DEF U, E
  <1>3. /\ "isFavorite" \in Dock!ResolveThreadHeaderMarks(m, t) <=> "isFavorite" \in U
        /\ "isLeft" \in Dock!ResolveThreadHeaderMarks(m, t) <=> E
    BY <1>2
  <1>4. CASE key = "isFavorite"
    <2>1. key \in U <=> \E i \in DOMAIN t.notifications :
                          key \in Dock!ResolveEntryMarks(m, t.notifications[i].id, t.uid)
      BY <1>1 DEF U
    <2> QED
      BY <1>3, <1>4, <2>1
  <1>5. CASE key = "isLeft"
    <2>1. E <=> \A i \in DOMAIN t.notifications :
                  key \in Dock!ResolveEntryMarks(m, t.notifications[i].id, t.uid)
      BY <1>1, <1>5 DEF E
    <2> QED
      BY <1>3, <1>5, <2>1
  <1> QED
    BY <1>4, <1>5

\* A click on the header's mark turns it.
LEMMA HeaderTurns ==
  ASSUME DockInv, NEW t \in Threads, NEW key \in {"isFavorite", "isLeft"}, Dock!ToggleThreadHeaderMark(t, key)
  PROVE  key \in Dock!ResolveThreadHeaderMarks(dockMarks', t) <=> key \notin Dock!ResolveThreadHeaderMarks(dockMarks, t)
  <1> DEFINE on == key \notin Dock!ResolveThreadHeaderMarks(dockMarks, t)
  <1>1. dockMarks' = Dock!SetThreadBulkMarks(dockMarks, t, key, on)
    BY DEF Dock!ToggleThreadHeaderMark
  <1>2. /\ t.uid \in DOMAIN dockMarks /\ t.uid \notin Dock!EntryIdsOf(t)
        /\ \A i \in DOMAIN t.notifications : t.notifications[i].id \in DOMAIN dockMarks
        /\ \E i \in DOMAIN t.notifications : TRUE
    BY ThreadsAssumption DEF Dock!IsThread, DockInv, MarksOK, Dock!EntryIdsOf
  <1>3. \A i \in DOMAIN t.notifications : t.notifications[i].id \in Dock!EntryIdsOf(t)
    BY DEF Dock!EntryIdsOf
  <1> HIDE DEF on
  <1>4. /\ dockMarks'[t.uid] = dockMarks[t.uid] \ {key}
        /\ \A i \in DOMAIN t.notifications :
             dockMarks'[t.notifications[i].id] = IF on THEN dockMarks[t.notifications[i].id] \cup {key}
                                             ELSE dockMarks[t.notifications[i].id] \ {key}
    BY <1>1, <1>2, <1>3 DEF Dock!SetThreadBulkMarks, Dock!EntryIdsOf
  <1>5. \A i \in DOMAIN t.notifications :
          key \in Dock!ResolveEntryMarks(dockMarks', t.notifications[i].id, t.uid) <=> on
    BY <1>4 DEF Dock!ResolveEntryMarks
  <1>6. key \in Dock!ResolveThreadHeaderMarks(dockMarks', t) <=> on
    BY <1>2, <1>5, MarksOfEntries
  <1> QED
    BY <1>6 DEF on

-----------------------------------------------------------------------------
\* What a single shows its thread shows.
LEMMA EffectiveFields ==
  ASSUME DockInv, NEW g \in BOOLEAN
  PROVE  /\ Dock!IsFilter(Dock!Effective(g))
         /\ Dock!Effective(g).threadStatuses = IF g /\ "threadStatus" \in active THEN dockFilter.threadStatuses ELSE {}
         /\ Dock!Effective(g).connection = IF "connection" \in active THEN dockFilter.connection ELSE Dock!EmptyConnection
         /\ Dock!Effective(g).choices = IF "choice" \in active THEN dockFilter.choices ELSE {}
         /\ Dock!Effective(g).range = IF "range" \in active THEN dockFilter.range ELSE Dock!EmptyRange
         /\ \A x \in DOMAIN Dock!EmptyFilter \ {"threadStatuses", "connection", "choices", "range"} :
              Dock!Effective(g)[x] = dockFilter[x]
  <1> DEFINE a == IF g /\ "threadStatus" \in active THEN dockFilter.threadStatuses ELSE {}
             b == IF "choice" \in active THEN dockFilter.choices ELSE {}
             c == IF "connection" \in active THEN dockFilter.connection ELSE Dock!EmptyConnection
             d == IF "range" \in active THEN dockFilter.range ELSE Dock!EmptyRange
             f1 == [dockFilter EXCEPT !.threadStatuses = a]
             f2 == [f1 EXCEPT !.choices = b]
             f3 == [f2 EXCEPT !.connection = c]
             f4 == [f3 EXCEPT !.range = d]
  <1>0. Dock!IsFilter(dockFilter) /\ {"threadStatuses", "connection", "choices", "range"} \subseteq DOMAIN Dock!EmptyFilter
    BY FieldsOfFilter DEF DockInv, FilterOK
  <1> HIDE DEF a, b, c, d
  <1>1. Dock!Effective(g) = f4
    <2>1. Dock!Effective(g) = [dockFilter EXCEPT
             !.threadStatuses = IF g /\ "threadStatus" \in active THEN @ ELSE {},
             !.choices = IF "choice" \in active THEN @ ELSE {},
             !.connection = IF "connection" \in active THEN @ ELSE Dock!EmptyConnection,
             !.range = IF "range" \in active THEN @ ELSE Dock!EmptyRange]
      BY DEF Dock!Effective
    <2>2. f4 = [dockFilter EXCEPT !.threadStatuses = a, !.choices = b, !.connection = c, !.range = d]
      OBVIOUS
    <2> QED
      BY <1>0, <2>1, <2>2, FieldsOfFilter, Zenon DEF Dock!IsFilter, a, b, c, d
  <1>2. Dock!IsFilter(f1) /\ f1.threadStatuses = a
        /\ \A x \in DOMAIN Dock!EmptyFilter \ {"threadStatuses"} : f1[x] = dockFilter[x]
    BY <1>0, FieldIsSet
  <1> HIDE DEF f1
  <1>3. Dock!IsFilter(f2) /\ f2.choices = b /\ \A x \in DOMAIN Dock!EmptyFilter \ {"choices"} : f2[x] = f1[x]
    BY <1>0, <1>2, FieldIsSet
  <1> HIDE DEF f2
  <1>4. Dock!IsFilter(f3) /\ f3.connection = c /\ \A x \in DOMAIN Dock!EmptyFilter \ {"connection"} : f3[x] = f2[x]
    BY <1>0, <1>3, FieldIsSet
  <1> HIDE DEF f3
  <1>5. Dock!IsFilter(f4) /\ f4.range = d /\ \A x \in DOMAIN Dock!EmptyFilter \ {"range"} : f4[x] = f3[x]
    BY <1>0, <1>4, FieldIsSet
  <1> HIDE DEF f4
  <1>6. f4.threadStatuses = a /\ f4.choices = b /\ f4.connection = c /\ f4.range = d
    BY <1>0, <1>2, <1>3, <1>4, <1>5
  <1>7. \A x \in DOMAIN Dock!EmptyFilter \ {"threadStatuses", "connection", "choices", "range"} : f4[x] = dockFilter[x]
    BY <1>2, <1>3, <1>4, <1>5
  <1> QED
    BY <1>1, <1>5, <1>6, <1>7 DEF a, b, c, d

\* Without a condition on threads, grouped and flat feed are filtered alike.
LEMMA FlatIsGrouped ==
  ASSUME DockInv, Dock!Effective(TRUE).threadStatuses = {}
  PROVE  Dock!Effective(FALSE) = Dock!Effective(TRUE)
  <1> DEFINE f == Dock!Effective(FALSE)
             g == Dock!Effective(TRUE)
  <1>1. /\ Dock!IsFilter(f) /\ Dock!IsFilter(g) /\ f.threadStatuses = {} /\ g.threadStatuses = {}
        /\ f.connection = g.connection /\ f.choices = g.choices /\ f.range = g.range
        /\ \A x \in DOMAIN Dock!EmptyFilter \ {"threadStatuses", "connection", "choices", "range"} : f[x] = g[x]
    BY EffectiveFields
  <1> HIDE DEF f, g
  <1>2. \A x \in DOMAIN Dock!EmptyFilter : f[x] = g[x]
    BY <1>1
  <1>3. f = g
    BY <1>1, <1>2, Zenon DEF Dock!IsFilter
  <1> QED
    BY <1>3 DEF f, g

\* An event that matches a filter matches it without its query.
LEMMA MatchesWithoutQuery ==
  ASSUME NEW e, NEW f, Dock!IsFilter(f), NEW at, Dock!EventMatches(e, f, at)
  PROVE  Dock!EventMatches(e, [f EXCEPT !.query = Dock!Absent], at)
  <1> DEFINE g == [f EXCEPT !.query = Dock!Absent]
  <1>1. g.query = Dock!Absent /\ \A x \in DOMAIN Dock!EmptyFilter \ {"query"} : g[x] = f[x]
    BY FieldIsSet, FieldsOfFilter
  <1> HIDE DEF g
  <1>2. /\ g.severities = f.severities /\ g.interactions = f.interactions
        /\ g.localizations = f.localizations /\ g.statuses = f.statuses /\ g.range = f.range
    BY <1>1, FieldsOfFilter
  <1>3. Dock!EventMatches(e, g, at)
    BY <1>1, <1>2 DEF Dock!EventMatches, Dock!Hits
  <1> QED
    BY <1>3 DEF g

\* Where the flat feed shows an entry the grouped one shows its thread.
LEMMA EntryShowsItsThread ==
  ASSUME DockInv, Dock!Effective(TRUE).threadStatuses = {}, Dock!Effective(TRUE).connection = Dock!EmptyConnection,
         NEW t \in Threads, "isLeft" \notin dockMarks[t.uid],
         NEW i \in DOMAIN t.notifications, Dock!Shows(Dock!Single(t.notifications[i]), FALSE)
  PROVE  Dock!Shows(t, TRUE)
  <1> DEFINE e == t.notifications[i]
             f == Dock!Effective(TRUE)
             s == Dock!Single(e)
             m == Dock!Marked(s, dockMarks, Deleted)
             n == Dock!Marked(t, dockMarks, Deleted)
  <1>1. /\ s.itemKind = "single" /\ s.event = e
        /\ m.item = s /\ m.has = Dock!ResolveEntryMarks(dockMarks, e.id, Dock!Absent)
        /\ m.deleted = (e.corr \in Deleted)
    BY DEF Dock!Single, Dock!Marked
  <1>2. /\ t.itemKind = "thread" /\ e.corr = t.uid /\ Dock!ClassifyEventLayer(e) = Dock!ClassifyItemLayer(t)
        /\ \A j \in DOMAIN t.notifications : 0 \notin t.notifications[j].ids
    BY ThreadsAssumption DEF Dock!IsThread
  <1>3. n.item = t /\ n.has = Dock!ResolveThreadHeaderMarks(dockMarks, t) /\ n.deleted = (t.uid \in Deleted)
    BY <1>2 DEF Dock!Marked
  <1>4. Dock!ItemMatches(m, f, Dock!At)
    BY FlatIsGrouped DEF Dock!Shows
  <1>5. f.threadStatuses = {} /\ f.connection = Dock!EmptyConnection /\ Dock!IsFilter(f)
    BY EffectiveFields
  <1> HIDE DEF e, f, s, m, n
  <1>6. /\ Dock!MatchesLayerFilter(s, f.layers)
        /\ m.deleted => "deleted" \in f.choices
        /\ "isLeft" \in m.has => "left" \in f.choices
        /\ "favorite" \in f.choices => "isFavorite" \in m.has
        /\ Dock!EventMatches(e, f, Dock!At)
    BY <1>1, <1>4 DEF Dock!ItemMatches
  <1>7. Dock!MatchesLayerFilter(t, f.layers)
    BY <1>1, <1>2, <1>6 DEF Dock!MatchesLayerFilter, Dock!ClassifyItemLayer
  <1>8. Dock!MatchesConnectionFilter(t, f.connection)
    <2>1. 0 \notin Dock!ItemConnectionIds(t)
      BY <1>2 DEF Dock!ItemConnectionIds
    <2> QED
      BY <1>5, <2>1 DEF Dock!MatchesConnectionFilter, Dock!EmptyConnection
  <1>9. n.deleted => "deleted" \in f.choices
    BY <1>1, <1>2, <1>3, <1>6
  <1>10. "isLeft" \in n.has => "left" \in f.choices
    <2>1. "isLeft" \in n.has => "isLeft" \in Dock!ResolveEntryMarks(dockMarks, e.id, t.uid)
      BY <1>3, MarksOfEntries DEF e
    <2>2. "isLeft" \in n.has => "isLeft" \in m.has
      BY <1>1, <2>1 DEF Dock!ResolveEntryMarks
    <2> QED
      BY <1>6, <2>2
  <1>11. "favorite" \in f.choices => "isFavorite" \in n.has
    <2>1. "isFavorite" \in m.has => "isFavorite" \in Dock!ResolveEntryMarks(dockMarks, e.id, t.uid)
      BY <1>1 DEF Dock!ResolveEntryMarks
    <2>2. "isFavorite" \in m.has => "isFavorite" \in n.has
      BY <1>3, <2>1, MarksOfEntries DEF e
    <2> QED
      BY <1>6, <2>2
  <1>12. Dock!ThreadMatchesAtoms(t, f, Dock!At)
    <2>1. Dock!EventMatches(e, [f EXCEPT !.query = Dock!Absent], Dock!At)
      BY <1>5, <1>6, MatchesWithoutQuery
    <2>2. Dock!Hits(e.words, f.query)
      BY <1>6 DEF Dock!EventMatches
    <2> QED
      BY <2>1, <2>2, Zenon DEF Dock!ThreadMatchesAtoms, e
  <1>13. Dock!Wants(f.threadStatuses, t.threadStatus)
    BY <1>5 DEF Dock!Wants
  <1>14. Dock!ItemMatches(n, f, Dock!At)
    BY <1>2, <1>3, <1>7, <1>8, <1>9, <1>10, <1>11, <1>12, <1>13 DEF Dock!ItemMatches
  <1> QED
    BY <1>14 DEF Dock!Shows, n, f

\* So grouping hides nothing.
LEMMA GroupingHides ==
  ASSUME DockInv
  PROVE  Dock!GroupingHidesNothing
  BY EntryShowsItsThread DEF Dock!GroupingHidesNothing

\* Days and instants.
LEMMA DayStarts ==
  ASSUME NEW x \in Int, NEW d \in Int
  PROVE  /\ x \div Day \in Int
         /\ x % Day \in 0..(Day - 1)
         /\ x >= d * Day <=> x \div Day >= d
         /\ x < d * Day + Day <=> x \div Day <= d
  <1> DEFINE q == x \div Day
             p == q * Day
  <1>1. Day \in Nat /\ Day > 0
    BY DayAssumption
  <1>2. q \in Int /\ x % Day \in 0..(Day - 1) /\ x = (Day * q) + (x % Day)
    BY <1>1, SMT
  <1>3. p \in Int /\ d * Day \in Int /\ p <= x /\ x < p + Day
    BY <1>1, <1>2, SMT
  <1>4. \A a, b \in Int : a <= b => a * Day <= b * Day
    <2> SUFFICES ASSUME NEW a \in Int, NEW b \in Int, a <= b
                 PROVE  a * Day <= b * Day
      OBVIOUS
    <2> DEFINE c == b - a
    <2>1. c \in Nat /\ b = a + c
      OBVIOUS
    <2>2. c * Day \in Int /\ c * Day >= 0 /\ a * Day \in Int
      BY <1>1, <2>1, SMT
    <2>3. b * Day = a * Day + c * Day
      BY <1>1, <2>1, SMT
    <2> HIDE DEF c
    <2> QED
      BY <1>1, <2>2, <2>3
  <1>5. \A a, b \in Int : a < b => a * Day + Day <= b * Day
    <2> SUFFICES ASSUME NEW a \in Int, NEW b \in Int, a < b
                 PROVE  a * Day + Day <= b * Day
      OBVIOUS
    <2>1. (a + 1) * Day <= b * Day
      BY <1>4
    <2>2. (a + 1) * Day = a * Day + Day
      BY <1>1, SMT
    <2> QED
      BY <2>1, <2>2
  <1> HIDE DEF q
  <1> DEFINE e == d * Day
  <1>6. /\ q <= d => p <= e
        /\ d <= q => e <= p
        /\ q < d => p + Day <= e
        /\ d < q => e + Day <= p
    BY <1>2, <1>4, <1>5
  <1>7. e \in Int /\ p \in Int
    BY <1>3
  <1>9. x >= e <=> q >= d
    <2> HIDE DEF p, e
    <2> QED
      BY <1>1, <1>2, <1>3, <1>6, <1>7
  <1>10. x < e + Day <=> q <= d
    <2> HIDE DEF p, e
    <2> QED
      BY <1>1, <1>2, <1>3, <1>6, <1>7
  <1> QED
    BY <1>2, <1>9, <1>10 DEF q

\* A set of at most one bound, and its value or its default.
LEMMA OrIsTheBound ==
  ASSUME NEW v
  PROVE  Dock!Or({}, v) = v /\ \A x : Dock!Or({x}, v) = x
  BY DEF Dock!Or

\* The bounds of a period, translated to instants, cut where the calendar does.
LEMMA RangeIsDays ==
  ASSUME NEW r, Dock!IsRange(r), NEW now \in Instants, NEW ts \in Instants, NEW offset \in Offsets
  PROVE  LET shown == Dock!InRange(ts, Dock!ResolveRangeBounds(r, now, offset), offset)
             day == Dock!WallDay(ts, offset)
         IN  /\ r.timeEnabled /\ r.preset = "all" =>
                  (shown <=> Dock!LocalTimeOfDay(ts, offset) \in
                               Dock!Or(r.timeFrom, 0)..(Dock!Or(r.timeTo, Day) - 1))
             /\ ~r.timeEnabled /\ r.preset = "all" => shown
             /\ ~r.timeEnabled /\ r.preset = "custom" =>
                  (shown <=> (\A d \in r.from : day >= d) /\ (\A d \in r.to : day <= d))
             /\ ~r.timeEnabled /\ r.preset \in DOMAIN Dock!DaysBack =>
                  (shown <=> day >= Dock!WallDay(now, offset) - Dock!DaysBack[r.preset])
             /\ r.timeEnabled /\ r.preset # "all" =>
                  (shown => day <= Dock!Or(r.to, Dock!WallDay(now, offset)))
  <1> DEFINE B == Dock!ResolveRangeBounds(r, now, offset)
             shown == Dock!InRange(ts, B, offset)
             x == ts + offset
             day == Dock!WallDay(ts, offset)
             today == Dock!WallDay(now, offset)
             lt == Dock!LocalTimeOfDay(ts, offset)
             from == Dock!Or(r.timeFrom, 0)
             to == Dock!Or(r.timeTo, Day)
  <1>1. ts \in Int /\ now \in Int /\ offset \in Int /\ x \in Int /\ Day \in Nat /\ Day > 0
    BY TimesAssumption, DayAssumption
  <1>2. now + offset \in Int /\ today \in Int /\ day \in Int /\ lt \in 0..(Day - 1)
    BY <1>1, DayStarts DEF Dock!WallDay, Dock!LocalTimeOfDay
  <1>3. from \in 0..Day /\ to \in 0..Day
    <2>1. Dock!Or(r.timeFrom, 0) \in 0..Day
      <3>1. CASE r.timeFrom = {}
        BY <1>1, <3>1, OrIsTheBound
      <3>2. ASSUME NEW m \in 0..Day, r.timeFrom = {m}
            PROVE  Dock!Or(r.timeFrom, 0) \in 0..Day
        BY <3>2, OrIsTheBound
      <3> QED
        BY <3>1, <3>2 DEF Dock!IsRange
    <2>2. Dock!Or(r.timeTo, Day) \in 0..Day
      <3>1. CASE r.timeTo = {}
        BY <1>1, <3>1, OrIsTheBound
      <3>2. ASSUME NEW m \in 0..Day, r.timeTo = {m}
            PROVE  Dock!Or(r.timeTo, Day) \in 0..Day
        BY <3>2, OrIsTheBound
      <3> QED
        BY <3>1, <3>2 DEF Dock!IsRange
    <2> QED
      BY <2>1, <2>2
  <1>4. \A d \in Int : /\ Dock!StartOfWallDay(d, offset) \in Int
                       /\ ts >= Dock!StartOfWallDay(d, offset) <=> day >= d
                       /\ ts <= Dock!StartOfWallDay(d, offset) + Day - 1 <=> day <= d
    <2> SUFFICES ASSUME NEW d \in Int
                 PROVE  /\ Dock!StartOfWallDay(d, offset) \in Int
                        /\ ts >= Dock!StartOfWallDay(d, offset) <=> day >= d
                        /\ ts <= Dock!StartOfWallDay(d, offset) + Day - 1 <=> day <= d
      OBVIOUS
    <2>1. (x >= d * Day <=> day >= d) /\ (x < d * Day + Day <=> day <= d)
      BY <1>1, DayStarts DEF Dock!WallDay
    <2>2. d * Day \in Int
      BY <1>1
    <2> DEFINE e == d * Day
    <2>3. Dock!StartOfWallDay(d, offset) = e - offset
      BY DEF Dock!StartOfWallDay
    <2> HIDE DEF e, day
    <2>4. e \in Int /\ (x >= e <=> day >= d) /\ (x < e + Day <=> day <= d)
      BY <2>1, <2>2 DEF e
    <2> QED
      BY <1>1, <2>3, <2>4
  <1>5. r.from \subseteq Int /\ r.to \subseteq Int
    BY DEF Dock!IsRange
  <1>6. CASE r.timeEnabled /\ r.preset = "all"
    <2>1. B = [from |-> {}, to |-> {}, tod |-> {[from |-> from, to |-> to]}]
      BY <1>6, Zenon DEF Dock!ResolveRangeBounds, Dock!ResolveTimeOfDay
    <2>2. shown <=> lt >= from /\ lt < to
      <3>1. B.from = {} /\ B.to = {} /\ B.tod = {[from |-> from, to |-> to]}
        BY <2>1
      <3> HIDE DEF B, from, to
      <3> DEFINE time == [from |-> from, to |-> to]
      <3>2. time.from = from /\ time.to = to
        OBVIOUS
      <3> HIDE DEF time
      <3>3. B.tod = {time}
        BY <3>1 DEF time
      <3> QED
        BY <3>1, <3>2, <3>3, Zenon DEF Dock!InRange
    <2>3. shown <=> lt \in from..(to - 1)
      <3> HIDE DEF shown, lt, from, to
      <3> QED
        BY <1>2, <1>3, <2>2
    <2> QED
      BY <1>6, <2>3
  <1>7. CASE ~r.timeEnabled
    <2> DEFINE fromDay == CASE r.preset = "all" -> {}
                            [] r.preset = "custom" -> {Dock!StartOfWallDay(d, offset) : d \in r.from}
                            [] OTHER -> {Dock!StartOfWallDay(d, offset) : d \in {today - Dock!DaysBack[r.preset]}}
               toDay == IF r.preset = "custom" THEN {Dock!StartOfWallDay(d, offset) : d \in r.to} ELSE {}
    <2>1. B = [from |-> fromDay, to |-> {d + Day - 1 : d \in toDay}, tod |-> {}]
      BY <1>7 DEF Dock!ResolveRangeBounds
    <2> HIDE DEF B, fromDay, toDay
    <2>2. shown <=> (\A f \in fromDay : ts >= f) /\ (\A t \in toDay : ts <= t + Day - 1)
      BY <2>1 DEF Dock!InRange
    <2> HIDE DEF shown
    <2>0. {"all", "custom"} \cap DOMAIN Dock!DaysBack = {}
      BY DEF Dock!DaysBack
    <2>3. CASE r.preset = "all"
      <3>1. fromDay = {} /\ toDay = {}
        BY <2>3 DEF fromDay, toDay
      <3> QED
        BY <1>7, <2>0, <2>2, <2>3, <3>1 DEF shown, B
    <2>4. CASE r.preset = "custom"
      <3>1. /\ fromDay = {Dock!StartOfWallDay(d, offset) : d \in r.from}
            /\ toDay = {Dock!StartOfWallDay(d, offset) : d \in r.to}
        BY <2>4 DEF fromDay, toDay
      <3>2. shown <=> (\A d \in r.from : ts >= Dock!StartOfWallDay(d, offset))
                      /\ (\A d \in r.to : ts <= Dock!StartOfWallDay(d, offset) + Day - 1)
        BY <2>2, <3>1
      <3> HIDE DEF day
      <3>3. shown <=> (\A d \in r.from : day >= d) /\ (\A d \in r.to : day <= d)
        BY <1>4, <1>5, <3>2
      <3> QED
        BY <1>7, <2>0, <2>4, <3>3 DEF shown, B, day
    <2>5. CASE r.preset \in DOMAIN Dock!DaysBack
      <3>0. r.preset # "all" /\ r.preset # "custom" /\ Dock!DaysBack[r.preset] \in Int
        BY <2>5 DEF Dock!DaysBack
      <3>1. fromDay = {Dock!StartOfWallDay(today - Dock!DaysBack[r.preset], offset)} /\ toDay = {}
        BY <3>0 DEF fromDay, toDay
      <3>2. shown <=> ts >= Dock!StartOfWallDay(today - Dock!DaysBack[r.preset], offset)
        BY <2>2, <3>1
      <3> HIDE DEF day, today
      <3>4. today - Dock!DaysBack[r.preset] \in Int
        BY <1>2, <3>0
      <3>3. shown <=> day >= today - Dock!DaysBack[r.preset]
        BY <1>4, <3>2, <3>4
      <3> QED
        BY <1>7, <2>5, <3>0, <3>3 DEF shown, B, day, today
    <2> QED
      BY <2>3, <2>4, <2>5 DEF Dock!IsRange
  <1>8. CASE r.timeEnabled /\ r.preset # "all"
    <2> DEFINE toDay == IF r.preset = "custom" THEN {Dock!StartOfWallDay(d, offset) : d \in r.to} ELSE {}
               last == Dock!Or(r.to, today)
               endDay == Dock!Or(toDay, Dock!StartOfWallDay(today, offset))
    <2>1. B.to = {endDay + to - 1}
      BY <1>8 DEF Dock!ResolveRangeBounds, Dock!ResolveTimeOfDay
    <2>2. last \in Int /\ endDay = Dock!StartOfWallDay(last, offset)
      <3>1. CASE r.to = {}
        BY <1>2, <3>1, OrIsTheBound
      <3>2. ASSUME NEW d \in Int, r.to = {d}
            PROVE  last \in Int /\ endDay = Dock!StartOfWallDay(last, offset)
        <4>1. r.preset = "custom"
          BY <3>2 DEF Dock!IsRange
        <4>2. toDay = {Dock!StartOfWallDay(d, offset)}
          BY <3>2, <4>1
        <4>3. last = d /\ endDay = Dock!StartOfWallDay(d, offset)
          BY <3>2, <4>2, OrIsTheBound
        <4> QED
          BY <4>3
      <3> QED
        BY <3>1, <3>2 DEF Dock!IsRange
    <2> HIDE DEF B, last, endDay, toDay, day, to
    <2>3. shown => ts <= endDay + to - 1
      BY <2>1 DEF Dock!InRange
    <2> HIDE DEF shown
    <2>4. shown => day <= last
      BY <1>1, <1>3, <1>4, <2>2, <2>3
    <2> QED
      BY <1>8, <2>4 DEF shown, B, day, last
  <1> QED
    BY <1>6, <1>7, <1>8 DEF Dock!IsRange

\* Both halves of the property about the chips follow from the invariant.
LEMMA PeriodIsDays ==
  ASSUME DockInv
  PROVE  Dock!NoChipFiltersNothing /\ Dock!RangeIsByCalendar
  <1>1. Dock!NoChipFiltersNothing
    BY DEF DockInv, Kept, Dock!Chipless, Dock!NoChipFiltersNothing
  <1>2. Dock!RangeIsByCalendar
    <2> DEFINE r == dockFilter.range
    <2> SUFFICES ASSUME NEW now \in Instants, NEW ts \in Instants, NEW offset \in Offsets
                 PROVE  LET shown == Dock!InRange(ts, Dock!ResolveRangeBounds(r, now, offset), offset)
                            day == Dock!WallDay(ts, offset)
                        IN  CASE r.timeEnabled /\ r.preset = "all" ->
                                   shown <=> Dock!LocalTimeOfDay(ts, offset) \in
                                               Dock!Or(r.timeFrom, 0)..(Dock!Or(r.timeTo, Day) - 1)
                              [] ~r.timeEnabled /\ r.preset = "all" -> shown
                              [] ~r.timeEnabled /\ r.preset = "custom" ->
                                   shown <=> (\A d \in r.from : day >= d) /\ (\A d \in r.to : day <= d)
                              [] ~r.timeEnabled /\ r.preset \in DOMAIN Dock!DaysBack ->
                                   shown <=> day >= Dock!WallDay(now, offset) - Dock!DaysBack[r.preset]
                              [] OTHER -> shown => day <= Dock!Or(r.to, Dock!WallDay(now, offset))
      BY DEF Dock!RangeIsByCalendar
    <2> DEFINE shown == Dock!InRange(ts, Dock!ResolveRangeBounds(r, now, offset), offset)
               day == Dock!WallDay(ts, offset)
               byTime == shown <=> Dock!LocalTimeOfDay(ts, offset) \in
                                     Dock!Or(r.timeFrom, 0)..(Dock!Or(r.timeTo, Day) - 1)
               byDates == shown <=> (\A d \in r.from : day >= d) /\ (\A d \in r.to : day <= d)
               byPreset == shown <=> day >= Dock!WallDay(now, offset) - Dock!DaysBack[r.preset]
               byLast == shown => day <= Dock!Or(r.to, Dock!WallDay(now, offset))
    <2>1. Dock!IsRange(r)
      BY DEF DockInv, FilterOK
    <2>2. /\ r.timeEnabled /\ r.preset = "all" => byTime
          /\ ~r.timeEnabled /\ r.preset = "all" => shown
          /\ ~r.timeEnabled /\ r.preset = "custom" => byDates
          /\ ~r.timeEnabled /\ r.preset \in DOMAIN Dock!DaysBack => byPreset
          /\ r.timeEnabled /\ r.preset # "all" => byLast
      BY <2>1, RangeIsDays, Zenon
    <2>3. r.preset \in DOMAIN Dock!DaysBack \cup {"all", "custom"}
      BY <2>1 DEF Dock!IsRange
    <2> HIDE DEF r, shown, byTime, byDates, byPreset, byLast
    <2>4. (CASE r.timeEnabled /\ r.preset = "all" -> byTime
            [] ~r.timeEnabled /\ r.preset = "all" -> shown
            [] ~r.timeEnabled /\ r.preset = "custom" -> byDates
            [] ~r.timeEnabled /\ r.preset \in DOMAIN Dock!DaysBack -> byPreset
            [] OTHER -> byLast)
      BY <2>2, <2>3
    <2> QED
      BY <2>4, Zenon DEF shown, day, byTime, byDates, byPreset, byLast
  <1> QED
    BY <1>1, <1>2

-----------------------------------------------------------------------------
(* The feed. *)

\* The channel is a sequence.
IsASeq(q) == q \in Seq({q[i] : i \in DOMAIN q})

\* The last word in a queue on an incident is what the journal says of it.
LastWordHolds(q, deleted) ==
  \A i \in DOMAIN q :
    q[i].kind = "visibility" =>
      \/ \E j \in DOMAIN q : j > i /\ q[j].kind = "visibility" /\ q[j].corr = q[i].corr
      \/ q[i].deleted <=> q[i].corr \in deleted

\* An incident the page has wrong is spoken of in the channel or asked for, unless
\* an answer crossed a change.
SpokenOf(q, c) == \E i \in DOMAIN q : q[i].kind = "visibility" /\ q[i].corr = c
Asked == \E s \in Feed!Slots : hideAsks[s] # <<>>
Right(c) == (c \in hidden => c \in gone) /\ (c \in gone /\ c \in Feed!Newest => c \in hidden)
WordIsComing ==
  feedWire = "down" \/ crossed \/ Asked \/ \A c : SpokenOf(queue, c) \/ Right(c)

\* What is deleted is in the journal.
JournalOK == journal \in Seq(Links) /\ gone \subseteq Feed!ToSet(journal)

ChannelOK ==
  /\ IsASeq(queue) /\ feedWire \in {"down", "open", "served"}
  /\ feedWire # "served" => queue = <<>>
  /\ crossed \in BOOLEAN /\ reloads \in Nat
  /\ hideAsks = [s \in Feed!Slots |-> hideAsks[s]]
FeedInv == ChannelOK /\ JournalOK /\ LastWordHolds(queue, gone) /\ WordIsComing

-----------------------------------------------------------------------------
\* A sequence of whatever it holds.
LEMMA SequenceOf ==
  ASSUME NEW T, NEW q \in Seq(T)
  PROVE  /\ IsASeq(q) /\ Len(q) \in Nat /\ DOMAIN q = 1..Len(q)
  <1>1. Len(q) \in Nat /\ DOMAIN q = 1..Len(q)
    OBVIOUS
  <1>2. q = [i \in 1..Len(q) |-> q[i]]
    OBVIOUS
  <1>3. \A i \in 1..Len(q) : q[i] \in {q[j] : j \in DOMAIN q}
    BY <1>1
  <1>4. IsASeq(q)
    BY <1>1, <1>2, <1>3 DEF IsASeq
  <1> QED
    BY <1>1, <1>4

\* What Append does to a sequence.
LEMMA Appended ==
  ASSUME NEW q, IsASeq(q), NEW e
  PROVE  /\ IsASeq(Append(q, e)) /\ Len(Append(q, e)) = Len(q) + 1 /\ Len(q) \in Nat
         /\ DOMAIN q = 1..Len(q) /\ DOMAIN Append(q, e) = 1..(Len(q) + 1)
         /\ \A i \in 1..Len(q) : Append(q, e)[i] = q[i]
         /\ Append(q, e)[Len(q) + 1] = e
  <1> DEFINE T == {q[i] : i \in DOMAIN q} \cup {e}
  <1>1. q \in Seq(T)
    <2>1. q \in Seq({q[i] : i \in DOMAIN q})
      BY DEF IsASeq
    <2> HIDE DEF T
    <2>2. {q[i] : i \in DOMAIN q} \subseteq T
      BY DEF T
    <2> QED
      BY <2>1, <2>2
  <1>2. e \in T
    OBVIOUS
  <1> HIDE DEF T
  <1>3. Append(q, e) \in Seq(T)
    BY <1>1, <1>2
  <1>4. Len(Append(q, e)) = Len(q) + 1 /\ Len(q) \in Nat /\ DOMAIN q = 1..Len(q)
        /\ (\A i \in 1..Len(q) : Append(q, e)[i] = q[i]) /\ Append(q, e)[Len(q) + 1] = e
    BY <1>1, <1>2
  <1> QED
    BY <1>3, <1>4, SequenceOf

\* What Tail does.
LEMMA Tailed ==
  ASSUME NEW q, IsASeq(q), q # <<>>
  PROVE  /\ IsASeq(Tail(q)) /\ Len(Tail(q)) = Len(q) - 1 /\ Len(q) \in Nat \ {0}
         /\ DOMAIN q = 1..Len(q) /\ DOMAIN Tail(q) = 1..(Len(q) - 1)
         /\ \A i \in 1..(Len(q) - 1) : Tail(q)[i] = q[i + 1]
         /\ Head(q) = q[1]
  <1> DEFINE T == {q[i] : i \in DOMAIN q}
  <1>1. q \in Seq(T)
    BY DEF IsASeq
  <1> HIDE DEF T
  <1>2. Len(q) \in Nat \ {0} /\ DOMAIN q = 1..Len(q) /\ Head(q) = q[1]
    BY <1>1
  <1>3. Tail(q) \in Seq(T) /\ Len(Tail(q)) = Len(q) - 1
        /\ \A i \in 1..(Len(q) - 1) : Tail(q)[i] = q[i + 1]
    BY <1>1
  <1> QED
    BY <1>2, <1>3, SequenceOf

-----------------------------------------------------------------------------
\* A queue after the drop of the first k entries of another.
Rest(r, q, k) ==
  /\ IsASeq(r) /\ IsASeq(q) /\ k \in {0, 1}
  /\ Len(q) \in Nat /\ Len(r) \in Nat /\ Len(q) = Len(r) + k
  /\ DOMAIN q = 1..Len(q) /\ DOMAIN r = 1..Len(r)
  /\ \A i \in 1..Len(r) : r[i] = q[i + k]

\* What Send does to the channel: the event goes in, and a full channel loses its oldest.
LEMMA SentIs ==
  ASSUME NEW e, IsASeq(queue), feedWire \in {"down", "open", "served"}, crossed \in BOOLEAN, Feed!Send(e)
  PROVE  /\ feedWire # "served" => queue' = queue
         /\ feedWire = "served" => \E k \in {0, 1} :
              /\ Rest(queue', Append(queue, e), k)
              /\ k = 1 /\ Append(queue, e)[1].kind = "visibility" => crossed'
         /\ crossed' \in BOOLEAN /\ (crossed => crossed')
         /\ feedWire = "open" /\ e.kind = "visibility" /\ (\A s \in Feed!Slots : hideAsks[s] # <<"asked">>) => crossed'
  <1> DEFINE all == Append(queue, e)
             full == Len(all) > Channel
             pending == IF e.kind = "notification" THEN feedAsks ELSE hideAsks
             answered == \A s \in Feed!Slots : pending[s] # <<"asked">>
             unheard == CASE feedWire = "served" /\ full -> {Head(all)}
                          [] feedWire = "open" /\ answered -> {e}
                          [] OTHER -> {}
  <1>1. /\ queue' = IF feedWire # "served" THEN queue ELSE IF full THEN Tail(all) ELSE all
        /\ crossed' = (crossed \/ \E d \in unheard : d.kind = "visibility")
    BY DEF Feed!Send
  <1>2. /\ IsASeq(all) /\ Len(all) = Len(queue) + 1 /\ Len(queue) \in Nat /\ DOMAIN all = 1..Len(all)
    BY Appended
  <1>3. all # <<>>
    <2> HIDE DEF all
    <2>1. 1 \in DOMAIN all
      BY <1>2
    <2> QED
      BY <2>1
  <1>4. crossed' \in BOOLEAN /\ (crossed => crossed')
    BY <1>1
  <1>5. ASSUME feedWire = "served"
        PROVE  \E k \in {0, 1} : Rest(queue', all, k) /\ (k = 1 /\ all[1].kind = "visibility" => crossed')
    <2> HIDE DEF all, answered
    <2>1. CASE full
      <3>1. queue' = Tail(all) /\ unheard = {Head(all)}
        BY <1>1, <1>5, <2>1
      <3>2. Rest(queue', all, 1)
        BY <1>2, <1>3, <3>1, Tailed DEF Rest
      <3>3. all[1].kind = "visibility" => crossed'
        BY <1>1, <1>2, <1>3, <3>1, Tailed
      <3> QED
        BY <3>2, <3>3
    <2>2. CASE ~full
      <3>1. queue' = all
        BY <1>1, <1>5, <2>2
      <3>2. Rest(queue', all, 0)
        BY <1>2, <3>1 DEF Rest
      <3> QED
        BY <3>2
    <2> QED
      BY <2>1, <2>2
  <1>6. ASSUME feedWire = "open", e.kind = "visibility", \A s \in Feed!Slots : hideAsks[s] # <<"asked">>
        PROVE  crossed'
    <2>1. answered
      BY <1>6
    <2> HIDE DEF all, answered, full
    <2>2. unheard = {e}
      BY <1>6, <2>1
    <2> QED
      BY <1>1, <1>6, <2>2
  <1> QED
    BY <1>1, <1>4, <1>5, <1>6
\* What is left of a queue speaks as the queue did.
LEMMA RestSpeaks ==
  ASSUME NEW r, NEW q, NEW k, Rest(r, q, k), NEW deleted, LastWordHolds(q, deleted)
  PROVE  /\ LastWordHolds(r, deleted)
         /\ \A c : SpokenOf(q, c) /\ (k = 1 => ~(q[1].kind = "visibility" /\ q[1].corr = c))
                     => SpokenOf(r, c)
  <1>1. LastWordHolds(r, deleted)
    <2> SUFFICES ASSUME NEW i \in DOMAIN r, r[i].kind = "visibility",
                        ~ \E j \in DOMAIN r : j > i /\ r[j].kind = "visibility" /\ r[j].corr = r[i].corr
                 PROVE  r[i].deleted <=> r[i].corr \in deleted
      BY DEF LastWordHolds
    <2>1. i + k \in DOMAIN q /\ q[i + k] = r[i]
      BY DEF Rest
    <2>2. ~ \E j \in DOMAIN q : j > i + k /\ q[j].kind = "visibility" /\ q[j].corr = q[i + k].corr
      <3> SUFFICES ASSUME NEW j \in DOMAIN q, j > i + k, q[j].kind = "visibility", q[j].corr = q[i + k].corr
                   PROVE  FALSE
        OBVIOUS
      <3>2. j \in 1..Len(q) /\ i \in 1..Len(r) /\ Len(q) = Len(r) + k /\ k \in {0, 1} /\ Len(r) \in Nat
        BY DEF Rest
      <3>3. j - k \in 1..Len(r) /\ j - k > i /\ (j - k) + k = j
        BY <3>2
      <3>1. j - k \in DOMAIN r /\ r[j - k] = q[j] /\ j - k > i
        BY <3>3 DEF Rest
      <3> QED
        BY <2>1, <3>1
    <2> QED
      BY <2>1, <2>2 DEF LastWordHolds
  <1>2. ASSUME NEW c, SpokenOf(q, c), k = 1 => ~(q[1].kind = "visibility" /\ q[1].corr = c)
        PROVE  SpokenOf(r, c)
    <2>1. PICK i \in DOMAIN q : q[i].kind = "visibility" /\ q[i].corr = c
      BY <1>2 DEF SpokenOf
    <2>2. i - k \in DOMAIN r /\ r[i - k] = q[i]
      BY <1>2, <2>1 DEF Rest
    <2> QED
      BY <2>1, <2>2 DEF SpokenOf
  <1> QED
    BY <1>1, <1>2

\* An atom says nothing of incidents; a change of the journal speaks of its own.
LEMMA AtomSpeaksNot ==
  ASSUME NEW q, IsASeq(q), NEW e, e.kind # "visibility", NEW deleted, LastWordHolds(q, deleted)
  PROVE  /\ LastWordHolds(Append(q, e), deleted)
         /\ \A c : SpokenOf(q, c) => SpokenOf(Append(q, e), c)
  <1> DEFINE all == Append(q, e)
  <1>1. /\ IsASeq(all) /\ Len(q) \in Nat /\ DOMAIN q = 1..Len(q) /\ DOMAIN all = 1..(Len(q) + 1)
        /\ \A i \in 1..Len(q) : all[i] = q[i]
        /\ all[Len(q) + 1] = e
    BY Appended
  <1> HIDE DEF all
  <1>2. LastWordHolds(all, deleted)
    <2> SUFFICES ASSUME NEW i \in DOMAIN all, all[i].kind = "visibility"
                 PROVE  \/ \E j \in DOMAIN all : j > i /\ all[j].kind = "visibility" /\ all[j].corr = all[i].corr
                        \/ all[i].deleted <=> all[i].corr \in deleted
      BY DEF LastWordHolds
    <2>1. i \in DOMAIN q /\ q[i] = all[i]
      BY <1>1
    <2>2. CASE \E j \in DOMAIN q : j > i /\ q[j].kind = "visibility" /\ q[j].corr = q[i].corr
      BY <1>1, <2>1, <2>2
    <2> QED
      BY <2>1, <2>2 DEF LastWordHolds
  <1>3. \A c : SpokenOf(q, c) => SpokenOf(all, c)
    BY <1>1 DEF SpokenOf
  <1> QED
    BY <1>2, <1>3 DEF all

\* An incident that changes sides has its word sent: it is the last one of that incident.
LEMMA ChangeSpeaks ==
  ASSUME NEW q, IsASeq(q), NEW deleted, LastWordHolds(q, deleted), NEW c, NEW now,
         now = IF c \in deleted THEN deleted \ {c} ELSE deleted \cup {c}
  PROVE  LET all == Append(q, Feed!HideEvent(c, c \notin deleted))
         IN  /\ LastWordHolds(all, now) /\ SpokenOf(all, c)
             /\ \A d : SpokenOf(q, d) => SpokenOf(all, d)
  <1> DEFINE e == Feed!HideEvent(c, c \notin deleted)
             all == Append(q, e)
  <1>1. e.kind = "visibility" /\ e.corr = c /\ e.deleted = (c \notin deleted)
    BY DEF Feed!HideEvent
  <1> HIDE DEF e
  <1>2. /\ IsASeq(all) /\ Len(q) \in Nat /\ DOMAIN q = 1..Len(q) /\ DOMAIN all = 1..(Len(q) + 1)
        /\ \A i \in 1..Len(q) : all[i] = q[i]
        /\ all[Len(q) + 1] = e
    BY Appended
  <1> HIDE DEF all
  <1>3. LastWordHolds(all, now)
    <2> SUFFICES ASSUME NEW i \in DOMAIN all, all[i].kind = "visibility"
                 PROVE  \/ \E j \in DOMAIN all : j > i /\ all[j].kind = "visibility" /\ all[j].corr = all[i].corr
                        \/ all[i].deleted <=> all[i].corr \in now
      BY DEF LastWordHolds
    <2>1. CASE i = Len(q) + 1
      BY <1>1, <1>2, <2>1
    <2>2. CASE i \in DOMAIN q
      <3>1. all[i] = q[i]
        BY <1>2, <2>2
      <3>2. CASE q[i].corr = c
        <4>1. Len(q) + 1 \in DOMAIN all /\ Len(q) + 1 > i
          BY <1>2, <2>2
        <4> QED
          BY <1>1, <1>2, <3>1, <3>2, <4>1
      <3>3. CASE q[i].corr # c
        <4>1. q[i].corr \in now <=> q[i].corr \in deleted
          BY <3>3
        <4>2. CASE \E j \in DOMAIN q : j > i /\ q[j].kind = "visibility" /\ q[j].corr = q[i].corr
          BY <1>2, <3>1, <4>2
        <4> QED
          BY <2>2, <3>1, <4>1, <4>2 DEF LastWordHolds
      <3> QED
        BY <3>2, <3>3
    <2> QED
      BY <1>2, <2>1, <2>2
  <1>4. SpokenOf(all, c)
    BY <1>1, <1>2 DEF SpokenOf
  <1>5. \A d : SpokenOf(q, d) => SpokenOf(all, d)
    BY <1>2 DEF SpokenOf
  <1> QED
    BY <1>3, <1>4, <1>5 DEF all, e

-----------------------------------------------------------------------------
\* The journal as it was holds the same of what is deleted.
LEMMA JournalStays ==
  UNCHANGED <<journal, gone>> => Feed!Newest' = Feed!Newest /\ JournalOK' = JournalOK
  BY DEF Feed!Newest, JournalOK, Feed!ToSet

\* An incident is opened, or was: of the deleted ones, an answer holds no others.
LEMMA JournalGrows ==
  ASSUME JournalOK, UNCHANGED gone, NEW c \in Links,
         journal' = IF c \in Feed!ToSet(journal) THEN journal ELSE Append(journal, c)
  PROVE  JournalOK' /\ \A d \in gone : d \in Feed!Newest' => d \in Feed!Newest
  <1>1. CASE c \in Feed!ToSet(journal)
    BY <1>1, JournalStays
  <1>2. CASE c \notin Feed!ToSet(journal)
    <2>1. journal \in Seq(Links) /\ gone \subseteq Feed!ToSet(journal) /\ journal' = Append(journal, c)
      BY <1>2 DEF JournalOK
    <2>2. /\ journal' \in Seq(Links) /\ Len(journal) \in Nat /\ Len(journal') = Len(journal) + 1
          /\ DOMAIN journal = 1..Len(journal) /\ DOMAIN journal' = 1..(Len(journal) + 1)
          /\ \A i \in 1..Len(journal) : journal'[i] = journal[i]
          /\ journal'[Len(journal) + 1] = c
      BY <2>1
    <2>3. Feed!ToSet(journal) \subseteq Feed!ToSet(journal')
      BY <2>2 DEF Feed!ToSet
    <2>4. ASSUME NEW d \in gone, d \in Feed!Newest'
          PROVE  d \in Feed!Newest
      <3>1. PICK i \in 1..(Len(journal) + 1) : d = journal'[i] /\ Len(journal) + 1 - i < Incidents
        BY <2>2, <2>4 DEF Feed!Newest
      <3>2. i # Len(journal) + 1
        BY <1>2, <2>1, <2>2, <3>1
      <3>3. i \in 1..Len(journal) /\ Len(journal) - i < Incidents
        BY <2>2, <3>1, <3>2, FeedAssumption
      <3> QED
        BY <2>2, <3>1, <3>3 DEF Feed!Newest
    <2>5. JournalOK'
      BY <2>1, <2>2, <2>3 DEF JournalOK, Feed!ToSet
    <2> QED
      BY <2>4, <2>5
  <1> QED
    BY <1>1, <1>2

\* An atom goes out to the page.
LEMMA AtomKeeps ==
  ASSUME FeedInv, NEW a, Feed!Send(Feed!AtomEvent(a)), UNCHANGED <<gone, feedWire, hideAsks, hidden, reloads>>,
         JournalOK', \A d \in gone : d \in Feed!Newest' => d \in Feed!Newest
  PROVE  FeedInv'
  <1> DEFINE e == Feed!AtomEvent(a)
             all == Append(queue, e)
  <1>0. /\ IsASeq(queue) /\ feedWire \in {"down", "open", "served"} /\ crossed \in BOOLEAN
        /\ LastWordHolds(queue, gone) /\ WordIsComing /\ (feedWire # "served" => queue = <<>>)
    BY DEF FeedInv, ChannelOK
  <1>1. e.kind # "visibility"
    BY DEF Feed!AtomEvent
  <1> HIDE DEF e
  <1>2. Feed!Send(e)
    BY DEF e
  <1>3. /\ feedWire # "served" => queue' = queue
        /\ feedWire = "served" => \E k \in {0, 1} :
             /\ Rest(queue', all, k)
             /\ k = 1 /\ all[1].kind = "visibility" => crossed'
        /\ crossed' \in BOOLEAN /\ (crossed => crossed')
    BY <1>0, <1>2, SentIs
  <1>4. LastWordHolds(all, gone) /\ \A c : SpokenOf(queue, c) => SpokenOf(all, c)
    BY <1>0, <1>1, AtomSpeaksNot
  <1> HIDE DEF all
  <1>5. IsASeq(queue') /\ LastWordHolds(queue', gone)
        /\ (crossed' \/ \A c : SpokenOf(queue, c) => SpokenOf(queue', c))
    <2>1. CASE feedWire # "served"
      BY <1>0, <1>3, <2>1
    <2>2. CASE feedWire = "served"
      <3>1. PICK k \in {0, 1} : Rest(queue', all, k) /\ (k = 1 /\ all[1].kind = "visibility" => crossed')
        BY <1>3, <2>2
      <3>2. LastWordHolds(queue', gone)
            /\ \A c : SpokenOf(all, c) /\ (k = 1 => ~(all[1].kind = "visibility" /\ all[1].corr = c))
                        => SpokenOf(queue', c)
        BY <1>4, <3>1, RestSpeaks
      <3>3. IsASeq(queue')
        BY <3>1 DEF Rest
      <3> QED
        BY <1>4, <3>1, <3>2, <3>3
    <2> QED
      BY <2>1, <2>2
  <1>6. ChannelOK'
    BY <1>0, <1>3, <1>5 DEF FeedInv, ChannelOK
  <1>7. WordIsComing'
    <2>1. ASSUME NEW d, Right(d) PROVE Right(d)'
      BY <2>1 DEF Right
    <2>2. CASE crossed \/ feedWire = "down" \/ Asked
      BY <1>0, <1>3, <2>2 DEF WordIsComing, Asked
    <2>3. CASE \A d : SpokenOf(queue, d) \/ Right(d)
      <3>1. crossed' \/ \A d : SpokenOf(queue', d) \/ Right(d)'
        BY <1>5, <2>1, <2>3
      <3>2. \A d : SpokenOf(queue', d) = SpokenOf(queue, d)'
        BY DEF SpokenOf
      <3> QED
        BY <3>1, <3>2 DEF WordIsComing
    <2> QED
      BY <1>0, <2>2, <2>3 DEF WordIsComing
  <1> QED
    BY <1>5, <1>6, <1>7 DEF FeedInv

\* Someone deletes or restores an incident.
LEMMA ChangeKeeps ==
  ASSUME FeedInv, NEW c, Feed!ChangeGone(c)
  PROVE  FeedInv'
  <1> DEFINE e == Feed!HideEvent(c, c \notin gone)
             all == Append(queue, e)
  <1>0. /\ IsASeq(queue) /\ feedWire \in {"down", "open", "served"} /\ crossed \in BOOLEAN
        /\ LastWordHolds(queue, gone) /\ WordIsComing /\ (feedWire # "served" => queue = <<>>)
    BY DEF FeedInv, ChannelOK
  <1>1. /\ gone' = IF c \in gone THEN gone \ {c} ELSE gone \cup {c}
        /\ Feed!Send(e) /\ UNCHANGED <<journal, feedWire, hideAsks, hidden, reloads>>
        /\ c \in Feed!ToSet(journal)
    BY DEF Feed!ChangeGone, Feed!page, Feed!bounds
  <1>9. JournalOK'
    BY <1>1 DEF FeedInv, JournalOK, Feed!ToSet
  <1>2. LastWordHolds(all, gone') /\ SpokenOf(all, c) /\ \A d : SpokenOf(queue, d) => SpokenOf(all, d)
    BY <1>0, <1>1, ChangeSpeaks
  <1>3. e.kind = "visibility"
    BY DEF Feed!HideEvent
  <1> HIDE DEF e
  <1>4. /\ feedWire # "served" => queue' = queue
        /\ feedWire = "served" => \E k \in {0, 1} :
             /\ Rest(queue', all, k)
             /\ k = 1 /\ all[1].kind = "visibility" => crossed'
        /\ crossed' \in BOOLEAN /\ (crossed => crossed')
        /\ feedWire = "open" /\ (\A s \in Feed!Slots : hideAsks[s] # <<"asked">>) => crossed'
    BY <1>0, <1>1, <1>3, SentIs
  <1> HIDE DEF all
  <1>5. IsASeq(queue') /\ LastWordHolds(queue', gone')
        /\ (feedWire # "served" \/ crossed' \/ (SpokenOf(queue', c)
              /\ \A d : SpokenOf(queue, d) => SpokenOf(queue', d)))
    <2>1. CASE feedWire # "served"
      <3>1. queue' = <<>>
        BY <1>0, <1>4, <2>1
      <3> QED
        BY <1>0, <2>1, <3>1 DEF LastWordHolds
    <2>2. CASE feedWire = "served"
      <3>1. PICK k \in {0, 1} : Rest(queue', all, k) /\ (k = 1 /\ all[1].kind = "visibility" => crossed')
        BY <1>4, <2>2
      <3>2. LastWordHolds(queue', gone')
            /\ \A d : SpokenOf(all, d) /\ (k = 1 => ~(all[1].kind = "visibility" /\ all[1].corr = d))
                        => SpokenOf(queue', d)
        BY <1>2, <3>1, RestSpeaks
      <3>3. IsASeq(queue')
        BY <3>1 DEF Rest
      <3> QED
        BY <1>2, <3>1, <3>2, <3>3
    <2> QED
      BY <2>1, <2>2
  <1>6. ChannelOK'
    BY <1>0, <1>1, <1>4, <1>5 DEF FeedInv, ChannelOK
  <1>7. WordIsComing'
    <2>1. CASE feedWire = "down"
      BY <1>1, <2>1 DEF WordIsComing
    <2>2. CASE feedWire = "open"
      <3>1. crossed' \/ \E s \in Feed!Slots : hideAsks[s] = <<"asked">>
        BY <1>4, <2>2
      <3>2. <<"asked">> # <<>>
        OBVIOUS
      <3>3. crossed' \/ Asked'
        BY <1>1, <3>1, <3>2 DEF Asked
      <3> QED
        BY <3>3 DEF WordIsComing
    <2>3. CASE feedWire = "served"
      <3>1. Feed!Newest' = Feed!Newest
        BY <1>1 DEF Feed!Newest
      <3>2. \A d : d # c /\ Right(d) => Right(d)'
        BY <1>1, <3>1 DEF Right
      <3>3. \A d : SpokenOf(queue', d) = SpokenOf(queue, d)'
        BY DEF SpokenOf
      <3>4. CASE crossed \/ Asked
        BY <1>0, <1>1, <1>4, <3>4 DEF WordIsComing, Asked
      <3>5. CASE \A d : SpokenOf(queue, d) \/ Right(d)
        <4>1. crossed' \/ \A d : SpokenOf(queue', d) \/ Right(d)'
          BY <1>5, <2>3, <3>2, <3>5
        <4> QED
          BY <3>3, <4>1 DEF WordIsComing
      <3> QED
        BY <1>0, <2>3, <3>4, <3>5 DEF WordIsComing
    <2> QED
      BY <1>0, <2>1, <2>2, <2>3
  <1> QED
    BY <1>5, <1>6, <1>7, <1>9 DEF FeedInv

\* Nothing happens to the channel or to what is hidden.
LEMMA AsksStay ==
  ASSUME FeedInv, UNCHANGED <<journal, gone, feedWire, queue, hidden, reloads>>, crossed' \in BOOLEAN, crossed => crossed',
         hideAsks' = [s \in Feed!Slots |-> hideAsks'[s]], Asked => Asked' \/ crossed'
  PROVE  FeedInv'
  BY JournalStays DEF FeedInv, ChannelOK, WordIsComing, Right

\* The page asks for the backlog and for what is deleted.
LEMMA RefreshAsks ==
  ASSUME FeedInv, Feed!RefreshNotifications
  PROVE  Asked' /\ hideAsks' = [s \in Feed!Slots |-> hideAsks'[s]]
  <1>1. PICK s \in Feed!Slots : hideAsks' = [hideAsks EXCEPT ![s] = <<"asked">>]
    BY DEF Feed!RefreshNotifications
  <1>2. hideAsks = [x \in Feed!Slots |-> hideAsks[x]]
    BY DEF FeedInv, ChannelOK
  <1>3. hideAsks'[s] = <<"asked">> /\ hideAsks' = [x \in Feed!Slots |-> hideAsks'[x]]
    BY <1>1, <1>2, Zenon
  <1>4. <<"asked">> # <<>>
    OBVIOUS
  <1> QED
    BY <1>3, <1>4 DEF Asked

\* Answers and failures of the page's requests.
LEMMA AnswersKeep ==
  ASSUME FeedInv, NEW s \in Feed!Slots,
         Feed!AnswerBacklog(s) \/ Feed!AnswerDeleted(s) \/ Feed!TakeBacklog(s) \/ Feed!TakeDeleted(s) \/ Feed!AskFails(s)
  PROVE  FeedInv'
  <1>0. hideAsks = [x \in Feed!Slots |-> hideAsks[x]] /\ crossed \in BOOLEAN
    BY DEF FeedInv, ChannelOK
  <1>1. CASE Feed!AnswerBacklog(s) \/ Feed!TakeBacklog(s)
    <2>1. UNCHANGED <<journal, gone, feedWire, queue, hidden, reloads, crossed, hideAsks>>
      BY <1>1 DEF Feed!AnswerBacklog, Feed!TakeBacklog, Feed!host, Feed!page, Feed!bounds, Feed!ghosts
    <2>2. Asked <=> Asked'
      BY <2>1 DEF Asked
    <2> QED
      BY <1>0, <2>1, <2>2, AsksStay
  <1>2. CASE Feed!AnswerDeleted(s)
    <2>1. /\ UNCHANGED <<journal, gone, feedWire, queue, hidden, reloads, crossed>>
          /\ hideAsks' = [hideAsks EXCEPT ![s] = <<"rows", gone \cap Feed!Newest>>]
      BY <1>2 DEF Feed!AnswerDeleted, Feed!host, Feed!page, Feed!bounds, Feed!ghosts
    <2>2. hideAsks'[s] = <<"rows", gone \cap Feed!Newest>> /\ hideAsks' = [x \in Feed!Slots |-> hideAsks'[x]]
      BY <1>0, <2>1, Zenon
    <2>3. <<"rows", gone \cap Feed!Newest>> # <<>>
      OBVIOUS
    <2>4. Asked'
      BY <2>2, <2>3 DEF Asked
    <2> QED
      BY <1>0, <2>1, <2>2, <2>4, AsksStay
  <1>3. CASE Feed!TakeDeleted(s)
    <2>1. /\ UNCHANGED <<journal, gone, feedWire, queue, reloads>>
          /\ hideAsks' = [hideAsks EXCEPT ![s] = <<>>]
          /\ hidden' = hideAsks[s][2] /\ crossed' = (crossed \/ ~Feed!IsHidden(hideAsks[s][2]))
      BY <1>3 DEF Feed!TakeDeleted, Feed!host, Feed!bounds
    <2>2. hideAsks' = [x \in Feed!Slots |-> hideAsks'[x]]
      BY <1>0, <2>1, Zenon
    <2>3. crossed' \/ \A c : Right(c)'
      BY <2>1, JournalStays DEF Right, Feed!IsHidden
    <2>4. crossed' \in BOOLEAN
      BY <1>0, <2>1
    <2> QED
      BY <2>1, <2>2, <2>3, <2>4, JournalStays DEF FeedInv, ChannelOK, WordIsComing
  <1>4. CASE Feed!AskFails(s)
    <2>1. /\ UNCHANGED <<journal, gone, feedWire, queue, hidden, reloads>>
          /\ \/ UNCHANGED <<hideAsks, crossed>>
             \/ hideAsks' = [hideAsks EXCEPT ![s] = <<>>] /\ crossed' = TRUE
      BY <1>4 DEF Feed!AskFails, Feed!host, Feed!page, Feed!bounds
    <2>2. hideAsks' = [x \in Feed!Slots |-> hideAsks'[x]]
      BY <1>0, <2>1, Zenon
    <2>3. Asked => Asked' \/ crossed'
      BY <2>1 DEF Asked
    <2> QED
      BY <1>0, <2>1, <2>2, <2>3, AsksStay
  <1> QED
    BY <1>1, <1>2, <1>3, <1>4

\* The page takes an event from its socket.
LEMMA EventsKeep ==
  ASSUME FeedInv, Feed!TakeAtom \/ Feed!TakeVisibility
  PROVE  FeedInv'
  <1>0. /\ IsASeq(queue) /\ crossed \in BOOLEAN /\ reloads \in Nat /\ LastWordHolds(queue, gone) /\ WordIsComing
        /\ hideAsks = [x \in Feed!Slots |-> hideAsks[x]]
    BY DEF FeedInv, ChannelOK
  <1>1. /\ feedWire = "served" /\ queue # <<>> /\ queue' = Tail(queue)
        /\ UNCHANGED <<journal, gone, feedWire, crossed, reloads>>
    BY DEF Feed!TakeAtom, Feed!TakeVisibility, Feed!host, Feed!bounds, Feed!ghosts
  <1>2. /\ Rest(queue', queue, 1) /\ Head(queue) = queue[1] /\ Len(queue) \in Nat \ {0}
        /\ DOMAIN queue = 1..Len(queue) /\ IsASeq(queue')
    BY <1>0, <1>1, Tailed DEF Rest
  <1>3. LastWordHolds(queue', gone)
        /\ \A c : SpokenOf(queue, c) /\ ~(queue[1].kind = "visibility" /\ queue[1].corr = c)
                    => SpokenOf(queue', c)
    BY <1>0, <1>2, RestSpeaks
  <1>4. CASE Feed!TakeAtom
    <2>1. queue[1].kind # "visibility" /\ UNCHANGED <<hidden, hideAsks>>
      BY <1>2, <1>4 DEF Feed!TakeAtom
    <2> QED
      BY <1>0, <1>1, <1>2, <1>3, <2>1, JournalStays DEF FeedInv, ChannelOK, WordIsComing, Asked, Right
  <1>5. CASE Feed!TakeVisibility
    <2> DEFINE e == queue[1]
    <2>1. /\ e.kind = "visibility"
          /\ IF e.deleted THEN hidden' = hidden \cup {e.corr} /\ UNCHANGED <<feedAsks, hideAsks>>
             ELSE hidden' = hidden \ {e.corr} /\ Feed!RefreshNotifications
      BY <1>2, <1>5 DEF Feed!TakeVisibility
    <2>2. CASE ~e.deleted
      <3>1. Asked' /\ hideAsks' = [s \in Feed!Slots |-> hideAsks'[s]]
        BY <2>1, <2>2, RefreshAsks
      <3> QED
        BY <1>0, <1>1, <1>2, <1>3, <3>1, JournalStays DEF FeedInv, ChannelOK, WordIsComing
    <2>3. CASE e.deleted
      <3>1. hidden' = hidden \cup {e.corr} /\ UNCHANGED hideAsks
        BY <2>1, <2>3
      <3>2. SpokenOf(queue', e.corr) \/ e.corr \in gone
        <4>1. CASE \E j \in DOMAIN queue : j > 1 /\ queue[j].kind = "visibility" /\ queue[j].corr = e.corr
          <5>1. PICK j \in DOMAIN queue : j > 1 /\ queue[j].kind = "visibility" /\ queue[j].corr = e.corr
            BY <4>1
          <5>2. j - 1 \in DOMAIN queue' /\ queue'[j - 1] = queue[j]
            BY <1>2, <5>1 DEF Rest
          <5> QED
            BY <5>1, <5>2 DEF SpokenOf
        <4>2. CASE ~ \E j \in DOMAIN queue : j > 1 /\ queue[j].kind = "visibility" /\ queue[j].corr = e.corr
          <5>1. 1 \in DOMAIN queue
            BY <1>2
          <5>2. e.deleted <=> e.corr \in gone
            BY <1>0, <2>1, <4>2, <5>1 DEF LastWordHolds
          <5> QED
            BY <2>3, <5>2
        <4> QED
          BY <4>1, <4>2
      <3>3. ASSUME \A c : SpokenOf(queue, c) \/ Right(c)
            PROVE  \A c : SpokenOf(queue', c) \/ Right(c)'
        <4> SUFFICES ASSUME NEW c PROVE SpokenOf(queue', c) \/ Right(c)'
          OBVIOUS
        <4>1. CASE c = e.corr
          BY <1>1, <3>1, <3>2, <4>1 DEF Right
        <4>2. CASE c # e.corr
          BY <1>1, <1>3, <3>1, <3>3, <4>2, JournalStays DEF Right
        <4> QED
          BY <4>1, <4>2
      <3>4. WordIsComing'
        <4>1. \A c : SpokenOf(queue', c) = SpokenOf(queue, c)'
          BY DEF SpokenOf
        <4>2. CASE crossed \/ Asked
          BY <1>1, <3>1, <4>2 DEF WordIsComing, Asked
        <4>3. CASE \A c : SpokenOf(queue, c) \/ Right(c)
          BY <3>3, <4>1, <4>3 DEF WordIsComing
        <4> QED
          BY <1>0, <1>1, <4>2, <4>3 DEF WordIsComing
      <3>5. ChannelOK'
        BY <1>0, <1>1, <1>2, <3>1 DEF ChannelOK
      <3> QED
        BY <1>1, <1>3, <3>4, <3>5, JournalStays DEF FeedInv
    <2> QED
      BY <2>2, <2>3
  <1> QED
    BY <1>4, <1>5

\* The socket comes and goes, and the page with it.
LEMMA SocketKeeps ==
  ASSUME FeedInv, Feed!Open \/ Feed!Serve \/ Feed!Drop \/ Feed!Reload
  PROVE  FeedInv'
  <1>0. /\ IsASeq(queue) /\ feedWire \in {"down", "open", "served"} /\ (feedWire # "served" => queue = <<>>)
        /\ crossed \in BOOLEAN /\ reloads \in Nat /\ LastWordHolds(queue, gone) /\ WordIsComing
        /\ hideAsks = [x \in Feed!Slots |-> hideAsks[x]]
    BY DEF FeedInv, ChannelOK
  <1>1. IsASeq(<<>>) /\ \A g : LastWordHolds(<<>>, g)
    BY DEF IsASeq, LastWordHolds
  <1>2. CASE Feed!Open
    <2>1. feedWire = "down" /\ feedWire' = "open" /\ Feed!RefreshNotifications
          /\ UNCHANGED <<journal, gone, queue, hidden, crossed, reloads>>
      BY <1>2 DEF Feed!Open, Feed!host, Feed!page, Feed!bounds, Feed!ghosts
    <2>2. Asked' /\ hideAsks' = [s \in Feed!Slots |-> hideAsks'[s]]
      BY <2>1, RefreshAsks
    <2> QED
      BY <1>0, <2>1, <2>2, JournalStays DEF FeedInv, ChannelOK, WordIsComing
  <1>3. CASE Feed!Serve
    <2>1. feedWire = "open" /\ feedWire' = "served" /\ UNCHANGED <<journal, gone, queue, hidden, crossed, reloads, hideAsks>>
      BY <1>3 DEF Feed!Serve, Feed!host, Feed!page, Feed!bounds, Feed!ghosts
    <2> QED
      BY <1>0, <2>1, JournalStays DEF FeedInv, ChannelOK, WordIsComing, Asked, Right
  <1>4. CASE Feed!Drop
    <2>1. feedWire' = "down" /\ queue' = <<>> /\ UNCHANGED <<journal, gone, crossed, reloads, hideAsks>>
      BY <1>4 DEF Feed!Drop, Feed!host, Feed!ghosts
    <2> QED
      BY <1>0, <1>1, <2>1, JournalStays DEF FeedInv, ChannelOK, WordIsComing
  <1>5. CASE Feed!Reload
    <2>1. /\ feedWire' = "down" /\ queue' = <<>> /\ reloads' = reloads + 1 /\ UNCHANGED <<journal, gone, crossed>>
          /\ feedAsks' = [s \in Feed!Slots |-> IF s = 1 THEN <<"asked">> ELSE <<>>] /\ hideAsks' = feedAsks'
      BY <1>5 DEF Feed!Reload, Feed!host
    <2>2. hideAsks' = [s \in Feed!Slots |-> hideAsks'[s]]
      BY <2>1, Zenon
    <2> QED
      BY <1>0, <1>1, <2>1, <2>2, JournalStays DEF FeedInv, ChannelOK, WordIsComing
  <1> QED
    BY <1>2, <1>3, <1>4, <1>5

\* The rest touches neither the channel nor what is hidden.
LEMMA PageKeeps ==
  ASSUME FeedInv,
         \/ \E a \in posts : Feed!PostFails(a)
         \/ \E c \in Requests : Feed!Age(c)
         \/ Feed!Settled \/ Feed!ProbeOk \/ Feed!ProbeFails
         \/ (\E id \in Feed!Ids(Feed!display) : Feed!MarkRead(id)) \/ Feed!MarkAllRead \/ Feed!SetCollapsePhaseTicks
         \/ UNCHANGED Feed!vars
  PROVE  FeedInv'
  <1>1. UNCHANGED <<journal, gone, feedWire, queue, hidden, reloads, crossed, hideAsks>>
    BY DEF Feed!PostFails, Feed!Age, Feed!Settled, Feed!ProbeOk, Feed!ProbeFails, Feed!MarkRead, Feed!MarkAllRead, Feed!SetCollapsePhaseTicks,
           Feed!vars, Feed!host, Feed!net, Feed!page, Feed!bounds, Feed!ghosts
  <1>2. (Asked <=> Asked') /\ crossed' \in BOOLEAN /\ hideAsks' = [s \in Feed!Slots |-> hideAsks'[s]]
    BY <1>1 DEF Asked, FeedInv, ChannelOK
  <1> QED
    BY <1>1, <1>2, AsksStay

\* The host issues an atom.
LEMMA IssuesKeep ==
  ASSUME FeedInv, NEW c, (c \in Links /\ Feed!IssueLink(c)) \/ Feed!IssueFatal(c) \/ Feed!PostArrives(c)
  PROVE  FeedInv'
  <1>1. UNCHANGED <<gone, feedWire, hideAsks, hidden, reloads>>
    BY DEF Feed!IssueLink, Feed!IssueFatal, Feed!PostArrives, Feed!page, Feed!bounds
  <1>2. PICK a : Feed!Send(Feed!AtomEvent(a))
    BY DEF Feed!IssueLink, Feed!IssueFatal, Feed!PostArrives, Feed!Issue
  <1>3. JournalOK' /\ \A d \in gone : d \in Feed!Newest' => d \in Feed!Newest
    <2>1. CASE c \in Links /\ Feed!IssueLink(c)
      BY <1>1, <2>1, JournalGrows DEF FeedInv, Feed!IssueLink
    <2>2. CASE Feed!IssueFatal(c) \/ Feed!PostArrives(c)
      <3>1. UNCHANGED journal
        BY <2>2 DEF Feed!IssueFatal, Feed!PostArrives
      <3> QED
        BY <1>1, <3>1, JournalStays DEF FeedInv
    <2> QED
      BY <2>1, <2>2
  <1> QED
    BY <1>1, <1>2, <1>3, AtomKeeps

\* At first nothing is deleted or hidden.
LEMMA InitFeed ==
  ASSUME Feed!Init
  PROVE  FeedInv
  <1>1. IsASeq(<<>>) /\ LastWordHolds(<<>>, gone)
    BY DEF IsASeq, LastWordHolds
  <1>2. /\ gone = {} /\ feedWire = "down" /\ queue = <<>> /\ hidden = {} /\ crossed = FALSE /\ reloads = 0
        /\ hideAsks = [s \in Feed!Slots |-> IF s = 1 THEN <<"asked">> ELSE <<>>]
    BY DEF Feed!Init
  <1>3. hideAsks = [s \in Feed!Slots |-> hideAsks[s]]
    BY <1>2, Zenon
  <1>4. JournalOK
    BY <1>2, ScenesAssumption DEF JournalOK, Feed!Init
  <1> QED
    BY <1>1, <1>2, <1>3, <1>4 DEF FeedInv, ChannelOK, WordIsComing

\* The feed's inductive invariant: the last word in the socket's channel on an incident is the
\* journal's, and what the page has wrong is on its way to it, unless an answer crossed a change
\* (NotificationBus and the host's broadcaster).
THEOREM FeedInvariant == Feed!Spec => []FeedInv
  <1>1. FeedInv /\ [Feed!Next]_(Feed!vars) => FeedInv'
    <2> SUFFICES ASSUME FeedInv, [Feed!Next]_(Feed!vars) PROVE FeedInv'
      OBVIOUS
    <2>1. ASSUME NEW c, (c \in Links /\ Feed!IssueLink(c)) \/ Feed!ChangeGone(c) \/ Feed!IssueFatal(c)
          PROVE  FeedInv'
      BY <2>1, IssuesKeep, ChangeKeeps
    <2>2. ASSUME NEW s \in Feed!Slots,
                 Feed!AnswerBacklog(s) \/ Feed!AnswerDeleted(s) \/ Feed!TakeBacklog(s) \/ Feed!TakeDeleted(s) \/ Feed!AskFails(s)
          PROVE  FeedInv'
      BY <2>2, AnswersKeep
    <2>3. ASSUME NEW a \in posts, Feed!PostArrives(a)
          PROVE  FeedInv'
      BY <2>3, IssuesKeep
    <2>4. CASE Feed!TakeAtom \/ Feed!TakeVisibility
      BY <2>4, EventsKeep
    <2>5. CASE Feed!Open \/ Feed!Serve \/ Feed!Drop \/ Feed!Reload
      BY <2>5, SocketKeeps
    <2>6. CASE \/ \E a \in posts : Feed!PostFails(a)
               \/ \E c \in Requests : Feed!Age(c)
               \/ Feed!Settled \/ Feed!ProbeOk \/ Feed!ProbeFails
               \/ (\E id \in Feed!Ids(Feed!display) : Feed!MarkRead(id)) \/ Feed!MarkAllRead \/ Feed!SetCollapsePhaseTicks
               \/ UNCHANGED Feed!vars
      BY <2>6, PageKeeps
    <2> QED
      BY <2>1, <2>2, <2>3, <2>4, <2>5, <2>6 DEF Feed!Next
  <1> QED
    BY <1>1, InitFeed, PTL DEF Feed!Spec

\* With no request and no word on its way, the page has nothing wrong.
LEMMA NothingAskedIsTrue ==
  ASSUME FeedInv
  PROVE  Feed!HiddenIsTrue
  <1> SUFFICES ASSUME feedWire = "served", ~crossed,
                      \A i \in DOMAIN queue : queue[i].kind # "visibility",
                      \A s \in Feed!Slots : hideAsks[s] = <<>>
               PROVE  Feed!IsHidden(hidden)
    BY DEF Feed!HiddenIsTrue
  <1>1. \A c : Right(c)
    BY DEF FeedInv, WordIsComing, Asked, SpokenOf
  <1> QED
    BY <1>1 DEF Right, Feed!IsHidden

-----------------------------------------------------------------------------
\* Every change of the ring keeps the marks of what is in it.
LEMMA EmitKeeps ==
  ASSUME NEW r, NEW ids, readIds \subseteq ids, Feed!Emit(r, ids)
  PROVE  readIds \cap Feed!Ids(raw') \subseteq readIds'
  BY DEF Feed!Emit, Feed!PruneReadIds

\* No step but a reload takes a mark from an atom in the ring.
LEMMA ReadIsKept ==
  ASSUME FeedInv, [Feed!Next]_(Feed!vars)
  PROVE  Feed!ReadKept
  <1>1. CASE UNCHANGED readIds
    BY <1>1 DEF Feed!ReadKept
  <1>2. CASE \E r, ids : readIds \subseteq ids /\ Feed!Emit(r, ids)
    BY <1>2, EmitKeeps DEF Feed!ReadKept
  <1>3. CASE Feed!Reload
    BY <1>3 DEF Feed!Reload, Feed!ReadKept, FeedInv, ChannelOK
  <1>4. ASSUME NEW c, Feed!IssueLink(c) \/ Feed!ChangeGone(c) \/ Feed!IssueFatal(c) \/ Feed!Age(c) \/ Feed!PostArrives(c) \/ Feed!PostFails(c)
        PROVE  UNCHANGED readIds
    BY <1>4 DEF Feed!IssueLink, Feed!ChangeGone, Feed!IssueFatal, Feed!Age, Feed!PostArrives, Feed!PostFails, Feed!page
  <1>5. ASSUME NEW s, Feed!AnswerBacklog(s) \/ Feed!AnswerDeleted(s) \/ Feed!TakeDeleted(s) \/ Feed!AskFails(s)
        PROVE  UNCHANGED readIds
    BY <1>5 DEF Feed!AnswerBacklog, Feed!AnswerDeleted, Feed!TakeDeleted, Feed!AskFails, Feed!page
  <1>6. ASSUME NEW s, Feed!TakeBacklog(s)
        PROVE  \E r : Feed!Emit(r, readIds)
    BY <1>6 DEF Feed!TakeBacklog
  <1>7. CASE Feed!TakeVisibility \/ Feed!Open \/ Feed!Serve \/ Feed!ProbeFails \/ UNCHANGED Feed!vars
    <2>1. UNCHANGED readIds
      BY <1>7 DEF Feed!TakeVisibility, Feed!Open, Feed!Serve, Feed!ProbeFails, Feed!vars, Feed!page
    <2> QED
      BY <1>1, <2>1
  <1>8. CASE Feed!TakeAtom \/ Feed!Drop \/ Feed!Settled \/ Feed!ProbeOk \/ Feed!SetCollapsePhaseTicks
    <2>1. UNCHANGED readIds \/ \E r : Feed!Emit(r, readIds)
      BY <1>8 DEF Feed!TakeAtom, Feed!Drop, Feed!Settled, Feed!ProbeOk, Feed!SetCollapsePhaseTicks
    <2> QED
      BY <1>1, <1>2, <2>1
  <1>9. ASSUME NEW id, Feed!MarkRead(id) \/ Feed!MarkAllRead
        PROVE  \E r, ids : readIds \subseteq ids /\ Feed!Emit(r, ids)
    BY <1>9 DEF Feed!MarkRead, Feed!MarkAllRead
  <1> QED
    BY <1>1, <1>2, <1>3, <1>4, <1>5, <1>6, <1>7, <1>8, <1>9 DEF Feed!Next

-----------------------------------------------------------------------------
(* Sequences in order. *)

\* A strict total order of 1..n, as a set of pairs.
IsOrder(B, n) ==
  /\ \A i \in 1..n : <<i, i>> \notin B
  /\ \A i, j \in 1..n : i # j => <<i, j>> \in B \/ <<j, i>> \in B
  /\ \A i, j, k \in 1..n : <<i, j>> \in B /\ <<j, k>> \in B => <<i, k>> \in B

\* The feed counts as everyone does.
LEMMA SameCount ==
  ASSUME NEW S
  PROVE  Feed!Cardinality(S) = Cardinality(S)
  <1>1. \A T : Feed!IsFiniteSet(T) = IsFiniteSet(T)
    BY Zenon DEF Feed!IsFiniteSet, IsFiniteSet
  <1> QED
    BY <1>1, Zenon DEF Feed!Cardinality, Cardinality

\* Those before one are fewer than those before a later one.
LEMMA FewerBefore ==
  ASSUME NEW n \in Nat, NEW B, IsOrder(B, n), NEW i \in 1..n
  PROVE  LET before(x) == {j \in 1..n : <<j, x>> \in B}
         IN  /\ Cardinality(before(i)) \in 0..(n - 1)
             /\ \A j \in 1..n : <<i, j>> \in B => Cardinality(before(i)) < Cardinality(before(j))
  <1> DEFINE before(x) == {j \in 1..n : <<j, x>> \in B}
  <1>1. IsFiniteSet(1..n) /\ Cardinality(1..n) = n
    BY FS_Interval
  <1>2. \A x : IsFiniteSet(before(x)) /\ Cardinality(before(x)) \in Nat
    BY <1>1, FS_Subset, FS_CardinalityType
  <1>3. \A j \in 1..n : <<i, j>> \in B => Cardinality(before(i)) < Cardinality(before(j))
    <2> SUFFICES ASSUME NEW j \in 1..n, <<i, j>> \in B PROVE Cardinality(before(i)) < Cardinality(before(j))
      OBVIOUS
    <2>1. before(i) \subseteq before(j) /\ i \in before(j) /\ i \notin before(i)
      BY DEF IsOrder
    <2> HIDE DEF before
    <2>2. Cardinality(before(i)) <= Cardinality(before(j)) /\ Cardinality(before(i)) # Cardinality(before(j))
      BY <1>2, <2>1, FS_Subset
    <2> QED
      BY <1>2, <2>2
  <1>4. Cardinality(before(i)) \in 0..(n - 1)
    <2>1. before(i) \subseteq 1..n /\ i \notin before(i)
      BY DEF IsOrder
    <2> HIDE DEF before
    <2>2. Cardinality(before(i)) <= n /\ Cardinality(before(i)) # n
      BY <1>1, <2>1, FS_Subset
    <2> QED
      BY <1>2, <2>2
  <1> QED
    BY <1>3, <1>4

\* The entries of a sequence, each at the number of those before it.
PlacesOf(s, B) == {<<i, Feed!Cardinality({j \in DOMAIN s : <<j, i>> \in B}) + 1>> : i \in DOMAIN s}
Placed(s, B) == [k \in DOMAIN s |-> s[(CHOOSE p \in PlacesOf(s, B) : p[2] = k)[1]]]
\* They are the entries of the sequence, each once and none before its place.
Sorts(s, n, B, t) ==
  \E p \in [1..n -> 1..n] :
    /\ t = [k \in 1..n |-> s[p[k]]]
    /\ \A i \in 1..n : \E k \in 1..n : p[k] = i
    /\ \A k, l \in 1..n : k < l => <<p[k], p[l]>> \in B

\* Every place is taken by one, and places follow the order.
LEMMA InPlaces ==
  ASSUME NEW n \in Nat, NEW B, IsOrder(B, n), NEW s, DOMAIN s = 1..n
  PROVE  Sorts(s, n, B, Placed(s, B))
  <1> DEFINE before(x) == {j \in 1..n : <<j, x>> \in B}
             rank == [i \in 1..n |-> Cardinality(before(i)) + 1]
             places == {<<i, Feed!Cardinality({j \in DOMAIN s : <<j, i>> \in B}) + 1>> : i \in DOMAIN s}
             at(k) == CHOOSE p \in places : p[2] = k
             p == [k \in 1..n |-> at(k)[1]]
  <1>1. \A i \in 1..n : rank[i] \in 1..n /\ \A j \in 1..n : <<i, j>> \in B => rank[i] < rank[j]
    <2> TAKE i \in 1..n
    <2>1. \A x \in 1..n : Cardinality(before(x)) \in 0..(n - 1)
      BY FewerBefore
    <2>2. \A j \in 1..n : <<i, j>> \in B => Cardinality(before(i)) < Cardinality(before(j))
      BY FewerBefore
    <2> HIDE DEF before
    <2> QED
      BY <2>1, <2>2
  <1>2. rank \in Injection(1..n, 1..n)
    <2>1. rank \in [1..n -> 1..n]
      BY <1>1
    <2>2. \A i, j \in 1..n : rank[i] = rank[j] => i = j
      <3> HIDE DEF rank
      <3> TAKE i, j \in 1..n
      <3>1. <<i, j>> \in B => rank[i] < rank[j]
        BY <1>1
      <3>2. <<j, i>> \in B => rank[j] < rank[i]
        BY <1>1
      <3> QED
        BY <2>1, <3>1, <3>2 DEF IsOrder
    <2> QED
      BY <2>1, <2>2 DEF Injection, IsInjective
  <1>3. rank \in Surjection(1..n, 1..n)
    BY <1>2, FS_Interval, FS_Injection
  <1>4. places = {<<i, rank[i]>> : i \in 1..n}
    <2>1. \A i \in 1..n : rank[i] = Feed!Cardinality({j \in DOMAIN s : <<j, i>> \in B}) + 1
      <3> TAKE i \in 1..n
      <3>1. {j \in DOMAIN s : <<j, i>> \in B} = before(i)
        OBVIOUS
      <3> HIDE DEF before
      <3> QED
        BY <3>1, SameCount
    <2> HIDE DEF rank
    <2> QED
      BY <2>1, Zenon
  <1>5. \A k \in 1..n : p[k] \in 1..n /\ rank[p[k]] = k
    <2> TAKE k \in 1..n
    <2>1. PICK i \in 1..n : rank[i] = k
      BY <1>3 DEF Surjection
    <2>2. at(k) \in places /\ at(k)[2] = k
      <3>1. <<i, rank[i]>> \in places
        BY <1>4
      <3>2. <<i, rank[i]>>[2] = k
        BY <2>1
      <3> HIDE DEF places, rank
      <3> QED
        BY <3>1, <3>2
    <2> HIDE DEF rank, places, at
    <2> QED
      BY <1>4, <2>2
  <1>6. p \in [1..n -> 1..n]
    BY <1>5
  <1>7. \A i \in 1..n : \E k \in 1..n : p[k] = i
    <2> TAKE i \in 1..n
    <2>1. rank[i] \in 1..n
      BY <1>1
    <2>2. p[rank[i]] \in 1..n /\ rank[p[rank[i]]] = rank[i]
      BY <1>5, <2>1
    <2>3. p[rank[i]] = i
      BY <1>2, <2>2 DEF Injection, IsInjective
    <2> QED
      BY <2>1, <2>3
  <1>8. \A k, l \in 1..n : k < l => <<p[k], p[l]>> \in B
    <2> TAKE k, l \in 1..n
    <2> HIDE DEF p, rank
    <2>1. p[k] \in 1..n /\ p[l] \in 1..n /\ rank[p[k]] = k /\ rank[p[l]] = l
      BY <1>5
    <2>2. <<p[l], p[k]>> \in B => l < k
      BY <1>1, <2>1
    <2> QED
      BY <2>1, <2>2 DEF IsOrder
  <1>9. [k \in DOMAIN s |-> s[at(k)[1]]] = [k \in 1..n |-> s[p[k]]]
    OBVIOUS
  <1>10. Placed(s, B) = [k \in DOMAIN s |-> s[at(k)[1]]]
    BY Zenon DEF Placed, PlacesOf
  <1> HIDE DEF p
  <1>11. Placed(s, B) = [k \in 1..n |-> s[p[k]]]
    BY <1>9, <1>10
  <1> QED
    BY <1>6, <1>7, <1>8, <1>11 DEF Sorts

\* The entries of a sequence at some places, in their order.
Picked(s, at) ==
  [k \in 1..Feed!Cardinality(at) |-> s[CHOOSE i \in at : Feed!Cardinality(at \cap 1..i) = k]]

\* They are those entries, each once and none before its place.
InOrder(s, at, t, m) ==
  \E p \in [1..m -> at] :
    /\ t = [k \in 1..m |-> s[p[k]]]
    /\ \A i \in at : \E k \in 1..m : p[k] = i
    /\ \A k, l \in 1..m : k < l => p[k] < p[l]

\* What is picked comes in its order.
LEMMA InTheirOrder ==
  ASSUME NEW n \in Nat, NEW s, DOMAIN s = 1..n, NEW at \in SUBSET (1..n)
  PROVE  \E m \in 0..n : InOrder(s, at, Picked(s, at), m)
  <1> DEFINE m == Cardinality(at)
             count == [i \in at |-> Cardinality(at \cap 1..i)]
             p == [k \in 1..m |-> CHOOSE i \in at : Feed!Cardinality(at \cap 1..i) = k]
  <1>1. IsFiniteSet(at) /\ m \in 0..n
    <2>1. IsFiniteSet(1..n) /\ Cardinality(1..n) = n
      BY FS_Interval
    <2>2. IsFiniteSet(at) /\ Cardinality(at) <= Cardinality(1..n) /\ Cardinality(at) \in Nat
      BY <2>1, FS_Subset, FS_CardinalityType
    <2> QED
      BY <2>1, <2>2
  <1>2. \A i \in at : count[i] \in 1..m /\ \A j \in at : i < j => count[i] < count[j]
    <2> TAKE i \in at
    <2>1. \A x \in at : /\ IsFiniteSet(at \cap 1..x) /\ Cardinality(at \cap 1..x) \in Nat
                        /\ Cardinality(at \cap 1..x) <= m
      BY <1>1, FS_Subset, FS_CardinalityType
    <2>2. Cardinality(at \cap 1..i) # 0
      <3>1. i \in at \cap 1..i
        OBVIOUS
      <3> QED
        BY <2>1, <3>1, FS_EmptySet
    <2>3. \A j \in at : i < j => Cardinality(at \cap 1..i) < Cardinality(at \cap 1..j)
      <3> SUFFICES ASSUME NEW j \in at, i < j PROVE Cardinality(at \cap 1..i) < Cardinality(at \cap 1..j)
        OBVIOUS
      <3>1. at \cap 1..i \subseteq at \cap 1..j /\ j \in at \cap 1..j /\ j \notin at \cap 1..i
        OBVIOUS
      <3>2. Cardinality(at \cap 1..i) <= Cardinality(at \cap 1..j) /\ Cardinality(at \cap 1..i) # Cardinality(at \cap 1..j)
        BY <2>1, <3>1, FS_Subset
      <3>3. Cardinality(at \cap 1..i) \in Nat /\ Cardinality(at \cap 1..j) \in Nat
        BY <2>1
      <3> QED
        BY <3>2, <3>3
    <2>4. /\ Cardinality(at \cap 1..i) \in 1..m
          /\ \A j \in at : i < j => count[i] < count[j]
      <3>1. Cardinality(at \cap 1..i) \in Nat /\ Cardinality(at \cap 1..i) <= m
        BY <2>1
      <3>2. \A j \in at : count[j] = Cardinality(at \cap 1..j)
        OBVIOUS
      <3> HIDE DEF count, m
      <3>3. Cardinality(at \cap 1..i) \in 1..m
        BY <1>1, <2>2, <3>1
      <3>4. \A j \in at : i < j => count[i] < count[j]
        BY <2>3, <3>2
      <3> QED
        BY <3>3, <3>4
    <2> QED
      BY <2>4
  <1>3. count \in Injection(at, 1..m)
    <2>1. count \in [at -> 1..m]
      BY <1>2
    <2>2. \A i, j \in at : count[i] = count[j] => i = j
      <3> HIDE DEF count
      <3> QED
        BY <1>2, <2>1
    <2> QED
      BY <2>1, <2>2 DEF Injection, IsInjective
  <1>4. count \in Surjection(at, 1..m)
    <2>1. IsFiniteSet(1..m) /\ Cardinality(1..m) = m
      BY <1>1, FS_Interval
    <2> QED
      BY <1>3, <2>1, FS_Injection
  <1>5. \A k \in 1..m : p[k] \in at /\ count[p[k]] = k
    <2> TAKE k \in 1..m
    <2>1. PICK i \in at : count[i] = k
      BY <1>4 DEF Surjection
    <2>2. \E x \in at : Feed!Cardinality(at \cap 1..x) = k
      BY <2>1, SameCount
    <2>3. p[k] \in at /\ Feed!Cardinality(at \cap 1..p[k]) = k
      BY <2>2
    <2> HIDE DEF p
    <2>4. p[k] \in at /\ Cardinality(at \cap 1..p[k]) = k
      BY <2>3, SameCount
    <2> QED
      BY <2>4
  <1>6. p \in [1..m -> at]
    BY <1>5
  <1>7. \A i \in at : \E k \in 1..m : p[k] = i
    <2> TAKE i \in at
    <2>1. count[i] \in 1..m
      BY <1>2
    <2>2. p[count[i]] \in at /\ count[p[count[i]]] = count[i]
      BY <1>5, <2>1
    <2>3. p[count[i]] = i
      BY <1>3, <2>2 DEF Injection, IsInjective
    <2> QED
      BY <2>1, <2>3
  <1>8. \A k, l \in 1..m : k < l => p[k] < p[l]
    <2> TAKE k, l \in 1..m
    <2> HIDE DEF p, count
    <2>1. p[k] \in at /\ p[l] \in at /\ count[p[k]] = k /\ count[p[l]] = l
      BY <1>5
    <2>2. p[l] < p[k] => count[p[l]] < count[p[k]]
      BY <1>2, <2>1
    <2>3. p[k] \in 1..n /\ p[l] \in 1..n
      BY <2>1
    <2> QED
      BY <2>1, <2>2, <2>3
  <1>9. [k \in 1..m |-> s[CHOOSE i \in at : Feed!Cardinality(at \cap 1..i) = k]] = [k \in 1..m |-> s[p[k]]]
    OBVIOUS
  <1>10. Feed!Cardinality(at) = m
    BY SameCount
  <1> DEFINE mf == Feed!Cardinality(at)
             tf == Picked(s, at)
  <1>11. mf = m /\ tf = [k \in 1..m |-> s[p[k]]]
    BY <1>9, <1>10, Zenon DEF Picked
  <1>12. /\ m \in 0..n
         /\ p \in [1..m -> at]
         /\ \A i \in at : \E k \in 1..m : p[k] = i
         /\ \A k, l \in 1..m : k < l => p[k] < p[l]
    BY <1>1, <1>6, <1>7, <1>8
  <1> HIDE DEF p, m, mf, tf
  <1>13. InOrder(s, at, tf, m)
    BY <1>11, <1>12 DEF InOrder
  <1> QED
    BY <1>12, <1>13 DEF tf

-----------------------------------------------------------------------------
(* The ring. *)
Rows(r) == {r[i] : i \in DOMAIN r}
AtomFields == {"id", "ts", "severity", "status", "code", "corr", "data"}
\* Stamps are numbers, and finitely many at a time.
IsStamps(T) == T \in SUBSET (Nat \ {0}) /\ IsFiniteSet(T)
\* Ids are the atoms' stamps, and name them.
Stamped(A, T) ==
  /\ IsStamps(T)
  /\ \A a \in A : a.id \in T /\ a.ts = a.id /\ DOMAIN a = AtomFields
  /\ \A a, b \in A : a.id = b.id => a = b
After(T, t) == {u \in T : u > t}
\* So many stamps are later that the ring may hold none as old as this.
Out(T, t) == Cardinality(After(T, t)) >= Limit
Descends(r) == \A i, j \in DOMAIN r : i < j => r[j].id < r[i].id
IsRing(r, A) == r \in Seq(A) /\ Len(r) <= Limit /\ Descends(r)
\* What a ring becomes: rows of some atoms, without those that newer ones push out.
Holds(r, some, T) ==
  /\ Rows(r) \subseteq some
  /\ \A a \in some : a \in Rows(r) \/ Out(T, a.id)

\* Ids are numbers.
LEMMA StampsAre ==
  ASSUME NEW A, NEW T, Stamped(A, T)
  PROVE  \A a \in A : a.id \in T /\ a.id \in Nat \ {0} /\ a.id \in Int /\ a.ts = a.id /\ DOMAIN a = AtomFields
  <1>1. \A a \in A : a.id \in T /\ a.ts = a.id /\ DOMAIN a = AtomFields
    BY DEF Stamped
  <1>2. \A t \in T : t \in Nat \ {0} /\ t \in Int
    BY DEF Stamped, IsStamps
  <1> QED
    BY <1>1, <1>2

\* What newer stamps push out, more of them push out.
LEMMA OutStays ==
  ASSUME NEW T, NEW U, IsStamps(U), T \subseteq U, NEW t, Out(T, t)
  PROVE  Out(U, t)
  <1>1. After(T, t) \subseteq After(U, t) /\ After(U, t) \subseteq U /\ IsFiniteSet(U)
    BY DEF After, IsStamps
  <1>2. IsFiniteSet(After(U, t))
    BY <1>1, FS_Subset
  <1>3. /\ IsFiniteSet(After(T, t)) /\ Cardinality(After(T, t)) <= Cardinality(After(U, t))
        /\ Cardinality(After(T, t)) \in Nat /\ Cardinality(After(U, t)) \in Nat
    BY <1>1, <1>2, FS_Subset, FS_CardinalityType
  <1> QED
    BY <1>3, FeedAssumption DEF Out

\* A set of numbers has a least one.
LEMMA LeastOf ==
  ASSUME NEW S \in SUBSET Nat, S # {}
  PROVE  \E k \in S : \A m \in S : k <= m
  <1> DEFINE R == OpToRel(<, Nat)
  <1>1. \A k, m \in Nat : m < k => <<m, k>> \in R
    BY Zenon DEF OpToRel
  <1>2. IsWellFoundedOn(R, Nat)
    BY NatLessThanWellFounded
  <1> HIDE DEF R
  <1>3. PICK k \in S : \A m \in S : ~ (<<m, k>> \in R)
    BY <1>2, WFMin
  <1>4. k \in Nat /\ \A m \in S : m \in Nat /\ ~(m < k)
    BY <1>1, <1>3
  <1> QED
    BY <1>4

\* The rows of a sequence.
LEMMA RowsOfSeq ==
  ASSUME NEW A, NEW r \in Seq(A)
  PROVE  /\ Len(r) \in Nat /\ DOMAIN r = 1..Len(r) /\ \A i \in 1..Len(r) : r[i] \in A
         /\ Rows(r) \subseteq A
  BY DEF Rows

\* Sorting permutes, the newest first.
LEMMA NewestFirst ==
  ASSUME NEW A, NEW T, Stamped(A, T), NEW s \in Seq(A),
         \A i, j \in DOMAIN s : s[i].id = s[j].id => i = j
  PROVE  LET t == Feed!SortNewestFirst(s)
         IN  t \in Seq(A) /\ Len(t) = Len(s) /\ Descends(t) /\ Rows(t) = Rows(s)
  <1> DEFINE m == Len(s)
             B == {p \in (1..m) \X (1..m) : s[p[2]].id < s[p[1]].id}
             t == Feed!SortNewestFirst(s)
  <1>1. m \in Nat /\ DOMAIN s = 1..m /\ \A i \in 1..m : s[i] \in A /\ s[i].id \in Int /\ s[i].ts = s[i].id
    BY RowsOfSeq, StampsAre
  <1>2. \A i, j \in 1..m : <<i, j>> \in B <=> s[j].id < s[i].id
    OBVIOUS
  <1>3. IsOrder(B, m)
    <2> HIDE DEF B, m
    <2>1. \A i, j \in 1..m : i # j => s[i].id # s[j].id
      BY <1>1
    <2>2. \A i \in 1..m : <<i, i>> \notin B
      BY <1>1, <1>2
    <2>3. \A i, j \in 1..m : i # j => <<i, j>> \in B \/ <<j, i>> \in B
      BY <1>1, <1>2, <2>1
    <2>4. \A i, j, k \in 1..m : <<i, j>> \in B /\ <<j, k>> \in B => <<i, k>> \in B
      <3> TAKE i, j, k \in 1..m
      <3>1. s[i].id \in Int /\ s[j].id \in Int /\ s[k].id \in Int
        BY <1>1
      <3> QED
        BY <1>2, <3>1
    <2> QED
      BY <2>2, <2>3, <2>4 DEF IsOrder
  <1>4. \A i, j \in 1..m : (s[i].ts > s[j].ts \/ (~(s[j].ts > s[i].ts) /\ i < j)) <=> <<i, j>> \in B
    <2> TAKE i, j \in 1..m
    <2> HIDE DEF B, m
    <2>1. i # j => s[i].id # s[j].id
      BY <1>1
    <2>2. s[i].id \in Int /\ s[j].id \in Int /\ s[i].ts = s[i].id /\ s[j].ts = s[j].id
      BY <1>1
    <2> QED
      BY <1>2, <2>1, <2>2
  <1>5. \A i \in 1..m : {j \in DOMAIN s : s[j].ts > s[i].ts \/ (~(s[i].ts > s[j].ts) /\ j < i)}
                          = {j \in DOMAIN s : <<j, i>> \in B}
    BY <1>1, <1>4
  <1> DEFINE places == {<<i, Feed!Cardinality({j \in DOMAIN s : <<j, i>> \in B}) + 1>> : i \in DOMAIN s}
             asks == {<<i, Feed!Cardinality({j \in DOMAIN s : s[j].ts > s[i].ts \/ (~(s[i].ts > s[j].ts) /\ j < i)}) + 1>> : i \in DOMAIN s}
  <1>6. asks = places
    <2> DEFINE one(i) == Feed!Cardinality({j \in DOMAIN s : <<j, i>> \in B})
               two(i) == Feed!Cardinality({j \in DOMAIN s : s[j].ts > s[i].ts \/ (~(s[i].ts > s[j].ts) /\ j < i)})
    <2>1. \A i \in DOMAIN s : one(i) = two(i)
      BY <1>1, <1>5
    <2>2. places = {<<i, one(i) + 1>> : i \in DOMAIN s} /\ asks = {<<i, two(i) + 1>> : i \in DOMAIN s}
      BY Zenon
    <2> HIDE DEF one, two, places, asks
    <2> QED
      BY <2>1, <2>2, Zenon
  <1>7. t = [k \in DOMAIN s |-> s[(CHOOSE p \in asks : p[2] = k)[1]]]
    BY Zenon DEF Feed!SortNewestFirst, Feed!StableSort
  <1> DEFINE sorted == [k \in DOMAIN s |-> s[(CHOOSE p \in places : p[2] = k)[1]]]
             inAsks(Z) == [k \in DOMAIN s |-> s[(CHOOSE p \in Z : p[2] = k)[1]]]
  <1>8. t = sorted
    <2>1. t = inAsks(asks) /\ sorted = inAsks(places)
      BY <1>7
    <2> HIDE DEF asks, places, t, sorted, inAsks
    <2> QED
      BY <1>6, <2>1, Zenon
  <1> HIDE DEF B, m, asks, t
  <1>13. Sorts(s, m, B, sorted)
    <2>1. m \in Nat /\ DOMAIN s = 1..m
      BY <1>1 DEF m
    <2>2. sorted = Placed(s, B)
      BY Zenon DEF Placed, PlacesOf
    <2> HIDE DEF sorted
    <2> QED
      BY <2>1, <2>2, <1>3, InPlaces
  <1> HIDE DEF sorted
  <1>9. PICK p \in [1..m -> 1..m] :
               /\ t = [k \in 1..m |-> s[p[k]]]
               /\ \A i \in 1..m : \E k \in 1..m : p[k] = i
               /\ \A k, l \in 1..m : k < l => <<p[k], p[l]>> \in B
    BY <1>8, <1>13 DEF Sorts
  <1>10. t \in Seq(A) /\ Len(t) = m /\ DOMAIN t = 1..m
    <2>1. \A k \in 1..m : p[k] \in 1..m /\ s[p[k]] \in A
      BY <1>1, <1>9
    <2>2. t \in [1..m -> A]
      BY <1>9, <2>1
    <2> QED
      BY <1>1, <2>2
  <1>11. Descends(t)
    BY <1>2, <1>9, <1>10 DEF Descends
  <1>12. Rows(t) = Rows(s)
    BY <1>1, <1>9, <1>10 DEF Rows
  <1> QED
    BY <1>10, <1>11, <1>12 DEF t, m

\* In a sequence that descends an atom stands behind those of later stamps only.
LEMMA Behind ==
  ASSUME NEW A, NEW T, Stamped(A, T), NEW t \in Seq(A), Descends(t), NEW k \in 1..Len(t)
  PROVE  k - 1 <= Cardinality(After(T, t[k].id)) /\ Cardinality(After(T, t[k].id)) \in Nat
  <1> DEFINE f == [i \in 1..(k - 1) |-> t[i].id]
             later == After(T, t[k].id)
  <1>1. \A i \in 1..Len(t) : t[i].id \in T /\ t[i].id \in Int
    BY RowsOfSeq, StampsAre
  <1>2. f \in [1..(k - 1) -> later]
    BY <1>1 DEF Descends, After
  <1>3. \A i, j \in 1..(k - 1) : f[i] = f[j] => i = j
    <2> TAKE i, j \in 1..(k - 1)
    <2>1. i \in DOMAIN t /\ j \in DOMAIN t /\ t[i].id \in Int /\ t[j].id \in Int
      BY <1>1
    <2> QED
      BY <2>1 DEF Descends
  <1>4. f \in Injection(1..(k - 1), later)
    BY <1>2, <1>3 DEF Injection, IsInjective
  <1>5. IsFiniteSet(later) /\ Cardinality(later) \in Nat
    <2>1. later \subseteq T /\ IsFiniteSet(T)
      BY DEF Stamped, IsStamps, After
    <2> HIDE DEF later
    <2> QED
      BY <2>1, FS_Subset, FS_CardinalityType
  <1>6. Cardinality(1..(k - 1)) = k - 1
    <2> DEFINE b == k - 1
    <2>1. b \in Nat
      BY RowsOfSeq
    <2> HIDE DEF b
    <2>2. Cardinality(1..b) = b
      <3>1. Cardinality(1..b) = IF 1 > b THEN 0 ELSE b - 1 + 1
        BY <2>1, FS_Interval
      <3> QED
        BY <2>1, <3>1
    <2> QED
      BY <2>2 DEF b
  <1>7. Cardinality(1..(k - 1)) <= Cardinality(later)
    <2> HIDE DEF f, later
    <2> QED
      BY <1>4, <1>5, FS_Injection
  <1> QED
    BY <1>5, <1>6, <1>7

\* The ring cut to its size keeps the newest.
LEMMA RingOfSorted ==
  ASSUME NEW A, NEW T, Stamped(A, T), NEW t \in Seq(A), Descends(t)
  PROVE  IsRing(Feed!Ring(t), A) /\ Holds(Feed!Ring(t), Rows(t), T)
  <1> DEFINE m == IF Len(t) < Limit THEN Len(t) ELSE Limit
             u == Feed!Ring(t)
  <1>1. Len(t) \in Nat /\ m \in 0..Len(t) /\ m <= Limit /\ (Len(t) > m => m = Limit)
    BY FeedAssumption
  <1>2. u = SubSeq(t, 1, m)
    BY DEF Feed!Ring
  <1> HIDE DEF m, u
  <1>3. u \in Seq(A) /\ Len(u) = m /\ \A i \in 1..m : u[i] = t[i]
    BY <1>1, <1>2
  <1>4. DOMAIN u = 1..m /\ DOMAIN t = 1..Len(t)
    BY <1>3
  <1>5. Descends(u)
    <2> SUFFICES ASSUME NEW i \in 1..m, NEW j \in 1..m, i < j PROVE u[j].id < u[i].id
      BY <1>4 DEF Descends
    <2>1. i \in DOMAIN t /\ j \in DOMAIN t
      BY <1>1, <1>4
    <2> QED
      BY <1>3, <2>1 DEF Descends
  <1>6. Rows(u) \subseteq Rows(t)
    BY <1>1, <1>3, <1>4 DEF Rows
  <1>7. \A a \in Rows(t) : a \in Rows(u) \/ Out(T, a.id)
    <2> SUFFICES ASSUME NEW k \in 1..Len(t), t[k] \notin Rows(u) PROVE Out(T, t[k].id)
      BY <1>4 DEF Rows
    <2>1. k \notin 1..m
      BY <1>3, <1>4 DEF Rows
    <2>2. k - 1 >= Limit
      BY <1>1, <2>1
    <2>3. k - 1 <= Cardinality(After(T, t[k].id)) /\ Cardinality(After(T, t[k].id)) \in Nat
      BY Behind
    <2> QED
      BY <1>1, <2>2, <2>3, FeedAssumption DEF Out
  <1> QED
    BY <1>1, <1>3, <1>5, <1>6, <1>7 DEF IsRing, Holds, u

\* A ring takes an atom.
LEMMA PublishedKeeps ==
  ASSUME NEW A, NEW T, Stamped(A, T), NEW r, IsRing(r, A), NEW a \in A
  PROVE  IsRing(Feed!Published(r, a), A) /\ Holds(Feed!Published(r, a), Rows(r) \cup {a}, T)
  <1> DEFINE combined == IF a.id \in Feed!Ids(r)
                           THEN [i \in DOMAIN r |-> IF r[i].id = a.id THEN a ELSE r[i]]
                           ELSE <<a>> \o r
             t == Feed!SortNewestFirst(combined)
  <1>1. r \in Seq(A) /\ Len(r) \in Nat /\ DOMAIN r = 1..Len(r) /\ \A i \in 1..Len(r) : r[i] \in A
    BY RowsOfSeq DEF IsRing
  <1>2. \A b \in A : b.id \in Int
    BY StampsAre
  <1>3. \A i, j \in 1..Len(r) : r[i].id = r[j].id => i = j
    <2> TAKE i, j \in 1..Len(r)
    <2>1. r[i].id \in Int /\ r[j].id \in Int
      BY <1>1, <1>2
    <2> QED
      BY <1>1, <2>1 DEF IsRing, Descends
  <1>4. /\ combined \in Seq(A)
        /\ \A i, j \in DOMAIN combined : combined[i].id = combined[j].id => i = j
        /\ Rows(combined) = Rows(r) \cup {a}
    <2>1. CASE a.id \in Feed!Ids(r)
      <3>1. PICK k \in 1..Len(r) : r[k].id = a.id
        BY <1>1, <2>1 DEF Feed!Ids
      <3>2. \A i \in 1..Len(r) : r[i].id = a.id => r[i] = a
        BY <1>1 DEF Stamped
      <3>3. combined = [i \in 1..Len(r) |-> r[i]]
        BY <1>1, <2>1, <3>2
      <3>4. combined = r
        <4> HIDE DEF combined
        <4>1. r = [i \in DOMAIN r |-> r[i]]
          BY <1>1
        <4> QED
          BY <1>1, <3>3, <4>1
      <3>5. a \in Rows(r)
        BY <1>1, <3>1, <3>2 DEF Rows
      <3> HIDE DEF combined
      <3> QED
        BY <1>1, <1>3, <3>4, <3>5
    <2>2. CASE a.id \notin Feed!Ids(r)
      <3>1. combined = <<a>> \o r
        BY <2>2
      <3>2. \A i \in 1..Len(r) : r[i].id # a.id
        BY <1>1, <2>2 DEF Feed!Ids
      <3> HIDE DEF combined
      <3>3. /\ combined \in Seq(A) /\ Len(combined) = Len(r) + 1 /\ combined[1] = a
            /\ \A i \in 2..(Len(r) + 1) : combined[i] = r[i - 1]
        BY <1>1, <3>1
      <3>4. DOMAIN combined = 1..(Len(r) + 1)
        BY <3>3
      <3>5. \A i \in 1..(Len(r) + 1) : i = 1 \/ (i \in 2..(Len(r) + 1) /\ i - 1 \in 1..Len(r))
        BY <1>1
      <3>6. \A i, j \in 1..(Len(r) + 1) : combined[i].id = combined[j].id => i = j
        <4> TAKE i, j \in 1..(Len(r) + 1)
        <4>1. CASE i = 1
          BY <3>2, <3>3, <3>5, <4>1
        <4>2. CASE j = 1
          BY <3>2, <3>3, <3>5, <4>2
        <4>3. CASE i # 1 /\ j # 1
          <5>1. combined[i] = r[i - 1] /\ combined[j] = r[j - 1] /\ i - 1 \in 1..Len(r) /\ j - 1 \in 1..Len(r)
            BY <3>3, <3>5, <4>3
          <5>2. r[i - 1].id = r[j - 1].id => i - 1 = j - 1
            BY <1>3, <5>1
          <5> QED
            BY <5>1, <5>2
        <4> QED
          BY <4>1, <4>2, <4>3
      <3>7. Rows(combined) \subseteq Rows(r) \cup {a}
        <4>1. ASSUME NEW i \in 1..(Len(r) + 1) PROVE combined[i] \in Rows(r) \cup {a}
          <5>1. CASE i = 1
            BY <3>3, <5>1
          <5>2. CASE i # 1
            <6>1. combined[i] = r[i - 1] /\ i - 1 \in 1..Len(r)
              BY <3>3, <3>5, <5>2
            <6> QED
              BY <1>1, <6>1 DEF Rows
          <5> QED
            BY <5>1, <5>2
        <4> QED
          BY <3>4, <4>1 DEF Rows
      <3>8. a \in Rows(combined)
        BY <1>1, <3>3, <3>4 DEF Rows
      <3>9. \A i \in 1..Len(r) : r[i] \in Rows(combined)
        <4> TAKE i \in 1..Len(r)
        <4>1. i + 1 \in 2..(Len(r) + 1) /\ (i + 1) - 1 = i /\ i + 1 \in 1..(Len(r) + 1)
          BY <1>1
        <4>2. combined[i + 1] = r[i]
          BY <3>3, <4>1
        <4> QED
          BY <3>4, <4>1, <4>2 DEF Rows
      <3>10. Rows(r) \subseteq Rows(combined)
        BY <1>1, <3>9 DEF Rows
      <3> QED
        BY <3>3, <3>4, <3>6, <3>7, <3>8, <3>10
    <2> QED
      BY <2>1, <2>2
  <1> HIDE DEF combined
  <1>5. t \in Seq(A) /\ Descends(t) /\ Rows(t) = Rows(combined)
    BY <1>4, NewestFirst
  <1>6. Feed!Published(r, a) = Feed!Ring(t)
    BY Zenon DEF Feed!Published, combined
  <1> HIDE DEF t
  <1> QED
    BY <1>4, <1>5, <1>6, RingOfSorted

\* A ring stays one of a larger set of atoms, and what it holds stays held.
LEMMA HoldsOn ==
  ASSUME NEW T, NEW U, IsStamps(U), T \subseteq U,
         NEW r, NEW s, NEW t, NEW some, NEW more,
         Holds(s, Rows(r) \cup some, T), Holds(t, Rows(s) \cup more, U)
  PROVE  Holds(t, Rows(r) \cup some \cup more, U)
  <1>1. \A a : Out(T, a.id) => Out(U, a.id)
    BY OutStays
  <1>2. Rows(t) \subseteq Rows(r) \cup some \cup more
    BY DEF Holds
  <1>3. \A a \in Rows(r) \cup some \cup more : a \in Rows(t) \/ Out(U, a.id)
    BY <1>1 DEF Holds
  <1> QED
    BY <1>2, <1>3 DEF Holds

\* Counting up from zero.
LEMMA UpTo ==
  ASSUME NEW m \in Nat, NEW S, 0 \in S, \A k \in 0..(m - 1) : k \in S => k + 1 \in S
  PROVE  \A k \in 0..m : k \in S
  <1> DEFINE T == {k \in 0..m : k \notin S}
  <1> SUFFICES ASSUME T # {} PROVE FALSE
    OBVIOUS
  <1>1. T \in SUBSET Nat
    OBVIOUS
  <1>2. PICK k \in T : \A l \in T : k <= l
    BY <1>1, LeastOf
  <1>3. k \in 1..m
    BY <1>2
  <1>4. k - 1 \in 0..(m - 1) /\ (k - 1) + 1 = k /\ ~(k <= k - 1)
    BY <1>3
  <1>5. k - 1 \in S
    BY <1>2, <1>4
  <1> QED
    BY <1>2, <1>4, <1>5

\* The feed's greatest number.
LEMMA GreatestOf ==
  ASSUME NEW S \in SUBSET Int, NEW k \in S, \A x \in S : x <= k
  PROVE  Feed!Max(S) = k
  <1>1. \E x \in S : \A y \in S : x >= y
    OBVIOUS
  <1>2. Feed!Max(S) \in S /\ \A y \in S : Feed!Max(S) >= y
    BY <1>1 DEF Feed!Max
  <1>3. \A x \in S : (\A y \in S : x >= y) => x = k
    OBVIOUS
  <1> QED
    BY <1>2, <1>3

\* The feed's least number.
LEMMA LeastNumber ==
  ASSUME NEW S \in SUBSET Nat, S # {}
  PROVE  Feed!Min(S) \in S /\ \A x \in S : Feed!Min(S) <= x
  <1>1. \E x \in S : \A y \in S : x <= y
    BY LeastOf
  <1> QED
    BY <1>1, Zenon DEF Feed!Min

\* Rows published one by one.
Steps(g, r, rows, k) ==
  g = [s \in SUBSET (1..k) |-> IF s = {} THEN r
                               ELSE Feed!Published(g[s \ {Feed!Max(s)}], rows[Feed!Max(s)])]

\* The steps of a fold, up to any place.
LEMMA StepsExist ==
  ASSUME NEW m \in Nat, NEW r, NEW rows
  PROVE  \E g : Steps(g, r, rows, m)
  <1> DEFINE S == {k \in 0..m : \E g : Steps(g, r, rows, k)}
  <1>1. 0 \in S
    <2> DEFINE g == [s \in SUBSET (1..0) |-> r]
    <2>1. SUBSET (1..0) = {{}}
      OBVIOUS
    <2>2. Steps(g, r, rows, 0)
      BY <2>1 DEF Steps
    <2> QED
      BY <2>2
  <1>2. \A k \in 0..(m - 1) : k \in S => k + 1 \in S
    <2> SUFFICES ASSUME NEW k \in 0..(m - 1), NEW g, Steps(g, r, rows, k) PROVE \E h : Steps(h, r, rows, k + 1)
      OBVIOUS
    <2> DEFINE one(h, s) == Feed!Published(h[s \ {Feed!Max(s)}], rows[Feed!Max(s)])
               h == [s \in SUBSET (1..(k + 1)) |->
                      IF k + 1 \in s THEN Feed!Published(g[s \ {k + 1}], rows[k + 1]) ELSE g[s]]
    <2>1. g = [s \in SUBSET (1..k) |-> IF s = {} THEN r ELSE one(g, s)]
      BY Zenon DEF Steps
    <2>2. 1..(k + 1) = 1..k \cup {k + 1} /\ k + 1 \notin 1..k
      OBVIOUS
    <2>3. \A s \in SUBSET (1..(k + 1)) : h[s] = IF s = {} THEN r ELSE one(h, s)
      <3> TAKE s \in SUBSET (1..(k + 1))
      <3>1. CASE k + 1 \in s
        <4>1. Feed!Max(s) = k + 1
          <5>1. s \in SUBSET Int /\ \A x \in s : x <= k + 1
            BY <2>2
          <5> QED
            BY <3>1, <5>1, GreatestOf
        <4>2. s \ {k + 1} \in SUBSET (1..(k + 1)) /\ k + 1 \notin s \ {k + 1} /\ s # {}
          BY <3>1
        <4>3. h[s] = Feed!Published(g[s \ {k + 1}], rows[k + 1]) /\ h[s \ {k + 1}] = g[s \ {k + 1}]
          BY <3>1, <4>2
        <4> HIDE DEF h
        <4> QED
          BY <4>1, <4>2, <4>3, Zenon
      <3>2. CASE k + 1 \notin s
        <4>1. s \in SUBSET (1..k)
          BY <2>2, <3>2
        <4>2. h[s] = g[s]
          BY <3>2
        <4>3. g[s] = IF s = {} THEN r ELSE one(g, s)
          <5> HIDE DEF one
          <5> QED
            BY <2>1, <4>1
        <4>4. s \ {Feed!Max(s)} \in SUBSET (1..(k + 1)) /\ k + 1 \notin s \ {Feed!Max(s)}
          BY <3>2
        <4>5. h[s \ {Feed!Max(s)}] = g[s \ {Feed!Max(s)}]
          BY <4>4
        <4> HIDE DEF h
        <4>6. one(h, s) = one(g, s)
          BY <4>5
        <4> HIDE DEF one
        <4> QED
          BY <4>2, <4>3, <4>6, Zenon
      <3> QED
        BY <3>1, <3>2
    <2>4. h = [s \in SUBSET (1..(k + 1)) |-> h[s]]
      OBVIOUS
    <2> HIDE DEF h
    <2>5. h = [s \in SUBSET (1..(k + 1)) |-> IF s = {} THEN r ELSE one(h, s)]
      BY <2>3, <2>4, Zenon
    <2>6. Steps(h, r, rows, k + 1)
      BY <2>5, Zenon DEF Steps
    <2> QED
      BY <2>6
  <1> HIDE DEF S
  <1>3. m \in S
    BY <1>1, <1>2, UpTo
  <1> QED
    BY <1>3 DEF S

\* A fold is its last step.
LEMMA FoldOfSteps ==
  ASSUME NEW A, NEW r, NEW rows \in Seq(A)
  PROVE  \E g : Steps(g, r, rows, Len(rows)) /\ Feed!FoldLeft(Feed!Published, r, rows) = g[1..Len(rows)]
  <1> DEFINE F == CHOOSE g : Steps(g, r, rows, Len(rows))
  <1>1. DOMAIN rows = 1..Len(rows) /\ Len(rows) \in Nat
    BY RowsOfSeq
  <1>2. Steps(F, r, rows, Len(rows))
    BY <1>1, StepsExist, Zenon
  <1>3. Feed!FoldLeft(Feed!Published, r, rows) = F[1..Len(rows)]
    BY <1>1, Zenon DEF Feed!FoldLeft, Feed!MapThenFoldSet, Steps
  <1> QED
    BY <1>2, <1>3

\* Publishing row by row, a ring takes them all.
LEMMA FoldPublished ==
  ASSUME NEW A, NEW T, Stamped(A, T), NEW r, IsRing(r, A), NEW rows \in Seq(A)
  PROVE  LET t == Feed!FoldLeft(Feed!Published, r, rows)
         IN  IsRing(t, A) /\ Holds(t, Rows(r) \cup Rows(rows), T)
  <1> DEFINE m == Len(rows)
             till(k) == {rows[i] : i \in 1..k}
  <1>1. m \in Nat /\ DOMAIN rows = 1..m /\ \A i \in 1..m : rows[i] \in A
    BY RowsOfSeq
  <1>3. PICK g : Steps(g, r, rows, m) /\ Feed!FoldLeft(Feed!Published, r, rows) = g[1..m]
    BY FoldOfSteps
  <1>4. \A s \in SUBSET (1..m) :
           g[s] = IF s = {} THEN r ELSE Feed!Published(g[s \ {Feed!Max(s)}], rows[Feed!Max(s)])
    BY <1>3 DEF Steps
  <1> DEFINE S == {k \in 0..m : IsRing(g[1..k], A) /\ Holds(g[1..k], Rows(r) \cup till(k), T)}
  <1>5. 0 \in S
    <2>1. 1..0 = {} /\ till(0) = {}
      OBVIOUS
    <2>2. g[1..0] = r
      BY <1>4, <2>1
    <2>3. Holds(r, Rows(r) \cup till(0), T)
      BY <2>1 DEF Holds
    <2> QED
      BY <1>1, <2>2, <2>3
  <1>6. \A k \in 0..(m - 1) : k \in S => k + 1 \in S
    <2> SUFFICES ASSUME NEW k \in 0..(m - 1), k \in S PROVE k + 1 \in S
      OBVIOUS
    <2> DEFINE s == 1..(k + 1)
    <2>1. /\ s \in SUBSET (1..m) /\ s \in SUBSET Int /\ s # {} /\ k + 1 \in s /\ s \ {k + 1} = 1..k
          /\ \A x \in s : x <= k + 1
      BY <1>1
    <2>2. Feed!Max(s) = k + 1
      BY <2>1, GreatestOf
    <2> HIDE DEF s
    <2>3. g[s] = Feed!Published(g[1..k], rows[k + 1])
      BY <1>4, <2>1, <2>2
    <2>4. k + 1 \in 1..m /\ rows[k + 1] \in A
      BY <1>1
    <2>5. till(k + 1) = till(k) \cup {rows[k + 1]}
      <3>1. s = 1..k \cup {k + 1}
        BY <2>1
      <3> QED
        BY <3>1 DEF s
    <2> HIDE DEF till
    <2>6. IsRing(g[1..k], A) /\ Holds(g[1..k], Rows(r) \cup till(k), T)
      OBVIOUS
    <2>7. IsRing(g[s], A) /\ Holds(g[s], Rows(g[1..k]) \cup {rows[k + 1]}, T)
      BY <2>3, <2>4, <2>6, PublishedKeeps
    <2> HIDE DEF S
    <2>9. Holds(g[s], Rows(r) \cup till(k) \cup {rows[k + 1]}, T)
      <3>1. IsStamps(T)
        BY DEF Stamped
      <3> DEFINE u == g[1..k]
                 v == g[s]
                 some == till(k)
                 more == {rows[k + 1]}
      <3>2. Holds(u, Rows(r) \cup some, T) /\ Holds(v, Rows(u) \cup more, T)
        BY <2>6, <2>7
      <3> HIDE DEF u, v, some, more
      <3>4. Holds(v, Rows(r) \cup some \cup more, T)
        BY <3>1, <3>2, HoldsOn
      <3> QED
        BY <3>4 DEF v, some, more
    <2>10. Rows(r) \cup till(k + 1) = Rows(r) \cup till(k) \cup {rows[k + 1]}
      BY <2>5
    <2>11. k + 1 \in 0..m
      BY <2>4
    <2>12. IsRing(g[s], A) /\ Holds(g[s], Rows(r) \cup till(k + 1), T)
      BY <2>7, <2>9, <2>10
    <2> QED
      BY <2>11, <2>12 DEF S, s
  <1>7. m \in S
    <2> HIDE DEF S, m
    <2>1. \A k \in 0..m : k \in S
      BY <1>1, <1>5, <1>6, UpTo
    <2> QED
      BY <1>1, <2>1
  <1>8. till(m) = Rows(rows)
    BY <1>1 DEF Rows
  <1> QED
    BY <1>3, <1>7, <1>8

\* The atoms there are: the host's, the page's and those on their way to the host.
FeedAtoms == Rows(issued) \cup Rows(raw) \cup posts

\* Every atom has a stamp of its own; the ring is one of them; the row of an outage is not the host's;
\* what the channel brings was issued.
AtomsInv ==
  /\ Stamped(FeedAtoms, stamps)
  /\ issued \in Seq(FeedAtoms) /\ IsRing(raw, FeedAtoms)
  /\ localId \in stamps \cup {0} /\ \A a \in Rows(issued) \cup posts : a.id # localId
  /\ \A e \in Rows(queue) : e.kind = "notification" => \E a \in Rows(issued) : e = Feed!AtomEvent(a)

\* Where an atom of the host is.
Pushed(a) == Out(stamps, a.id)
Accounted(i) ==
  \/ issued[i] \in Rows(raw)
  \/ Feed!AtomEvent(issued[i]) \in Rows(queue)
  \/ \E s \in Feed!Slots : feedAsks[s] = <<"asked">> \/ (feedAsks[s] # <<>> /\ feedAsks[s][2] >= i)
  \/ issued[i].id \in excused
  \/ Len(issued) - i >= Backlog
  \/ Pushed(issued[i])
AsksOK ==
  /\ feedAsks = [s \in Feed!Slots |-> feedAsks[s]]
  /\ \A s \in Feed!Slots : \/ feedAsks[s] = <<>> \/ feedAsks[s] = <<"asked">>
                           \/ \E n \in 0..Len(issued) : feedAsks[s] = <<"rows", n>>
MissInv == AtomsInv /\ AsksOK /\ (feedWire # "down" => \A i \in DOMAIN issued : Accounted(i))

-----------------------------------------------------------------------------
\* A sequence and a ring are of whatever holds their rows.
LEMMA SeqIn ==
  ASSUME NEW A, NEW B, NEW r \in Seq(A), Rows(r) \subseteq B
  PROVE  r \in Seq(B)
  <1>1. Len(r) \in Nat /\ DOMAIN r = 1..Len(r) /\ r = [i \in 1..Len(r) |-> r[i]]
    BY RowsOfSeq
  <1>2. \A i \in 1..Len(r) : r[i] \in B
    BY <1>1 DEF Rows
  <1>3. r \in [1..Len(r) -> B]
    BY <1>1, <1>2
  <1> QED
    BY <1>1, <1>3

\* A ring of atoms is a ring of any set that has its rows.
LEMMA RingIn ==
  ASSUME NEW A, NEW B, NEW r, IsRing(r, A), Rows(r) \subseteq B
  PROVE  IsRing(r, B)
  BY SeqIn DEF IsRing

\* The atoms after a step are right when they are among atoms that are.
LEMMA AtomsStay ==
  ASSUME NEW A, Stamped(A, stamps'),
         issued' \in Seq(A), IsRing(raw', A), posts' \subseteq A,
         localId' \in stamps' \cup {0}, \A a \in Rows(issued') \cup posts' : a.id # localId',
         \A e \in Rows(queue') : e.kind = "notification" => \E a \in Rows(issued') : e = Feed!AtomEvent(a)
  PROVE  AtomsInv'
  <1> DEFINE B == Rows(issued') \cup Rows(raw') \cup posts'
  <1>1. Rows(issued') \subseteq A /\ Rows(raw') \subseteq A
    BY RowsOfSeq DEF IsRing
  <1>2. B \subseteq A /\ Rows(issued') \subseteq B /\ Rows(raw') \subseteq B
    BY <1>1
  <1> HIDE DEF B
  <1>3. Stamped(B, stamps')
    BY <1>2 DEF Stamped
  <1>4. issued' \in Seq(B) /\ IsRing(raw', B)
    BY <1>2, SeqIn, RingIn
  <1>5. FeedAtoms' = B
    BY DEF FeedAtoms, B, Rows
  <1>6. Rows(issued)' = Rows(issued') /\ Rows(queue)' = Rows(queue')
    BY DEF Rows
  <1>7. IsRing(raw, FeedAtoms)' <=> IsRing(raw', FeedAtoms')
    BY DEF IsRing, Descends
  <1>8. Stamped(FeedAtoms, stamps)' <=> Stamped(FeedAtoms', stamps')
    BY DEF Stamped, IsStamps
  <1> QED
    BY <1>3, <1>4, <1>5, <1>6, <1>7, <1>8 DEF AtomsInv, Feed!AtomEvent

\* A new atom has a new stamp.
LEMMA NewStamp ==
  ASSUME NEW A, NEW T, Stamped(A, T), NEW a, a.id \in Nat \ {0}, a.id \notin T, a.ts = a.id, DOMAIN a = AtomFields
  PROVE  Stamped(A \cup {a}, T \cup {a.id})
  <1>1. \A x \in A : x.id \in T /\ x.ts = x.id /\ DOMAIN x = AtomFields
    BY DEF Stamped
  <1>2. \A x \in A \cup {a} : x.id \in T \cup {a.id} /\ x.ts = x.id /\ DOMAIN x = AtomFields
    BY <1>1
  <1>3. \A x \in A : x.id # a.id
    BY <1>1
  <1>4. \A x, y \in A \cup {a} : x.id = y.id => x = y
    BY <1>3 DEF Stamped
  <1>5. IsStamps(T \cup {a.id})
    <2>1. IsFiniteSet(T \cup {a.id})
      BY FS_AddElement DEF Stamped, IsStamps
    <2> QED
      BY <2>1 DEF Stamped, IsStamps
  <1> QED
    BY <1>2, <1>4, <1>5 DEF Stamped

\* A stamp that is fresh is nobody's.
LEMMA FreshStamp ==
  ASSUME NEW t \in Feed!Fresh
  PROVE  t \in Nat \ {0} /\ t \notin stamps
  <1>1. t \in (Feed!Top - scene.late)..(Feed!Top + 2) /\ t > 0 /\ t \notin stamps
    BY DEF Feed!Fresh
  <1>2. t \in Int
    <2> HIDE DEF Feed!Top
    <2> QED
      BY <1>1
  <1> QED
    BY <1>1, <1>2

\* What the invariant says, put for use.
LEMMA InAtoms ==
  ASSUME AtomsInv
  PROVE  /\ IsStamps(stamps) /\ Stamped(FeedAtoms, stamps)
         /\ issued \in Seq(FeedAtoms) /\ Len(issued) \in Nat /\ DOMAIN issued = 1..Len(issued)
         /\ IsRing(raw, FeedAtoms) /\ posts \subseteq FeedAtoms
         /\ Rows(issued) \subseteq FeedAtoms /\ Rows(raw) \subseteq FeedAtoms
         /\ \A a \in FeedAtoms : a.id \in stamps /\ a.id \in Nat \ {0} /\ a.id \in Int
  <1>1. Stamped(FeedAtoms, stamps)
    BY DEF AtomsInv
  <1>2. \A a \in FeedAtoms : a.id \in stamps /\ a.id \in Nat \ {0} /\ a.id \in Int
    BY <1>1, StampsAre
  <1> QED
    BY <1>1, <1>2, RowsOfSeq DEF AtomsInv, FeedAtoms, Stamped

\* Nothing becomes of the atoms.
LEMMA AtomsRest ==
  ASSUME AtomsInv, UNCHANGED <<issued, raw, localId, stamps>>, posts' \subseteq posts,
         \A e \in Rows(queue') : e.kind = "notification" => e \in Rows(queue)
  PROVE  AtomsInv'
  BY InAtoms, AtomsStay DEF AtomsInv

\* What Send does to the rows of the channel.
LEMMA SendRows ==
  ASSUME NEW e, IsASeq(queue), feedWire \in {"down", "open", "served"}, Feed!Send(e)
  PROVE  /\ Rows(queue') \subseteq Rows(queue) \cup {e}
         /\ excused \subseteq excused'
         /\ feedWire # "served" => queue' = queue
         /\ feedWire = "served" =>
              /\ e \in Rows(queue')
              /\ \A d \in Rows(queue) : d \in Rows(queue') \/ (d.kind = "notification" => d.atom.id \in excused')
         /\ feedWire = "open" /\ e.kind = "notification" =>
              e.atom.id \in excused' \/ \E s \in Feed!Slots : feedAsks[s] = <<"asked">>
  <1> DEFINE all == Append(queue, e)
             full == Len(all) > Channel
             pending == IF e.kind = "notification" THEN feedAsks ELSE hideAsks
             answered == \A s \in Feed!Slots : pending[s] # <<"asked">>
             unheard == CASE feedWire = "served" /\ full -> {Head(all)}
                          [] feedWire = "open" /\ answered -> {e}
                          [] OTHER -> {}
  <1>1. /\ queue' = IF feedWire # "served" THEN queue ELSE IF full THEN Tail(all) ELSE all
        /\ excused' = excused \cup {d.atom.id : d \in {u \in unheard : u.kind = "notification"}}
    BY DEF Feed!Send
  <1>2. /\ IsASeq(all) /\ Len(all) = Len(queue) + 1 /\ Len(queue) \in Nat /\ DOMAIN all = 1..Len(all)
        /\ DOMAIN queue = 1..Len(queue) /\ all[Len(queue) + 1] = e
        /\ \A i \in 1..Len(queue) : all[i] = queue[i]
    BY Appended
  <1> HIDE DEF all
  <1>3. all # <<>>
    <2>1. 1 \in DOMAIN all
      BY <1>2
    <2> QED
      BY <2>1
  <1>4. Rows(all) = Rows(queue) \cup {e}
    <2>1. \A i \in 1..Len(all) : i \in 1..Len(queue) \/ i = Len(queue) + 1
      BY <1>2
    <2>2. Rows(all) \subseteq Rows(queue) \cup {e}
      BY <1>2, <2>1 DEF Rows
    <2>3. \A i \in 1..Len(queue) : i \in 1..Len(all)
      BY <1>2
    <2>4. Rows(queue) \subseteq Rows(all)
      BY <1>2, <2>3 DEF Rows
    <2>5. Len(queue) + 1 \in DOMAIN all
      BY <1>2
    <2>6. e \in Rows(all)
      BY <1>2, <2>5 DEF Rows
    <2> QED
      BY <2>2, <2>4, <2>6
  <1>5. excused \subseteq excused'
    BY <1>1
  <1>6. \A d \in unheard : d.kind = "notification" => d.atom.id \in excused'
    <2> HIDE DEF unheard
    <2> QED
      BY <1>1
  <1>7. CASE feedWire # "served"
    <2>1. queue' = queue
      BY <1>1, <1>7
    <2>2. ASSUME feedWire = "open", e.kind = "notification", \A s \in Feed!Slots : feedAsks[s] # <<"asked">>
          PROVE  e.atom.id \in excused'
      <3>1. answered
        BY <2>2
      <3> HIDE DEF answered, full
      <3>2. e \in unheard
        BY <2>2, <3>1
      <3> QED
        BY <1>6, <2>2, <3>2
    <2> QED
      BY <1>5, <1>7, <2>1, <2>2
  <1>8. CASE feedWire = "served" /\ ~full
    <2>1. queue' = all
      BY <1>1, <1>8
    <2> QED
      BY <1>4, <1>5, <1>8, <2>1
  <1>9. CASE feedWire = "served" /\ full
    <2>1. queue' = Tail(all)
      BY <1>1, <1>9
    <2>2. Head(all) \in unheard
      <3> HIDE DEF full, answered
      <3> QED
        BY <1>9
    <2>3. /\ Len(all) \in Nat \ {0} /\ DOMAIN Tail(all) = 1..(Len(all) - 1)
          /\ (\A i \in 1..(Len(all) - 1) : Tail(all)[i] = all[i + 1]) /\ Head(all) = all[1]
      BY <1>2, <1>3, Tailed
    <2>4. Len(all) >= 2
      BY <1>2, <1>9, FeedAssumption
    <2>5. Rows(Tail(all)) \subseteq Rows(all)
      <3>1. \A i \in 1..(Len(all) - 1) : i + 1 \in DOMAIN all
        BY <1>2
      <3> QED
        BY <2>3, <3>1 DEF Rows
    <2>6. \A i \in 1..Len(all) : all[i] \in Rows(Tail(all)) \/ i = 1
      <3> SUFFICES ASSUME NEW i \in 1..Len(all), i # 1 PROVE all[i] \in Rows(Tail(all))
        OBVIOUS
      <3>1. i - 1 \in 1..(Len(all) - 1) /\ (i - 1) + 1 = i
        BY <1>2
      <3>2. Tail(all)[i - 1] = all[i]
        BY <2>3, <3>1
      <3> QED
        BY <2>3, <3>1, <3>2 DEF Rows
    <2>7. e \in Rows(Tail(all))
      <3>1. Len(queue) + 1 \in 1..Len(all) /\ Len(queue) + 1 # 1
        BY <1>2, <2>4
      <3> QED
        BY <1>2, <2>6, <3>1
    <2>8. \A d \in Rows(queue) : d \in Rows(Tail(all)) \/ d = Head(all)
      <3> SUFFICES ASSUME NEW i \in 1..Len(queue), all[i] \notin Rows(Tail(all)) PROVE all[i] = Head(all)
        BY <1>2 DEF Rows
      <3>1. i \in 1..Len(all)
        BY <1>2
      <3> QED
        BY <2>3, <2>6, <3>1
    <2>9. Rows(queue') \subseteq Rows(queue) \cup {e}
      BY <1>4, <2>1, <2>5
    <2> QED
      BY <1>5, <1>6, <1>9, <2>1, <2>2, <2>7, <2>8, <2>9
  <1> QED
    BY <1>7, <1>8, <1>9

\* An atom gets into the buffer and out to the page.
LEMMA AtomsIssued ==
  ASSUME AtomsInv, FeedInv, NEW a, Feed!Issue(a), UNCHANGED <<raw, localId>>, posts' \subseteq posts,
         stamps \subseteq stamps', Stamped(FeedAtoms \cup {a}, stamps'), a.id # localId
  PROVE  AtomsInv' /\ issued' = Append(issued, a) /\ Rows(issued') = Rows(issued) \cup {a}
  <1> DEFINE A == FeedAtoms \cup {a}
             e == Feed!AtomEvent(a)
  <1>1. issued' = Append(issued, a) /\ Feed!Send(e)
    BY DEF Feed!Issue
  <1>2. issued \in Seq(A) /\ IsRing(raw, A) /\ posts' \subseteq A
    BY InAtoms, SeqIn, RingIn
  <1>3. issued' \in Seq(A) /\ Len(issued) \in Nat /\ DOMAIN issued = 1..Len(issued) /\ DOMAIN issued' = 1..(Len(issued) + 1)
        /\ (\A i \in 1..Len(issued) : issued'[i] = issued[i]) /\ issued'[Len(issued) + 1] = a
    <2>1. a \in A
      OBVIOUS
    <2> HIDE DEF A
    <2> QED
      BY <1>1, <1>2, <2>1
  <1>4. Rows(issued') = Rows(issued) \cup {a}
    <2>1. \A i \in 1..(Len(issued) + 1) : i \in 1..Len(issued) \/ i = Len(issued) + 1
      BY <1>3
    <2>2. Rows(issued') \subseteq Rows(issued) \cup {a}
      BY <1>3, <2>1 DEF Rows
    <2>3. \A i \in 1..Len(issued) : i \in DOMAIN issued'
      BY <1>3
    <2>4. Rows(issued) \subseteq Rows(issued')
      BY <1>3, <2>3 DEF Rows
    <2>5. Len(issued) + 1 \in DOMAIN issued'
      BY <1>3
    <2>6. a \in Rows(issued')
      BY <1>3, <2>5 DEF Rows
    <2> QED
      BY <2>2, <2>4, <2>6
  <1>5. Rows(queue') \subseteq Rows(queue) \cup {e}
    BY <1>1, SendRows DEF FeedInv, ChannelOK
  <1>6. \A d \in Rows(queue') : d.kind = "notification" => \E b \in Rows(issued') : d = Feed!AtomEvent(b)
    BY <1>4, <1>5 DEF AtomsInv
  <1>7. localId' \in stamps' \cup {0} /\ \A b \in Rows(issued') \cup posts' : b.id # localId'
    BY <1>4 DEF AtomsInv
  <1> HIDE DEF A
  <1>8. Stamped(A, stamps')
    BY DEF A
  <1> QED
    BY <1>1, <1>2, <1>3, <1>4, <1>6, <1>7, <1>8, AtomsStay

\* A fresh atom.
LEMMA FreshAtom ==
  ASSUME AtomsInv, NEW t \in Feed!Fresh, NEW a, a.id = t, a.ts = t, DOMAIN a = AtomFields, stamps' = stamps \cup {t}
  PROVE  /\ IsStamps(stamps') /\ stamps \subseteq stamps' /\ Stamped(FeedAtoms \cup {a}, stamps')
         /\ a.id # localId /\ a.id \notin stamps
  <1>1. t \in Nat \ {0} /\ t \notin stamps
    BY FreshStamp
  <1>2. Stamped(FeedAtoms \cup {a}, stamps \cup {t})
    BY <1>1, NewStamp DEF AtomsInv
  <1>3. a.id # localId
    BY <1>1 DEF AtomsInv
  <1>4. Stamped(FeedAtoms \cup {a}, stamps')
    BY <1>2, Zenon
  <1>5. IsStamps(stamps')
    BY <1>4 DEF Stamped
  <1> QED
    BY <1>1, <1>3, <1>4, <1>5

\* The host issues an atom, or one of the page's posts.
LEMMA HostIssues ==
  ASSUME AtomsInv, FeedInv, NEW c, Feed!IssueLink(c) \/ Feed!IssueFatal(c) \/ (c \in posts /\ Feed!PostArrives(c))
  PROVE  /\ AtomsInv' /\ stamps \subseteq stamps'
         /\ UNCHANGED <<raw, feedWire, feedAsks, localId>> /\ posts' \subseteq posts
         /\ \E a : /\ Feed!Send(Feed!AtomEvent(a)) /\ issued' = Append(issued, a)
                   /\ Rows(issued') = Rows(issued) \cup {a}
  <1>1. CASE Feed!IssueLink(c)
    <2>1. /\ UNCHANGED <<raw, feedWire, feedAsks, posts, localId>>
          /\ \E t \in Feed!Fresh : \E code, severity, status, corr, data :
               stamps' = stamps \cup {t} /\ Feed!Issue(Feed!Atom(t, code, severity, status, corr, data))
      BY <1>1 DEF Feed!IssueLink, Feed!page
    <2>2. PICK t \in Feed!Fresh : \E code, severity, status, corr, data :
               stamps' = stamps \cup {t} /\ Feed!Issue(Feed!Atom(t, code, severity, status, corr, data))
      BY <2>1
    <2>3. PICK a : a.id = t /\ a.ts = t /\ DOMAIN a = AtomFields /\ Feed!Issue(a)
      <3>1. PICK code, severity, status, corr, data : Feed!Issue(Feed!Atom(t, code, severity, status, corr, data))
        BY <2>2
      <3> DEFINE a == Feed!Atom(t, code, severity, status, corr, data)
      <3>2. a.id = t /\ a.ts = t /\ DOMAIN a = AtomFields
        BY DEF Feed!Atom, AtomFields
      <3> HIDE DEF a
      <3>3. Feed!Issue(a)
        BY <3>1 DEF a
      <3> QED
        BY <3>2, <3>3
    <2>5. stamps \subseteq stamps' /\ Stamped(FeedAtoms \cup {a}, stamps') /\ a.id # localId
      BY <2>2, <2>3, FreshAtom
    <2>6. AtomsInv' /\ issued' = Append(issued, a) /\ Rows(issued') = Rows(issued) \cup {a}
      BY <2>1, <2>3, <2>5, AtomsIssued
    <2> QED
      BY <2>1, <2>3, <2>5, <2>6 DEF Feed!Issue
  <1>2. CASE Feed!IssueFatal(c)
    <2>1. PICK t \in Feed!Fresh : /\ stamps' = stamps \cup {t}
                                  /\ Feed!Issue(Feed!Atom(t, "ohs.unhandled", "critical", Feed!None, c, Feed!NoData))
      BY <1>2 DEF Feed!IssueFatal
    <2> DEFINE a == Feed!Atom(t, "ohs.unhandled", "critical", Feed!None, c, Feed!NoData)
    <2>2. UNCHANGED <<raw, feedWire, feedAsks, posts, localId>> /\ Feed!Issue(a)
      BY <1>2, <2>1 DEF Feed!IssueFatal, Feed!page
    <2>3. a.id = t /\ a.ts = t /\ DOMAIN a = AtomFields
      BY DEF Feed!Atom, AtomFields
    <2> HIDE DEF a
    <2>5. stamps \subseteq stamps' /\ Stamped(FeedAtoms \cup {a}, stamps') /\ a.id # localId
      BY <2>1, <2>3, FreshAtom
    <2>6. AtomsInv' /\ issued' = Append(issued, a) /\ Rows(issued') = Rows(issued) \cup {a}
      BY <2>2, <2>5, AtomsIssued
    <2> QED
      BY <2>2, <2>5, <2>6 DEF Feed!Issue
  <1>3. CASE c \in posts /\ Feed!PostArrives(c)
    <2>1. /\ UNCHANGED <<raw, feedWire, feedAsks, localId, stamps>> /\ posts' \subseteq posts /\ Feed!Issue(c)
      BY <1>3 DEF Feed!PostArrives, Feed!page, Feed!bounds
    <2>2. c \in FeedAtoms /\ FeedAtoms \cup {c} = FeedAtoms
      BY <1>3 DEF FeedAtoms
    <2>3. stamps \subseteq stamps' /\ Stamped(FeedAtoms \cup {c}, stamps')
      <3>1. stamps' = stamps
        BY <2>1
      <3>2. stamps \subseteq stamps'
        BY <3>1
      <3>3. Stamped(FeedAtoms \cup {c}, stamps')
        BY <2>2, <3>1, InAtoms, Zenon
      <3> QED
        BY <3>2, <3>3
    <2>4. c.id # localId
      BY <1>3 DEF AtomsInv
    <2>6. AtomsInv' /\ issued' = Append(issued, c) /\ Rows(issued') = Rows(issued) \cup {c}
      BY <2>1, <2>3, <2>4, AtomsIssued
    <2> QED
      BY <2>1, <2>3, <2>6 DEF Feed!Issue, AtomsInv
  <1> QED
    BY <1>1, <1>2, <1>3

\* The page takes some of the host's atoms.
LEMMA AtomsTaken ==
  ASSUME AtomsInv, UNCHANGED <<issued, localId, stamps, posts>>, IsRing(raw', FeedAtoms),
         Rows(queue') \subseteq Rows(queue)
  PROVE  AtomsInv'
  BY InAtoms, AtomsStay DEF AtomsInv

\* From the channel.
LEMMA TakeAtomTakes ==
  ASSUME AtomsInv, FeedInv, Feed!TakeAtom
  PROVE  /\ AtomsInv' /\ UNCHANGED <<issued, stamps, feedAsks, feedWire, excused, posts, localId>>
         /\ Head(queue).atom \in Rows(issued)
         /\ Holds(raw', Rows(raw) \cup {Head(queue).atom}, stamps)
         /\ \A d \in Rows(queue) : d \in Rows(queue') \/ d = Feed!AtomEvent(Head(queue).atom)
         /\ Head(queue) = Feed!AtomEvent(Head(queue).atom) /\ Head(queue) \in Rows(queue)
         /\ raw' = Feed!Published(raw, Head(queue).atom)
  <1> DEFINE a == Head(queue).atom
  <1>1. /\ queue # <<>> /\ Head(queue).kind = "notification" /\ queue' = Tail(queue)
        /\ raw' = Feed!Published(raw, a)
        /\ UNCHANGED <<issued, stamps, feedAsks, feedWire, excused, posts, localId>>
    BY DEF Feed!TakeAtom, Feed!Emit, Feed!host, Feed!bounds
  <1>2. IsASeq(queue)
    BY DEF FeedInv, ChannelOK
  <1>3. /\ Len(queue) \in Nat \ {0} /\ DOMAIN queue = 1..Len(queue) /\ DOMAIN queue' = 1..(Len(queue) - 1)
        /\ (\A i \in 1..(Len(queue) - 1) : queue'[i] = queue[i + 1]) /\ Head(queue) = queue[1]
    BY <1>1, <1>2, Tailed
  <1>4. Head(queue) \in Rows(queue)
    BY <1>3 DEF Rows
  <1>5. Rows(queue') \subseteq Rows(queue)
    <2>1. \A i \in 1..(Len(queue) - 1) : i + 1 \in DOMAIN queue
      BY <1>3
    <2> QED
      BY <1>3, <2>1 DEF Rows
  <1>6. \A d \in Rows(queue) : d \in Rows(queue') \/ d = Head(queue)
    <2> SUFFICES ASSUME NEW i \in 1..Len(queue), i # 1 PROVE queue[i] \in Rows(queue')
      BY <1>3 DEF Rows
    <2>1. i - 1 \in 1..(Len(queue) - 1) /\ (i - 1) + 1 = i
      BY <1>3
    <2>2. queue'[i - 1] = queue[i]
      BY <1>3, <2>1
    <2> QED
      BY <1>3, <2>1, <2>2 DEF Rows
  <1>7. PICK b \in Rows(issued) : Head(queue) = Feed!AtomEvent(b)
    BY <1>1, <1>4 DEF AtomsInv
  <1>8. a = b
    BY <1>7 DEF Feed!AtomEvent
  <1> HIDE DEF a
  <1>9. a \in FeedAtoms
    BY <1>7, <1>8 DEF FeedAtoms
  <1>10. IsRing(raw', FeedAtoms) /\ Holds(raw', Rows(raw) \cup {a}, stamps)
    BY <1>1, <1>9, InAtoms, PublishedKeeps
  <1>11. AtomsInv'
    BY <1>1, <1>5, <1>10, AtomsTaken
  <1> QED
    BY <1>1, <1>4, <1>6, <1>7, <1>8, <1>10, <1>11 DEF a

\* From the backlog.
LEMMA TakeBacklogTakes ==
  ASSUME AtomsInv, AsksOK, NEW s \in Feed!Slots, Feed!TakeBacklog(s)
  PROVE  /\ AtomsInv' /\ UNCHANGED <<issued, stamps, queue, feedWire, excused, posts, localId>>
         /\ feedAsks' = [feedAsks EXCEPT ![s] = <<>>]
         /\ \E n \in 0..Len(issued) :
              LET first == IF n > Backlog THEN n - Backlog + 1 ELSE 1
                  rows == SubSeq(issued, first, n)
              IN  /\ feedAsks[s] = <<"rows", n>>
                  /\ first \in 1..(n + 1) /\ (first > 1 => n - first + 1 >= Backlog)
                  /\ rows \in Seq(FeedAtoms) /\ Rows(rows) = {issued[i] : i \in first..n}
                  /\ raw' = Feed!FoldLeft(Feed!Published, raw, rows)
                  /\ Holds(raw', Rows(raw) \cup Rows(rows), stamps)
  <1>1. PICK n \in 0..Len(issued) : feedAsks[s] = <<"rows", n>>
    BY DEF AsksOK, Feed!TakeBacklog
  <1> DEFINE first == IF n > Backlog THEN n - Backlog + 1 ELSE 1
             rows == SubSeq(issued, first, n)
  <1>2. /\ raw' = Feed!FoldLeft(Feed!Published, raw, rows)
        /\ UNCHANGED <<issued, stamps, queue, feedWire, excused, posts, localId>>
        /\ feedAsks' = [feedAsks EXCEPT ![s] = <<>>]
    <2>1. feedAsks[s][2] = n
      BY <1>1
    <2>2. Feed!Emit(Feed!FoldLeft(Feed!Published, raw, rows), readIds)
      BY <2>1, Zenon DEF Feed!TakeBacklog
    <2> HIDE DEF rows
    <2> QED
      BY <2>2 DEF Feed!TakeBacklog, Feed!Emit, Feed!host, Feed!bounds, Feed!ghosts
  <1>3. Len(issued) \in Nat /\ DOMAIN issued = 1..Len(issued) /\ issued \in Seq(FeedAtoms)
    BY InAtoms
  <1>4. first \in 1..(n + 1) /\ (first > 1 => n - first + 1 >= Backlog) /\ n \in Nat
    BY <1>3, FeedAssumption
  <1> HIDE DEF first
  <1>5. /\ rows \in Seq(FeedAtoms) /\ Len(rows) = n - first + 1 /\ DOMAIN rows = 1..(n - first + 1)
        /\ \A k \in 1..(n - first + 1) : rows[k] = issued[first + k - 1]
    <2>1. \A k \in first..n : k \in 1..Len(issued) /\ issued[k] \in FeedAtoms
      BY <1>3, <1>4
    <2> QED
      BY <1>3, <1>4, <2>1
  <1>6. Rows(rows) = {issued[i] : i \in first..n}
    <2> HIDE DEF rows
    <2>1. \A k \in 1..(n - first + 1) : first + k - 1 \in first..n
      BY <1>4
    <2>2. \A i \in first..n : i - first + 1 \in 1..(n - first + 1) /\ first + (i - first + 1) - 1 = i
      BY <1>4
    <2>3. \A i \in first..n : issued[i] = rows[i - first + 1]
      BY <1>5, <2>2
    <2> QED
      BY <1>5, <2>1, <2>2, <2>3 DEF Rows
  <1> HIDE DEF rows
  <1>7. IsRing(raw', FeedAtoms) /\ Holds(raw', Rows(raw) \cup Rows(rows), stamps)
    BY <1>2, <1>5, InAtoms, FoldPublished
  <1>8. AtomsInv'
    BY <1>2, <1>7, AtomsTaken
  <1> QED
    BY <1>1, <1>2, <1>4, <1>5, <1>6, <1>7, <1>8 DEF first, rows

\* The row of an outage is the page's own.
IsOutageRow(a) ==
  a.id \notin stamps /\ a.code = "host.unreachable" /\ a.status = Feed!None /\ a.corr = Feed!None
\* The socket goes: the page may add the row of an outage, and nothing else.
LEMMA DropTakes ==
  ASSUME AtomsInv, Feed!Drop
  PROVE  /\ AtomsInv' /\ UNCHANGED <<issued, feedAsks, excused, posts>> /\ feedWire' = "down"
         /\ stamps \subseteq stamps' /\ (localId' = localId \/ localId' \notin stamps)
         /\ \E some : /\ Holds(raw', Rows(raw) \cup some, stamps')
                       /\ \A x \in some : IsOutageRow(x)
  <1>1. UNCHANGED <<issued, feedAsks, excused, posts>> /\ feedWire' = "down" /\ queue' = <<>>
    BY DEF Feed!Drop, Feed!host, Feed!ghosts
  <1>2. \A e \in Rows(queue') : FALSE
    BY <1>1 DEF Rows
  <1>3. CASE localId # 0
    <2>1. UNCHANGED <<raw, localId, stamps>>
      BY <1>3 DEF Feed!Drop
    <2>2. Holds(raw', Rows(raw) \cup {}, stamps')
      BY <2>1 DEF Holds
    <2>3. \E some : /\ Holds(raw', Rows(raw) \cup some, stamps')
                    /\ \A x \in some : IsOutageRow(x)
      <3>1. PICK some : some = {}
        OBVIOUS
      <3>2. \A x \in some : IsOutageRow(x)
        BY <3>1
      <3>3. Holds(raw', Rows(raw) \cup some, stamps')
        BY <2>2, <3>1, Zenon
      <3> QED
        BY <3>2, <3>3
    <2>4. AtomsInv'
      BY <1>1, <1>2, <2>1, AtomsRest
    <2> QED
      BY <1>1, <2>1, <2>3, <2>4
  <1>4. CASE localId = 0
    <2>1. PICK t \in Feed!Fresh :
            /\ stamps' = stamps \cup {t} /\ localId' = t
            /\ raw' = Feed!Published(raw, Feed!Atom(t, "host.unreachable", "critical", Feed!None, Feed!None, Feed!NoData))
      BY <1>4 DEF Feed!Drop, Feed!Emit
    <2> DEFINE a == Feed!Atom(t, "host.unreachable", "critical", Feed!None, Feed!None, Feed!NoData)
               A == FeedAtoms \cup {a}
    <2>2. raw' = Feed!Published(raw, a)
      BY <2>1
    <2>10. /\ a.code = "host.unreachable" /\ a.status = Feed!None /\ a.corr = Feed!None
           /\ a.id = t /\ a.ts = t /\ DOMAIN a = AtomFields
      BY DEF Feed!Atom, AtomFields
    <2> HIDE DEF a
    <2>3. stamps \subseteq stamps' /\ Stamped(A, stamps') /\ a.id \notin stamps
      BY <2>1, <2>10, FreshAtom
    <2>4. IsRing(raw, A) /\ a \in A /\ issued \in Seq(A) /\ posts' \subseteq A
      BY <1>1, InAtoms, RingIn, SeqIn
    <2>8. \A b \in Rows(issued) \cup posts : b.id # localId'
      <3>1. \A b \in FeedAtoms : b.id \in stamps
        BY InAtoms
      <3>2. \A b \in Rows(issued) \cup posts : b.id \in stamps
        BY <3>1 DEF FeedAtoms
      <3> QED
        BY <2>1, <2>3, <2>10, <3>2
    <2> HIDE DEF A
    <2>5. IsRing(raw', A) /\ Holds(raw', Rows(raw) \cup {a}, stamps')
      BY <2>2, <2>3, <2>4, PublishedKeeps
    <2>6. localId' \in stamps' \cup {0}
      BY <2>1
    <2>7. issued' = issued /\ posts' = posts
      BY <1>1
    <2>9. AtomsInv'
      BY <1>2, <2>3, <2>4, <2>5, <2>6, <2>7, <2>8, AtomsStay
    <2>11. \E some : /\ Holds(raw', Rows(raw) \cup some, stamps')
                     /\ \A x \in some : IsOutageRow(x)
      <3>1. PICK some : some = {a}
        OBVIOUS
      <3>2. \A x \in some : IsOutageRow(x)
        BY <2>3, <2>10, <3>1 DEF IsOutageRow
      <3>3. Holds(raw', Rows(raw) \cup some, stamps')
        BY <2>5, <3>1, Zenon
      <3> QED
        BY <3>2, <3>3
    <2> QED
      BY <1>1, <2>1, <2>3, <2>9, <2>10, <2>11
  <1> QED
    BY <1>3, <1>4

\* Rows taken out of a ring.
LEMMA OnlyTakes ==
  ASSUME NEW A, NEW r, IsRing(r, A), \A a \in A : a.id \in Nat, NEW id,
         NEW at, \A i : i \in at <=> i \in DOMAIN r /\ r[i].id # id, NEW t, t = Picked(r, at)
  PROVE  IsRing(t, A) /\ \A a : a \in Rows(t) <=> a \in Rows(r) /\ a.id # id
  <1>1. Len(r) \in Nat /\ DOMAIN r = 1..Len(r) /\ (\A i \in 1..Len(r) : r[i] \in A) /\ Len(r) <= Limit
    BY RowsOfSeq DEF IsRing
  <1>2. at \in SUBSET (1..Len(r))
    BY <1>1
  <1>3. PICK m \in 0..Len(r) : InOrder(r, at, t, m)
    BY <1>1, <1>2, InTheirOrder
  <1>5. PICK p \in [1..m -> at] : /\ t = [k \in 1..m |-> r[p[k]]]
                                  /\ \A i \in at : \E k \in 1..m : p[k] = i
                                  /\ \A k, l \in 1..m : k < l => p[k] < p[l]
    BY <1>3, Zenon DEF InOrder
  <1>6. \A k \in 1..m : p[k] \in 1..Len(r) /\ t[k] = r[p[k]] /\ r[p[k]].id # id
    BY <1>1, <1>5
  <1>7. t \in Seq(A) /\ Len(t) = m /\ DOMAIN t = 1..m /\ m <= Limit
    <2>1. t \in [1..m -> A]
      BY <1>1, <1>5, <1>6
    <2>2. m \in Nat /\ m <= Limit
      BY <1>1, <1>3, FeedAssumption
    <2> QED
      BY <2>1, <2>2
  <1>8. Descends(t)
    <2> SUFFICES ASSUME NEW i \in 1..m, NEW j \in 1..m, i < j PROVE t[j].id < t[i].id
      BY <1>7 DEF Descends
    <2>1. p[i] < p[j] /\ p[i] \in DOMAIN r /\ p[j] \in DOMAIN r
      BY <1>1, <1>5, <1>6
    <2>2. r[p[j]].id < r[p[i]].id
      BY <2>1 DEF IsRing, Descends
    <2> QED
      BY <1>6, <2>2
  <1>9. Rows(t) \subseteq {a \in Rows(r) : a.id # id}
    <2> SUFFICES ASSUME NEW k \in 1..m PROVE t[k] \in Rows(r) /\ t[k].id # id
      BY <1>7 DEF Rows
    <2>1. t[k] = r[p[k]] /\ p[k] \in DOMAIN r /\ r[p[k]].id # id
      BY <1>1, <1>6
    <2> QED
      BY <2>1 DEF Rows
  <1>10. {a \in Rows(r) : a.id # id} \subseteq Rows(t)
    <2> SUFFICES ASSUME NEW i \in at PROVE r[i] \in Rows(t)
      BY DEF Rows
    <2>1. PICK k \in 1..m : p[k] = i
      BY <1>5
    <2>2. t[k] = r[i]
      BY <1>6, <2>1
    <2> QED
      BY <1>7, <2>2 DEF Rows
  <1> QED
    BY <1>7, <1>8, <1>9, <1>10 DEF IsRing

\* The page takes the row of the outage away.
LEMMA SettledTakes ==
  ASSUME AtomsInv, Feed!Settled
  PROVE  /\ AtomsInv' /\ UNCHANGED <<issued, stamps, queue, feedWire, feedAsks, excused, posts>>
         /\ Rows(raw') = {a \in Rows(raw) : a.id # localId}
         /\ \A a \in Rows(issued) \cap Rows(raw) : a \in Rows(raw')
  <1> DEFINE at == {i \in DOMAIN raw : raw[i].id # localId}
  <1>1. /\ UNCHANGED <<issued, stamps, queue, feedWire, feedAsks, excused, posts>> /\ localId' = 0
        /\ raw' = Picked(raw, at)
    BY DEF Feed!Settled, Feed!Emit, Feed!Only, Picked, Feed!host, Feed!net, Feed!bounds, Feed!ghosts
  <1>2. IsRing(raw', FeedAtoms) /\ Rows(raw') = {a \in Rows(raw) : a.id # localId}
    <2>1. \A a \in FeedAtoms : a.id \in Nat
      BY InAtoms
    <2>2. \A i : i \in at <=> i \in DOMAIN raw /\ raw[i].id # localId
      OBVIOUS
    <2> HIDE DEF at
    <2>3. IsRing(raw, FeedAtoms) /\ raw' = Picked(raw, at)
      BY <1>1, InAtoms
    <2>4. IsRing(raw', FeedAtoms) /\ \A a : a \in Rows(raw') <=> a \in Rows(raw) /\ a.id # localId
      BY <2>1, <2>2, <2>3, OnlyTakes, Zenon
    <2> QED
      BY <2>4
  <1>3. \A a \in Rows(issued) : a.id # localId
    BY DEF AtomsInv
  <1>4. \A a \in Rows(issued) \cup posts : a.id # 0
    <2>1. \A a \in FeedAtoms : a.id # 0
      BY InAtoms
    <2> QED
      BY <2>1 DEF FeedAtoms
  <1>5. localId' \in stamps' \cup {0} /\ Stamped(FeedAtoms, stamps')
    <2>1. stamps' = stamps /\ Stamped(FeedAtoms, stamps)
      BY <1>1, InAtoms
    <2>2. Stamped(FeedAtoms, stamps')
      BY <2>1, Zenon
    <2> QED
      BY <1>1, <2>1, <2>2
  <1>6. \A a \in Rows(issued') \cup posts' : a.id # localId'
    BY <1>1, <1>4
  <1>7. \A e \in Rows(queue') : e.kind = "notification" => \E a \in Rows(issued') : e = Feed!AtomEvent(a)
    BY <1>1 DEF AtomsInv
  <1>8. issued' \in Seq(FeedAtoms) /\ posts' \subseteq FeedAtoms
    BY <1>1, InAtoms
  <1>9. AtomsInv'
    BY <1>2, <1>5, <1>6, <1>7, <1>8, AtomsStay
  <1>10. \A a \in Rows(issued) \cap Rows(raw) : a \in Rows(raw')
    BY <1>2, <1>3
  <1> QED
    BY <1>1, <1>2, <1>9, <1>10

\* The page is loaded again.
LEMMA ReloadTakes ==
  ASSUME AtomsInv, Feed!Reload
  PROVE  AtomsInv' /\ feedWire' = "down"
  <1>1. /\ UNCHANGED <<issued, stamps, posts>> /\ localId' = 0 /\ raw' = <<>> /\ queue' = <<>> /\ feedWire' = "down"
    BY DEF Feed!Reload, Feed!host
  <1>2. IsRing(<<>>, FeedAtoms) /\ Rows(<<>>) = {}
    BY FeedAssumption DEF IsRing, Rows, Descends
  <1>4. \A a \in Rows(issued) \cup posts : a.id # 0
    <2>1. \A a \in FeedAtoms : a.id # 0
      BY InAtoms
    <2> QED
      BY <2>1 DEF FeedAtoms
  <1>5. Rows(issued') = Rows(issued) /\ Rows(queue') = {} /\ IsStamps(stamps)
    BY <1>1, <1>2, InAtoms
  <1>6. AtomsInv'
    BY <1>1, <1>2, <1>4, <1>5, InAtoms, AtomsStay DEF AtomsInv
  <1> QED
    BY <1>1, <1>6

\* A shown row is of an atom: it keeps all but the time, which may be later, and the data.
ShownOf(d, a) ==
  d.id = a.id /\ d.corr = a.corr /\ d.code = a.code /\ d.severity = a.severity /\ d.status = a.status
\* Rows show a ring: each one of its atoms, the newest first, and all that are no ticks.
Shows(d, r, m, q) ==
  /\ DOMAIN d = 1..m /\ q \in [1..m -> Rows(r)]
  /\ \A k \in 1..m : ShownOf(d[k], q[k]) /\ d[k].ts \in Int /\ d[k].ts >= q[k].id
  /\ \A k, l \in 1..m : k < l => q[l].id < q[k].id
  /\ \A a \in Rows(r) : Feed!IsI2PhaseTick(a) \/ \E k \in 1..m : q[k] = a

\* The folded rows are rows of the ring, and none but ticks is folded.
LEMMA CollapsedShows ==
  ASSUME NEW A, NEW T, Stamped(A, T), NEW r, IsRing(r, A)
  PROVE  \E m \in 0..Len(r) : \E q : Shows(Feed!CollapsePhaseTicks(r), r, m, q)
  <1> DEFINE s == Feed!SortNewestFirst(r)
             folds(e) == e.corr # Feed!None /\ Feed!IsI2PhaseTick(e)
             ticks(e) == {i \in DOMAIN s : folds(s[i]) /\ Feed!I2PhaseKey(s[i]) = Feed!I2PhaseKey(e)}
             at == {i \in DOMAIN s : folds(s[i]) => s[i].id = s[Feed!Max(ticks(s[i]))].id}
             rows == Picked(s, at)
             folded(e) == [e EXCEPT !.ts = s[Feed!Min(ticks(e))].ts, !.data = s[Feed!Min(ticks(e))].data]
             d == [i \in DOMAIN rows |-> IF folds(rows[i]) THEN folded(rows[i]) ELSE rows[i]]
  <1>1. Feed!CollapsePhaseTicks(r) = d
    BY DEF Feed!CollapsePhaseTicks, Feed!Only, Picked
  <1>2. r \in Seq(A) /\ Len(r) \in Nat /\ DOMAIN r = 1..Len(r) /\ \A i \in 1..Len(r) : r[i] \in A
    BY RowsOfSeq DEF IsRing
  <1>3. \A i, j \in DOMAIN r : r[i].id = r[j].id => i = j
    <2> TAKE i, j \in 1..Len(r)
    <2>1. r[i].id \in Int /\ r[j].id \in Int
      BY <1>2, StampsAre
    <2> QED
      BY <1>2, <2>1 DEF IsRing, Descends
  <1>4. s \in Seq(A) /\ Len(s) = Len(r) /\ Descends(s) /\ Rows(s) = Rows(r)
    BY <1>2, <1>3, NewestFirst
  <1>5. \A i : i \in at <=> i \in DOMAIN s /\ (folds(s[i]) => s[i].id = s[Feed!Max(ticks(s[i]))].id)
    OBVIOUS
  <1>6. \A e \in A : \A f : f = folded(e) => ShownOf(f, e)
    <2>1. ASSUME NEW e \in A, NEW ts, NEW data PROVE ShownOf([e EXCEPT !.ts = ts, !.data = data], e)
      <3>1. DOMAIN e = AtomFields
        BY DEF Stamped
      <3> QED
        BY <3>1 DEF ShownOf, AtomFields
    <2>2. \A e \in A : \A ts, data : ShownOf([e EXCEPT !.ts = ts, !.data = data], e)
      BY <2>1
    <2>3. \A e \in A : ShownOf(folded(e), e)
      BY <2>2, Zenon
    <2> HIDE DEF folded
    <2> QED
      BY <2>3, Zenon
  <1>7. DOMAIN s = 1..Len(r) /\ \A i \in 1..Len(r) : s[i] \in A
    <2> HIDE DEF s
    <2> QED
      BY <1>4, RowsOfSeq
  <1>18. ASSUME NEW i \in DOMAIN s, folds(s[i])
         PROVE  \A f : f = folded(s[i]) => f.ts \in Int /\ f.ts >= s[i].id
    <2> DEFINE near == ticks(s[i])
               low == Feed!Min(near)
    <2>1. near \in SUBSET (1..Len(r)) /\ i \in near
      <3> HIDE DEF s
      <3> QED
        BY <1>7, <1>18
    <2>2. near \in SUBSET Nat /\ near # {}
      <3> HIDE DEF near
      <3> QED
        BY <2>1
    <2> HIDE DEF near
    <2>3. low \in near /\ \A j \in near : low <= j
      BY <2>2, LeastNumber
    <2>4. low \in DOMAIN s /\ i \in DOMAIN s /\ low <= i
      <3> HIDE DEF s, low
      <3> QED
        BY <1>7, <2>1, <2>3
    <2> HIDE DEF s, low
    <2>5. s[i].id \in Int /\ s[low].id \in Int /\ s[low].ts = s[low].id /\ DOMAIN s[i] = AtomFields
      BY <1>7, <2>4, StampsAre
    <2>6. s[low].id >= s[i].id
      <3>1. CASE low = i
        BY <2>5, <3>1
      <3>2. CASE low < i
        <4>1. s[i].id < s[low].id
          BY <1>4, <2>4, <3>2 DEF Descends
        <4> QED
          BY <2>5, <4>1
      <3>3. low \in Int /\ i \in Int
        BY <1>7, <2>4
      <3> QED
        BY <2>4, <3>1, <3>2, <3>3
    <2>7. folded(s[i]) = [s[i] EXCEPT !.ts = s[low].ts, !.data = s[low].data]
      BY Zenon DEF low, near
    <2> SUFFICES ASSUME NEW f, f = folded(s[i]) PROVE f.ts \in Int /\ f.ts >= s[i].id
      OBVIOUS
    <2> HIDE DEF folded
    <2>8. f = [s[i] EXCEPT !.ts = s[low].ts, !.data = s[low].data]
      BY <2>7, Zenon
    <2>9. f.ts = s[low].ts
      BY <2>5, <2>8 DEF AtomFields
    <2> QED
      BY <2>5, <2>6, <2>9
  <1> HIDE DEF s, ticks, at, folded
  <1>8. at \in SUBSET (1..Len(r))
    BY <1>5, <1>7
  <1> HIDE DEF folds
  <1>9. PICK m \in 0..Len(r) : InOrder(s, at, rows, m)
    <2> HIDE DEF rows
    <2>1. rows = Picked(s, at)
      BY DEF rows
    <2> QED
      BY <1>2, <1>7, <1>8, <2>1, InTheirOrder
  <1> HIDE DEF rows
  <1>10. PICK p \in [1..m -> at] : /\ rows = [k \in 1..m |-> s[p[k]]]
                                   /\ \A i \in at : \E k \in 1..m : p[k] = i
                                   /\ \A k, l \in 1..m : k < l => p[k] < p[l]
    BY <1>9, Zenon DEF InOrder
  <1>11. \A k \in 1..m : p[k] \in DOMAIN s /\ rows[k] = s[p[k]] /\ rows[k] \in Rows(s) /\ rows[k] \in A
    BY <1>7, <1>8, <1>10 DEF Rows
  <1>12. DOMAIN d = 1..m /\ DOMAIN rows = 1..m
    BY <1>10
  <1>13. rows \in [1..m -> Rows(r)]
    BY <1>4, <1>10, <1>11
  <1>14. \A k \in 1..m : ShownOf(d[k], rows[k]) /\ d[k].ts \in Int /\ d[k].ts >= rows[k].id
    <2> TAKE k \in 1..m
    <2>5. rows[k].id \in Int /\ rows[k].ts = rows[k].id
      BY <1>11, StampsAre
    <2>1. d[k] = IF folds(rows[k]) THEN folded(rows[k]) ELSE rows[k]
      BY <1>12
    <2> HIDE DEF d
    <2>2. d[k] = rows[k] \/ (folds(rows[k]) /\ d[k] = folded(rows[k]))
      BY <2>1
    <2>3. CASE d[k] = rows[k]
      BY <2>3, <2>5 DEF ShownOf
    <2>4. CASE folds(rows[k]) /\ d[k] = folded(rows[k])
      <3>1. p[k] \in DOMAIN s /\ rows[k] = s[p[k]]
        BY <1>11
      <3>2. \A f : f = folded(rows[k]) => f.ts \in Int /\ f.ts >= rows[k].id
        BY <1>18, <2>4, <3>1, Zenon
      <3> QED
        BY <1>6, <1>11, <2>4, <3>2
    <2> QED
      BY <2>2, <2>3, <2>4
  <1> HIDE DEF d
  <1>15. \A k, l \in 1..m : k < l => rows[l].id < rows[k].id
    BY <1>4, <1>10, <1>11 DEF Descends
  <1>16. \A a \in Rows(r) : Feed!IsI2PhaseTick(a) \/ \E k \in 1..m : rows[k] = a
    <2> SUFFICES ASSUME NEW i \in DOMAIN s, ~Feed!IsI2PhaseTick(s[i]) PROVE \E k \in 1..m : rows[k] = s[i]
      BY <1>4 DEF Rows
    <2>1. i \in at
      BY <1>5 DEF folds
    <2> QED
      BY <1>10, <1>11, <2>1
  <1>17. Shows(d, r, m, rows)
    BY <1>12, <1>13, <1>14, <1>15, <1>16 DEF Shows
  <1> QED
    BY <1>1, <1>17

\* What the dock shows.
LEMMA DisplayShows ==
  ASSUME AtomsInv
  PROVE  \E m \in Nat : \E q : Shows(Feed!display, raw, m, q)
  <1>1. IsRing(raw, FeedAtoms) /\ Stamped(FeedAtoms, stamps)
        /\ Len(raw) \in Nat /\ DOMAIN raw = 1..Len(raw)
    BY InAtoms, RowsOfSeq DEF IsRing
  <1>2. CASE collapse
    <2>1. Feed!display = Feed!CollapsePhaseTicks(raw)
      BY <1>2 DEF Feed!display, Feed!Display
    <2>2. PICK m \in 0..Len(raw) : \E q : Shows(Feed!CollapsePhaseTicks(raw), raw, m, q)
      BY <1>1, CollapsedShows
    <2>3. m \in Nat
      BY <1>1
    <2> QED
      BY <2>1, <2>2, <2>3
  <1>3. CASE ~collapse
    <2>1. Feed!display = raw
      BY <1>3 DEF Feed!display, Feed!Display
    <2>2. Shows(raw, raw, Len(raw), raw)
      <3>1. raw \in [1..Len(raw) -> Rows(raw)]
        <4>1. raw = [i \in 1..Len(raw) |-> raw[i]]
          BY <1>1 DEF IsRing
        <4>2. \A i \in 1..Len(raw) : raw[i] \in Rows(raw)
          BY <1>1 DEF Rows
        <4> QED
          BY <4>1, <4>2
      <3>2. \A k \in 1..Len(raw) : ShownOf(raw[k], raw[k]) /\ raw[k].ts \in Int /\ raw[k].ts >= raw[k].id
        <4>1. \A k \in 1..Len(raw) : raw[k].id \in Int /\ raw[k].ts = raw[k].id
          BY <1>1, RowsOfSeq, StampsAre DEF IsRing
        <4> QED
          BY <4>1 DEF ShownOf
      <3>3. \A a \in Rows(raw) : \E k \in 1..Len(raw) : raw[k] = a
        BY <1>1 DEF Rows
      <3>4. \A k, l \in 1..Len(raw) : k < l => raw[l].id < raw[k].id
        BY <1>1 DEF IsRing, Descends
      <3> QED
        BY <1>1, <3>1, <3>2, <3>3, <3>4 DEF Shows
    <2> QED
      BY <1>1, <2>1, <2>2
  <1> QED
    BY <1>2, <1>3

\* A finite set as a sequence: each of its members, once.
LEMMA OrderOf ==
  ASSUME NEW S, IsFiniteSet(S)
  PROVE  /\ Feed!SetToSeq(S) \in [1..Cardinality(S) -> S] /\ Cardinality(S) \in Nat
         /\ \A i, j \in 1..Cardinality(S) : Feed!SetToSeq(S)[i] = Feed!SetToSeq(S)[j] => i = j
         /\ \A x \in S : \E i \in 1..Cardinality(S) : Feed!SetToSeq(S)[i] = x
  <1> DEFINE n == Cardinality(S)
             f == Feed!SetToSeq(S)
  <1>1. n \in Nat /\ ExistsBijection(1..n, S)
    BY FS_CardinalityType
  <1>2. IsFiniteSet(1..n) /\ Cardinality(1..n) = n
    <2> HIDE DEF n
    <2> QED
      BY <1>1, FS_Interval
  <1>3. Feed!Cardinality(S) = n
    BY SameCount
  <1> HIDE DEF n
  <1>4. \E g \in [1..n -> S] : Feed!IsInjective(g)
    <2>1. PICK g : g \in Bijection(1..n, S)
      BY <1>1 DEF ExistsBijection
    <2>2. g \in [1..n -> S] /\ \A a, b \in DOMAIN g : g[a] = g[b] => a = b
      BY <2>1 DEF Bijection, Injection, IsInjective
    <2> QED
      BY <2>2, Zenon DEF Feed!IsInjective
  <1>5. f = CHOOSE g \in [1..n -> S] : Feed!IsInjective(g)
    BY <1>3, Zenon DEF Feed!SetToSeq
  <1>6. f \in [1..n -> S] /\ Feed!IsInjective(f)
    <2> HIDE DEF f
    <2> QED
      BY <1>4, <1>5, Zenon
  <1> HIDE DEF f
  <1>7. \A i, j \in 1..n : f[i] = f[j] => i = j
    BY <1>6 DEF Feed!IsInjective
  <1>8. f \in Injection(1..n, S)
    BY <1>6, <1>7 DEF Injection, IsInjective
  <1>9. f \in Surjection(1..n, S)
    BY <1>2, <1>8, FS_Injection DEF n
  <1>10. \A x \in S : \E i \in 1..n : f[i] = x
    BY <1>9 DEF Surjection
  <1> QED
    BY <1>1, <1>6, <1>7, <1>10 DEF f, n

\* The orphans are finitely many, each of a 500 in the ring.
LEMMA OrphansInRing ==
  ASSUME AtomsInv
  PROVE  /\ IsFiniteSet(Feed!RecentOrphans)
         /\ \A c \in Feed!RecentOrphans : \E a \in Rows(raw) : a.corr = c /\ Feed!IsFatal(a)
  <1>1. PICK m, q : m \in Nat /\ Shows(Feed!display, raw, m, q)
    BY DisplayShows
  <1> DEFINE d == Feed!display
             T == {d[i].corr : i \in 1..m}
             f == [i \in 1..m |-> d[i].corr]
  <1>2. DOMAIN d = 1..m
    BY <1>1 DEF Shows
  <1>3. Feed!RecentOrphans \subseteq T
    <2> HIDE DEF d
    <2> SUFFICES ASSUME NEW c \in Feed!RecentOrphans PROVE c \in T
      OBVIOUS
    <2>1. c \in {d[i].corr : i \in {j \in DOMAIN d : Feed!IsFatal(d[j])}}
      BY DEF Feed!RecentOrphans, d
    <2> QED
      BY <1>2, <2>1
  <1>4. IsFiniteSet(T)
    <2> HIDE DEF d
    <2>1. f \in Surjection(1..m, T)
      BY DEF Surjection
    <2>2. IsFiniteSet(1..m)
      BY <1>1, FS_Interval
    <2> HIDE DEF T, f
    <2> QED
      BY <2>1, <2>2, FS_Surjection
  <1>5. IsFiniteSet(Feed!RecentOrphans)
    <2> HIDE DEF T
    <2> QED
      BY <1>3, <1>4, FS_Subset
  <1>6. ASSUME NEW c \in Feed!RecentOrphans
        PROVE  \E a \in Rows(raw) : a.corr = c /\ Feed!IsFatal(a)
    <2> HIDE DEF d
    <2>1. c \in {d[i].corr : i \in {j \in DOMAIN d : Feed!IsFatal(d[j])}}
      BY DEF Feed!RecentOrphans, d
    <2>2. PICK i \in 1..m : d[i].corr = c /\ Feed!IsFatal(d[i])
      BY <1>2, <2>1
    <2>3. ShownOf(d[i], q[i]) /\ q[i] \in Rows(raw)
      BY <1>1 DEF Shows, d
    <2> QED
      BY <2>2, <2>3 DEF ShownOf, Feed!IsFatal
  <1> QED
    BY <1>5, <1>6

\* An ok.
Untold(a) ==
  a.data.hint = Feed!None /\ a.data.kind = Feed!None /\ a.data.groupKind = Feed!None /\ a.data.outcome = Feed!None
IsOk(a) == a.code = "backend.healthcheck.ok" /\ a.severity = "ok" /\ a.status = "resolved" /\ Untold(a)

\* What the probe's answer puts under a 500.
LEMMA OkIs ==
  ASSUME NEW c, NEW t
  PROVE  LET a == Feed!HealthOk(c, t)
         IN  /\ a.id = t /\ a.ts = t /\ DOMAIN a = AtomFields
             /\ a.corr = c /\ IsOk(a)
  <1> DEFINE data == [Feed!NoData EXCEPT !.sender = "client"]
  <1>1. data.hint = Feed!None /\ data.kind = Feed!None /\ data.groupKind = Feed!None /\ data.outcome = Feed!None
    BY DEF Feed!NoData
  <1>2. Feed!HealthOk(c, t) = Feed!Atom(t, "backend.healthcheck.ok", "ok", "resolved", c, data)
    BY DEF Feed!HealthOk
  <1> HIDE DEF data
  <1> QED
    BY <1>1, <1>2 DEF Feed!Atom, AtomFields, IsOk, Untold

\* Atoms with stamps that nobody has.
LEMMA NewStamps ==
  ASSUME NEW A, NEW T, Stamped(A, T), NEW k \in Nat, NEW first \in Nat \ {0}, NEW s, DOMAIN s = 1..k,
         \A i \in 1..k : s[i].id = first + 2 * (i - 1) /\ s[i].ts = s[i].id /\ DOMAIN s[i] = AtomFields,
         NEW new, new = {s[i].id : i \in 1..k}, new \cap T = {}
  PROVE  Stamped(A \cup Rows(s), T \cup new)
  <1>1. \A x \in A : x.id \in T /\ x.ts = x.id /\ DOMAIN x = AtomFields
    BY DEF Stamped
  <1>2. \A x \in Rows(s) : /\ x.id \in new /\ x.ts = x.id /\ DOMAIN x = AtomFields
                           /\ \E i \in 1..k : x = s[i] /\ x.id = first + 2 * (i - 1)
    BY DEF Rows
  <1>3. \A x \in A \cup Rows(s) : x.id \in T \cup new /\ x.ts = x.id /\ DOMAIN x = AtomFields
    BY <1>1, <1>2
  <1>4. \A x \in A, y \in Rows(s) : x.id # y.id
    BY <1>1, <1>2
  <1>5. \A x, y \in Rows(s) : x.id = y.id => x = y
    <2> TAKE x, y \in Rows(s)
    <2>1. PICK i \in 1..k : x = s[i] /\ x.id = first + 2 * (i - 1)
      BY <1>2
    <2>2. PICK j \in 1..k : y = s[j] /\ y.id = first + 2 * (j - 1)
      BY <1>2
    <2>3. first + 2 * (i - 1) = first + 2 * (j - 1) => i = j
      OBVIOUS
    <2> QED
      BY <2>1, <2>2, <2>3
  <1>6. \A x, y \in A \cup Rows(s) : x.id = y.id => x = y
    BY <1>4, <1>5 DEF Stamped
  <1>7. IsStamps(T \cup new)
    <2>1. \A i \in 1..k : s[i].id \in Nat \ {0}
      OBVIOUS
    <2>2. new \in SUBSET (Nat \ {0})
      BY <2>1
    <2>3. IsFiniteSet(new)
      <3> DEFINE f == [i \in 1..k |-> s[i].id]
      <3>1. f \in Surjection(1..k, new)
        BY DEF Surjection
      <3>2. IsFiniteSet(1..k)
        BY FS_Interval
      <3> HIDE DEF f
      <3> QED
        BY <3>1, <3>2, FS_Surjection
    <2>4. IsFiniteSet(T \cup new)
      BY <2>3, FS_Union DEF Stamped, IsStamps
    <2> QED
      BY <2>2, <2>4 DEF Stamped, IsStamps
  <1> QED
    BY <1>3, <1>6, <1>7 DEF Stamped

\* The probe's answer closes every orphan.
LEMMA ProbeOkTakes ==
  ASSUME AtomsInv, Feed!ProbeOk, ~feedOutage
  PROVE  /\ AtomsInv' /\ stamps \subseteq stamps'
         /\ \E made :
              /\ posts' = posts \cup Rows(made) /\ oks' = oks \cup Rows(made)
              /\ \A a \in Rows(made) : IsOk(a) /\ a.corr \in Feed!RecentOrphans /\ a.id \in stamps' \ stamps
              /\ \A c \in Feed!RecentOrphans : \E a \in Rows(made) : a.corr = c
              /\ Holds(raw', Rows(raw) \cup Rows(made), stamps')
  <1> DEFINE k == Cardinality(Feed!RecentOrphans)
             order == Feed!SetToSeq(Feed!RecentOrphans)
  <1>1. /\ order \in [1..k -> Feed!RecentOrphans] /\ k \in Nat
        /\ \A x \in Feed!RecentOrphans : \E i \in 1..k : order[i] = x
    BY OrphansInRing, OrderOf
  <1>2. PICK first \in Feed!Fresh :
          LET made == [i \in DOMAIN order |-> Feed!HealthOk(order[i], first + 2 * (i - 1))]
          IN  /\ Feed!Ids(made) \cap stamps = {} /\ stamps' = stamps \cup Feed!Ids(made)
              /\ posts' = posts \cup Feed!ToSet(made) /\ oks' = oks \cup Feed!ToSet(made)
              /\ raw' = Feed!FoldLeft(Feed!Published, raw, made)
    BY DEF Feed!ProbeOk, Feed!Closing, Feed!Emit
  <1> DEFINE made == [i \in DOMAIN order |-> Feed!HealthOk(order[i], first + 2 * (i - 1))]
             new == {made[i].id : i \in 1..k}
  <1>3. UNCHANGED <<issued, queue, localId>>
    BY DEF Feed!ProbeOk, Feed!host
  <1> HIDE DEF order, k
  <1>4. DOMAIN made = 1..k
    BY <1>1
  <1>5. \A i \in 1..k : /\ made[i].id = first + 2 * (i - 1) /\ made[i].ts = made[i].id /\ DOMAIN made[i] = AtomFields
                        /\ made[i].corr = order[i] /\ IsOk(made[i])
    <2> TAKE i \in 1..k
    <2>1. made[i] = Feed!HealthOk(order[i], first + 2 * (i - 1))
      BY <1>1
    <2> HIDE DEF made
    <2> QED
      BY <2>1, OkIs
  <1>6. made = [i \in 1..k |-> made[i]]
    BY <1>4
  <1>7. /\ Feed!Ids(made) = new /\ Feed!ToSet(made) = Rows(made)
        /\ \A i \in 1..k : made[i] \in Rows(made)
    BY <1>4, Zenon DEF Feed!ToSet, Feed!Ids, Rows
  <1>8. /\ new \cap stamps = {} /\ stamps' = stamps \cup new
        /\ posts' = posts \cup Rows(made) /\ oks' = oks \cup Rows(made)
        /\ raw' = Feed!FoldLeft(Feed!Published, raw, made)
    <2> HIDE DEF new
    <2> QED
      BY <1>2, <1>7
  <1> HIDE DEF made
  <1> DEFINE A == FeedAtoms \cup Rows(made)
  <1>9. Stamped(A, stamps')
    <2>1. first \in Nat \ {0}
      BY FreshStamp
    <2> HIDE DEF new
    <2>3. new = {made[i].id : i \in 1..k}
      BY DEF new
    <2>4. /\ k \in Nat /\ DOMAIN made = 1..k /\ new \cap stamps = {} /\ Stamped(FeedAtoms, stamps)
          /\ \A i \in 1..k : made[i].id = first + 2 * (i - 1) /\ made[i].ts = made[i].id /\ DOMAIN made[i] = AtomFields
      BY <1>1, <1>4, <1>5, <1>8, InAtoms
    <2>2. Stamped(A, stamps \cup new)
      BY <2>1, <2>3, <2>4, NewStamps, Zenon
    <2> QED
      BY <1>8, <2>2, Zenon
  <1>10. made \in Seq(A)
    <2>1. \A i \in 1..k : made[i] \in A
      BY <1>7
    <2> HIDE DEF A
    <2> QED
      BY <1>1, <1>6, <2>1
  <1>11. IsRing(raw, A) /\ issued \in Seq(A) /\ posts \cup Rows(made) \subseteq A
    BY InAtoms, RingIn, SeqIn
  <1>12. \A a \in Rows(made) : IsOk(a) /\ a.corr \in Feed!RecentOrphans /\ a.id \in stamps' \ stamps
    <2>1. \A i \in 1..k : made[i].id \in new
      OBVIOUS
    <2> HIDE DEF new
    <2>2. \A i \in 1..k : IsOk(made[i]) /\ made[i].corr \in Feed!RecentOrphans /\ made[i].id \in stamps' \ stamps
      BY <1>1, <1>5, <1>8, <2>1
    <2> QED
      BY <1>4, <2>2 DEF Rows
  <1>13. \A c \in Feed!RecentOrphans : \E a \in Rows(made) : a.corr = c
    BY <1>1, <1>4, <1>5 DEF Rows
  <1> HIDE DEF A, new
  <1>14. IsRing(raw', A) /\ Holds(raw', Rows(raw) \cup Rows(made), stamps')
    BY <1>8, <1>9, <1>10, <1>11, FoldPublished
  <1>15. localId' \in stamps' \cup {0} /\ \A a \in Rows(issued') \cup posts' : a.id # localId'
    <2>1. localId' = localId /\ localId \in stamps \cup {0} /\ \A a \in Rows(issued) \cup posts : a.id # localId
      BY <1>3 DEF AtomsInv
    <2>2. \A a \in Rows(made) : a.id # localId
      <3>1. \A a \in Rows(made) : a.id \in stamps' \ stamps /\ a.id # 0
        BY <1>9, <1>12 DEF Stamped, IsStamps
      <3> QED
        BY <2>1, <3>1
    <2> QED
      BY <1>3, <1>8, <2>1, <2>2
  <1>16. \A e \in Rows(queue') : e.kind = "notification" => \E a \in Rows(issued') : e = Feed!AtomEvent(a)
    BY <1>3 DEF AtomsInv
  <1>17. issued' \in Seq(A) /\ posts' \subseteq A
    BY <1>3, <1>8, <1>11
  <1>18. AtomsInv'
    BY <1>9, <1>14, <1>15, <1>16, <1>17, AtomsStay
  <1> QED
    BY <1>8, <1>12, <1>13, <1>14, <1>18

Coming(i) == \E s \in Feed!Slots : feedAsks[s] = <<"asked">> \/ (feedAsks[s] # <<>> /\ feedAsks[s][2] >= i)
Miss == feedWire # "down" => \A i \in DOMAIN issued : Accounted(i)

\* What keeps an atom accounted for.
LEMMA AccountsOn ==
  ASSUME AtomsInv, NEW i \in DOMAIN issued, Accounted(i), issued'[i] = issued[i],
         Len(issued') \in Nat, Len(issued) <= Len(issued'), IsStamps(stamps'), stamps \subseteq stamps',
         excused \subseteq excused',
         issued[i] \in Rows(raw) => issued[i] \in Rows(raw') \/ Out(stamps', issued[i].id),
         Feed!AtomEvent(issued[i]) \in Rows(queue) => Accounted(i)',
         Coming(i) => Accounted(i)'
  PROVE  Accounted(i)'
  <1>1. Len(issued) \in Nat /\ i \in 1..Len(issued) /\ issued[i].id \in Int
    <2>1. issued[i] \in Rows(issued)
      BY DEF Rows
    <2> QED
      BY <2>1, InAtoms
  <1>2. Rows(raw)' = Rows(raw')
    BY DEF Rows
  <1>3. issued[i] \in Rows(raw) => Accounted(i)'
    BY <1>2 DEF Accounted, Pushed
  <1>4. issued[i].id \in excused => Accounted(i)'
    BY DEF Accounted
  <1>5. Len(issued) - i >= Backlog => Accounted(i)'
    <2> SUFFICES ASSUME Len(issued) - i >= Backlog PROVE Len(issued') - i >= Backlog
      BY DEF Accounted
    <2> QED
      BY <1>1, FeedAssumption
  <1>6. Pushed(issued[i]) => Accounted(i)'
    <2> SUFFICES ASSUME Out(stamps, issued[i].id) PROVE Out(stamps', issued[i].id)
      BY DEF Accounted, Pushed
    <2> QED
      BY OutStays
  <1> QED
    BY <1>3, <1>4, <1>5, <1>6 DEF Accounted, Coming

\* The same when the host's atoms and the requests stay.
LEMMA AccountsStay ==
  ASSUME AtomsInv, AsksOK, Miss, feedWire' = feedWire \/ feedWire # "down", UNCHANGED <<issued, feedAsks>>,
         IsStamps(stamps'), stamps \subseteq stamps', excused \subseteq excused',
         \A a \in Rows(issued) \cap Rows(raw) : a \in Rows(raw') \/ Out(stamps', a.id),
         \A a \in Rows(issued) : Feed!AtomEvent(a) \in Rows(queue) =>
           \/ Feed!AtomEvent(a) \in Rows(queue') \/ a.id \in excused'
           \/ a \in Rows(raw') \/ Out(stamps', a.id)
  PROVE  AsksOK' /\ Miss'
  <1>1. AsksOK'
    BY DEF AsksOK
  <1>2. ASSUME NEW i \in DOMAIN issued, feedWire # "down"
        PROVE  Accounted(i)'
    <2>1. issued[i] \in Rows(issued) /\ Accounted(i) /\ Len(issued) \in Nat
      BY <1>2, InAtoms DEF Rows, Miss
    <2>2. Rows(raw)' = Rows(raw') /\ Rows(queue)' = Rows(queue') /\ Feed!AtomEvent(issued[i])' = Feed!AtomEvent(issued[i])
      BY DEF Rows, Feed!AtomEvent
    <2>3. Coming(i) => Accounted(i)'
      BY DEF Coming, Accounted
    <2>4. Feed!AtomEvent(issued[i]) \in Rows(queue) => Accounted(i)'
      BY <2>1, <2>2 DEF Accounted, Pushed
    <2>5. issued[i] \in Rows(raw) => issued[i] \in Rows(raw') \/ Out(stamps', issued[i].id)
      BY <2>1
    <2>6. Len(issued') \in Nat /\ Len(issued) <= Len(issued') /\ issued'[i] = issued[i]
      BY <2>1
    <2> QED
      BY <2>1, <2>3, <2>4, <2>5, <2>6, AccountsOn
  <1> QED
    BY <1>1, <1>2 DEF Miss

\* The host issues.
LEMMA IssueMisses ==
  ASSUME MissInv, FeedInv, NEW c, Feed!IssueLink(c) \/ Feed!IssueFatal(c) \/ (c \in posts /\ Feed!PostArrives(c))
  PROVE  MissInv'
  <1>0. AtomsInv /\ AsksOK /\ Miss
    BY DEF MissInv, Miss
  <1>1. /\ AtomsInv' /\ stamps \subseteq stamps' /\ IsStamps(stamps')
        /\ UNCHANGED <<raw, feedWire, feedAsks, localId>>
    BY <1>0, HostIssues DEF AtomsInv, Stamped
  <1>2. PICK a : Feed!Send(Feed!AtomEvent(a)) /\ issued' = Append(issued, a)
    BY <1>0, HostIssues
  <1> DEFINE e == Feed!AtomEvent(a)
  <1>12. PICK n : n = Len(issued)
    OBVIOUS
  <1>3. e.kind = "notification" /\ e.atom = a
    BY DEF Feed!AtomEvent
  <1>4. /\ n \in Nat /\ DOMAIN issued = 1..n /\ DOMAIN issued' = 1..(n + 1) /\ Len(issued') = n + 1
        /\ (\A i \in 1..n : issued'[i] = issued[i]) /\ issued'[n + 1] = a
    <2>1. n \in Nat /\ DOMAIN issued = 1..n /\ IsASeq(issued)
      BY <1>0, <1>12, InAtoms, SequenceOf
    <2> QED
      BY <1>2, <1>12, <2>1, Appended
  <1> HIDE DEF e
  <1>5. /\ excused \subseteq excused'
        /\ feedWire # "served" => queue' = queue
        /\ feedWire = "served" =>
             /\ e \in Rows(queue')
             /\ \A d \in Rows(queue) : d \in Rows(queue') \/ (d.kind = "notification" => d.atom.id \in excused')
        /\ feedWire = "open" /\ e.kind = "notification" =>
             e.atom.id \in excused' \/ \E s \in Feed!Slots : feedAsks[s] = <<"asked">>
    <2>1. Feed!Send(e)
      BY <1>2 DEF e
    <2> QED
      BY <2>1, SendRows DEF FeedInv, ChannelOK
  <1>6. \A i \in 1..(n + 1) : Feed!AtomEvent(issued[i])' = Feed!AtomEvent(issued'[i])
    BY DEF Feed!AtomEvent
  <1>7. Rows(queue)' = Rows(queue')
    BY DEF Rows
  <1>8. ASSUME feedWire # "down", NEW i \in 1..n
        PROVE  Accounted(i)'
    <2>1. Accounted(i) /\ i \in DOMAIN issued /\ issued'[i] = issued[i]
      BY <1>0, <1>4, <1>8 DEF Miss
    <2>2. Coming(i) => Accounted(i)'
      BY <1>1 DEF Coming, Accounted
    <2>3. Feed!AtomEvent(issued[i]) \in Rows(queue) => Accounted(i)'
      <3>1. Feed!AtomEvent(issued[i]).kind = "notification" /\ Feed!AtomEvent(issued[i]).atom = issued[i]
        BY DEF Feed!AtomEvent
      <3>2. i \in 1..(n + 1)
        BY <1>4
      <3>3. Feed!AtomEvent(issued[i]) \in Rows(queue) =>
              Feed!AtomEvent(issued[i]) \in Rows(queue') \/ issued[i].id \in excused'
        BY <1>5, <3>1
      <3> QED
        BY <1>6, <1>7, <2>1, <3>2, <3>3 DEF Accounted
    <2>4. issued[i] \in Rows(raw) => issued[i] \in Rows(raw')
      BY <1>1
    <2>5. Len(issued') \in Nat /\ Len(issued) <= Len(issued') /\ IsStamps(stamps')
      BY <1>1, <1>4, <1>12 DEF AtomsInv
    <2> QED
      BY <1>0, <1>1, <1>5, <2>1, <2>2, <2>3, <2>4, <2>5, AccountsOn
  <1>9. ASSUME feedWire # "down"
        PROVE  Accounted(n + 1)'
    <2>1. issued'[n + 1] = a /\ n + 1 \in 1..(n + 1)
      BY <1>4
    <2>2. Feed!AtomEvent(issued'[n + 1]) = e
      <3>1. \A x : x = a => Feed!AtomEvent(x) = e
        BY Zenon DEF e
      <3> QED
        BY <2>1, <3>1
    <2>3. Feed!AtomEvent(issued'[n + 1]) \in Rows(queue') => Accounted(n + 1)'
      BY DEF Accounted, Rows, Feed!AtomEvent
    <2>4. issued'[n + 1].id \in excused' => Accounted(n + 1)'
      BY DEF Accounted
    <2>5. (\E s \in Feed!Slots : feedAsks'[s] = <<"asked">>) => Accounted(n + 1)'
      BY DEF Accounted
    <2>6. CASE feedWire = "served"
      BY <1>5, <2>2, <2>3, <2>6
    <2>7. CASE feedWire = "open"
      BY <1>1, <1>3, <1>5, <2>1, <2>4, <2>5, <2>7
    <2> QED
      BY <1>9, <2>6, <2>7 DEF FeedInv, ChannelOK
  <1>10. Miss'
    <2>1. \A i \in DOMAIN issued' : i \in 1..n \/ i = n + 1
      BY <1>4
    <2>2. feedWire' = feedWire
      BY <1>1
    <2> SUFFICES ASSUME feedWire # "down", NEW i \in DOMAIN issued' PROVE Accounted(i)'
      BY <2>2 DEF Miss
    <2>3. CASE i \in 1..n
      BY <1>8, <2>3
    <2>4. CASE i = n + 1
      BY <1>9, <2>4
    <2> QED
      BY <2>1, <2>3, <2>4
  <1>11. AsksOK'
    <2>1. \A k \in 0..Len(issued) : k \in 0..Len(issued')
      BY <1>4, <1>12
    <2> QED
      BY <1>0, <1>1, <2>1 DEF AsksOK
  <1> QED
    BY <1>1, <1>10, <1>11 DEF MissInv, Miss

\* The invariant in three parts.
LEMMA MissParts ==
  (MissInv <=> AtomsInv /\ AsksOK /\ Miss) /\ (MissInv' <=> AtomsInv' /\ AsksOK' /\ Miss')
  BY DEF MissInv, Miss

\* A step that neither issues nor takes an atom.
LEMMA QuietMisses ==
  ASSUME MissInv, UNCHANGED <<issued, raw, feedAsks, localId, stamps>>, posts' \subseteq posts,
         feedWire' = feedWire \/ feedWire # "down", excused \subseteq excused',
         \A e \in Rows(queue') : e.kind = "notification" => e \in Rows(queue),
         \A d \in Rows(queue) : d.kind = "notification" => d \in Rows(queue') \/ d.atom.id \in excused'
  PROVE  MissInv'
  <1>1. AtomsInv /\ AsksOK /\ Miss
    BY MissParts
  <1>2. AtomsInv'
    BY <1>1, AtomsRest
  <1>3. IsStamps(stamps') /\ stamps \subseteq stamps'
    BY <1>1, InAtoms DEF Stamped
  <1>4. \A a : Feed!AtomEvent(a).kind = "notification" /\ Feed!AtomEvent(a).atom = a
    BY DEF Feed!AtomEvent
  <1>5. \A a \in Rows(issued) : Feed!AtomEvent(a) \in Rows(queue) =>
          Feed!AtomEvent(a) \in Rows(queue') \/ a.id \in excused'
    BY <1>4
  <1>6. AsksOK' /\ Miss'
    BY <1>1, <1>3, <1>5, AccountsStay
  <1> QED
    BY <1>2, <1>6, MissParts

\* The journal's word, the marks and the probe.
LEMMA PageMisses ==
  ASSUME MissInv, FeedInv,
         \/ \E s \in Feed!Slots : Feed!AnswerDeleted(s) \/ Feed!TakeDeleted(s)
         \/ \E a \in posts : Feed!PostFails(a)
         \/ \E c : Feed!Age(c) \/ Feed!ChangeGone(c)
         \/ \E id : Feed!MarkRead(id)
         \/ Feed!ProbeFails \/ Feed!MarkAllRead \/ Feed!SetCollapsePhaseTicks \/ Feed!Serve
         \/ Feed!ProbeOk /\ feedOutage
         \/ UNCHANGED feedVars
  PROVE  MissInv'
  <1>1. CASE \E c : Feed!ChangeGone(c)
    <2>1. PICK c : Feed!ChangeGone(c)
      BY <1>1
    <2> DEFINE e == Feed!HideEvent(c, c \notin gone)
    <2>2. UNCHANGED <<issued, raw, feedAsks, localId, stamps, posts, feedWire>> /\ Feed!Send(e)
      BY <2>1 DEF Feed!ChangeGone, Feed!page
    <2>3. e.kind = "visibility"
      BY DEF Feed!HideEvent
    <2> HIDE DEF e
    <2>4. /\ Rows(queue') \subseteq Rows(queue) \cup {e} /\ excused \subseteq excused'
          /\ \A d \in Rows(queue) : d \in Rows(queue') \/ (d.kind = "notification" => d.atom.id \in excused')
      <3>1. IsASeq(queue) /\ feedWire \in {"down", "open", "served"}
        BY DEF FeedInv, ChannelOK
      <3> QED
        BY <2>2, <3>1, SendRows
    <2> QED
      BY <2>2, <2>3, <2>4, QuietMisses
  <1>2. CASE ~ \E c : Feed!ChangeGone(c)
    <2>1. /\ UNCHANGED <<issued, raw, feedAsks, localId, stamps, queue, excused>> /\ posts' \subseteq posts
          /\ feedWire' = feedWire \/ feedWire # "down"
      BY <1>2 DEF Feed!AnswerDeleted, Feed!TakeDeleted, Feed!PostFails, Feed!Age, Feed!MarkRead, Feed!ProbeFails,
        Feed!MarkAllRead, Feed!SetCollapsePhaseTicks, Feed!Serve, Feed!ProbeOk, Feed!Emit, Feed!host, Feed!net,
        Feed!page, Feed!bounds, Feed!ghosts, feedVars
    <2>2. Rows(queue') = Rows(queue)
      BY <2>1
    <2> QED
      BY <2>1, <2>2, QuietMisses
  <1> QED
    BY <1>1, <1>2

\* A request under way brings every atom.
LEMMA AskedMisses ==
  ASSUME MissInv, AtomsInv', UNCHANGED issued, feedAsks' = [s \in Feed!Slots |-> feedAsks'[s]],
         NEW s \in Feed!Slots, feedAsks'[s] = <<"asked">> \/ feedAsks'[s] = <<"rows", Len(issued)>>,
         \A t \in Feed!Slots : t # s => feedAsks'[t] = feedAsks[t]
  PROVE  MissInv'
  <1>1. Len(issued) \in Nat /\ DOMAIN issued = 1..Len(issued)
    BY InAtoms, MissParts
  <1>2. AsksOK'
    <2>1. Len(issued) \in 0..Len(issued') /\ Len(issued') = Len(issued)
      BY <1>1
    <2>2. \A t \in Feed!Slots : \/ feedAsks'[t] = <<>> \/ feedAsks'[t] = <<"asked">>
                                \/ \E n \in 0..Len(issued') : feedAsks'[t] = <<"rows", n>>
      BY <2>1, MissParts DEF AsksOK
    <2> QED
      BY <2>2 DEF AsksOK, Feed!Slots
  <1>3. ASSUME NEW i \in DOMAIN issued
        PROVE  Accounted(i)'
    <2>1. feedAsks'[s] = <<"asked">> \/ (feedAsks'[s] # <<>> /\ feedAsks'[s][2] >= i)
      BY <1>1
    <2> QED
      BY <2>1 DEF Accounted, Feed!Slots
  <1>4. Miss'
    BY <1>3 DEF Miss
  <1> QED
    BY <1>2, <1>4, MissParts

\* The backlog is asked for.
LEMMA RefreshMisses ==
  ASSUME MissInv, Feed!RefreshNotifications, UNCHANGED <<issued, raw, localId, stamps, posts>>,
         \A e \in Rows(queue') : e.kind = "notification" => e \in Rows(queue)
  PROVE  MissInv'
  <1>1. PICK s \in Feed!Slots : feedAsks' = [feedAsks EXCEPT ![s] = <<"asked">>]
    BY DEF Feed!RefreshNotifications
  <1>2. feedAsks = [t \in Feed!Slots |-> feedAsks[t]]
    BY MissParts DEF AsksOK
  <1>3. /\ feedAsks' = [t \in Feed!Slots |-> feedAsks'[t]] /\ feedAsks'[s] = <<"asked">>
        /\ \A t \in Feed!Slots : t # s => feedAsks'[t] = feedAsks[t]
    BY <1>1, <1>2
  <1>4. AtomsInv'
    BY AtomsRest, MissParts
  <1> QED
    BY <1>3, <1>4, AskedMisses

\* The socket opens and asks.
LEMMA OpenMisses ==
  ASSUME MissInv, Feed!Open
  PROVE  MissInv'
  <1>1. UNCHANGED <<issued, raw, localId, stamps, posts, queue>> /\ Feed!RefreshNotifications
    BY DEF Feed!Open, Feed!host, Feed!page, Feed!bounds
  <1>2. Rows(queue') = Rows(queue)
    BY <1>1
  <1> QED
    BY <1>1, <1>2, RefreshMisses

\* The page takes an event.
LEMMA VisibilityMisses ==
  ASSUME MissInv, FeedInv, Feed!TakeVisibility
  PROVE  MissInv'
  <1>1. /\ UNCHANGED <<issued, raw, localId, stamps, posts, feedWire, excused>>
        /\ queue # <<>> /\ Head(queue).kind = "visibility" /\ queue' = Tail(queue)
    BY DEF Feed!TakeVisibility, Feed!host, Feed!bounds, Feed!ghosts
  <1>2. IsASeq(queue)
    BY DEF FeedInv, ChannelOK
  <1>3. /\ Len(queue) \in Nat \ {0} /\ DOMAIN queue = 1..Len(queue) /\ DOMAIN queue' = 1..(Len(queue) - 1)
        /\ (\A i \in 1..(Len(queue) - 1) : queue'[i] = queue[i + 1]) /\ Head(queue) = queue[1]
    BY <1>1, <1>2, Tailed
  <1>4. Rows(queue') \subseteq Rows(queue)
    <2>1. \A i \in 1..(Len(queue) - 1) : i + 1 \in DOMAIN queue
      BY <1>3
    <2> QED
      BY <1>3, <2>1 DEF Rows
  <1>5. \A d \in Rows(queue) : d.kind = "notification" => d \in Rows(queue')
    <2> SUFFICES ASSUME NEW i \in 1..Len(queue), i # 1 PROVE queue[i] \in Rows(queue')
      BY <1>1, <1>3 DEF Rows
    <2>1. i - 1 \in 1..(Len(queue) - 1) /\ (i - 1) + 1 = i
      BY <1>3
    <2>2. queue'[i - 1] = queue[i]
      BY <1>3, <2>1
    <2> QED
      BY <1>3, <2>1, <2>2 DEF Rows
  <1>6. feedAsks' = feedAsks \/ Feed!RefreshNotifications
    BY DEF Feed!TakeVisibility
  <1>7. CASE feedAsks' = feedAsks
    BY <1>1, <1>4, <1>5, <1>7, QuietMisses
  <1>8. CASE Feed!RefreshNotifications
    BY <1>1, <1>4, <1>8, RefreshMisses
  <1> QED
    BY <1>6, <1>7, <1>8

\* An atom taken is in the ring.
LEMMA AtomMisses ==
  ASSUME MissInv, FeedInv, Feed!TakeAtom
  PROVE  MissInv'
  <1> DEFINE a == Head(queue).atom
  <1>0. AtomsInv /\ AsksOK /\ Miss
    BY MissParts
  <1>1. /\ AtomsInv' /\ UNCHANGED <<issued, stamps, feedAsks, feedWire, excused>>
        /\ a \in Rows(issued) /\ Holds(raw', Rows(raw) \cup {a}, stamps)
        /\ \A d \in Rows(queue) : d \in Rows(queue') \/ d = Feed!AtomEvent(a)
    BY <1>0, TakeAtomTakes
  <1> HIDE DEF a
  <1>2. IsStamps(stamps)
    BY <1>0, InAtoms DEF Stamped
  <1>3. \A b \in Rows(raw) \cup {a} : b \in Rows(raw') \/ Out(stamps', b.id)
    BY <1>1 DEF Holds
  <1>4. \A b \in Rows(issued) : Feed!AtomEvent(b) \in Rows(queue) =>
          Feed!AtomEvent(b) \in Rows(queue') \/ b \in Rows(raw') \/ Out(stamps', b.id)
    <2>1. \A b : Feed!AtomEvent(b) = Feed!AtomEvent(a) => b = a
      <3>1. \A b : Feed!AtomEvent(b).atom = b
        BY DEF Feed!AtomEvent
      <3> QED
        BY <3>1
    <2> QED
      BY <1>1, <1>3, <2>1
  <1>5. IsStamps(stamps') /\ stamps \subseteq stamps' /\ excused \subseteq excused'
    BY <1>1, <1>2
  <1>6. \A b \in Rows(issued) \cap Rows(raw) : b \in Rows(raw') \/ Out(stamps', b.id)
    BY <1>3
  <1>7. UNCHANGED <<issued, feedAsks>> /\ feedWire' = feedWire
    BY <1>1
  <1>8. AsksOK' /\ Miss'
    BY <1>0, <1>4, <1>5, <1>6, <1>7, AccountsStay
  <1> QED
    BY <1>1, <1>8, MissParts

\* A backlog taken brings the atoms it promised.
LEMMA BacklogMisses ==
  ASSUME MissInv, NEW s \in Feed!Slots, Feed!TakeBacklog(s)
  PROVE  MissInv'
  <1>0. AtomsInv /\ AsksOK /\ Miss
    BY MissParts
  <1>1. /\ AtomsInv' /\ UNCHANGED <<issued, stamps, queue, feedWire, excused>>
        /\ feedAsks' = [feedAsks EXCEPT ![s] = <<>>]
    BY <1>0, TakeBacklogTakes
  <1>2. PICK n \in 0..Len(issued) :
          LET first == IF n > Backlog THEN n - Backlog + 1 ELSE 1
              rows == SubSeq(issued, first, n)
          IN  /\ feedAsks[s] = <<"rows", n>>
              /\ first \in 1..(n + 1) /\ (first > 1 => n - first + 1 >= Backlog)
              /\ rows \in Seq(FeedAtoms) /\ Rows(rows) = {issued[i] : i \in first..n}
              /\ raw' = Feed!FoldLeft(Feed!Published, raw, rows)
              /\ Holds(raw', Rows(raw) \cup Rows(rows), stamps)
    BY <1>0, TakeBacklogTakes
  <1> DEFINE first == IF n > Backlog THEN n - Backlog + 1 ELSE 1
             rows == SubSeq(issued, first, n)
  <1>3. /\ feedAsks[s] = <<"rows", n>>
        /\ first \in 1..(n + 1) /\ (first > 1 => n - first + 1 >= Backlog)
        /\ Rows(rows) = {issued[i] : i \in first..n}
        /\ Holds(raw', Rows(raw) \cup Rows(rows), stamps)
    BY <1>2
  <1> HIDE DEF rows, first
  <1>4. IsStamps(stamps) /\ Len(issued) \in Nat /\ DOMAIN issued = 1..Len(issued) /\ n \in Nat
    BY <1>0, InAtoms DEF Stamped
  <1>5. feedAsks = [t \in Feed!Slots |-> feedAsks[t]]
    BY <1>0 DEF AsksOK
  <1>6. /\ feedAsks' = [t \in Feed!Slots |-> feedAsks'[t]] /\ feedAsks'[s] = <<>>
        /\ \A t \in Feed!Slots : t # s => feedAsks'[t] = feedAsks[t]
    BY <1>1, <1>5
  <1>7. AsksOK'
    <2>1. \A t \in Feed!Slots : \/ feedAsks'[t] = <<>> \/ feedAsks'[t] = <<"asked">>
                                \/ \E k \in 0..Len(issued') : feedAsks'[t] = <<"rows", k>>
      BY <1>0, <1>1, <1>6 DEF AsksOK
    <2> QED
      BY <1>6, <2>1 DEF AsksOK, Feed!Slots
  <1>8. ASSUME feedWire # "down", NEW i \in DOMAIN issued
        PROVE  Accounted(i)'
    <2>1. i \in 1..Len(issued) /\ Accounted(i)
      BY <1>0, <1>4, <1>8 DEF Miss
    <2>2. issued[i] \in Rows(raw) \cup Rows(rows) => issued[i] \in Rows(raw') \/ Out(stamps', issued[i].id)
      BY <1>1, <1>3 DEF Holds
    <2>3. issued[i] \in Rows(raw') \/ Out(stamps', issued[i].id) => Accounted(i)'
      BY <1>1 DEF Accounted, Pushed, Rows
    <2>4. CASE i \in first..n
      BY <1>3, <2>2, <2>3, <2>4
    <2>5. CASE i < first /\ i <= n
      <3>1. Len(issued') - i >= Backlog
        <4>1. first > 1 /\ n - first + 1 >= Backlog /\ n <= Len(issued)
          BY <1>3, <2>1, <2>5
        <4>2. Len(issued) - i >= Backlog
          BY <1>3, <1>4, <2>1, <2>5, <4>1, FeedAssumption
        <4> QED
          BY <1>1, <4>2
      <3> QED
        BY <3>1 DEF Accounted
    <2>6. CASE i > n
      <3>1. Coming(i) => Accounted(i)'
        <4> SUFFICES ASSUME Coming(i) PROVE Accounted(i)'
          OBVIOUS
        <4>1. PICK t \in Feed!Slots : feedAsks[t] = <<"asked">> \/ (feedAsks[t] # <<>> /\ feedAsks[t][2] >= i)
          BY DEF Coming
        <4>2. t # s
          <5>1. feedAsks[s] # <<"asked">> /\ feedAsks[s][2] = n
            BY <1>3
          <5>2. ~(n >= i)
            BY <1>4, <2>1, <2>6
          <5> QED
            BY <4>1, <5>1, <5>2
        <4>3. feedAsks'[t] = feedAsks[t]
          BY <1>6, <4>2
        <4> QED
          BY <4>1, <4>3 DEF Accounted, Feed!Slots
      <3>2. Feed!AtomEvent(issued[i]) \in Rows(queue) => Accounted(i)'
        BY <1>1 DEF Accounted, Rows, Feed!AtomEvent
      <3>3. Len(issued') \in Nat /\ Len(issued) <= Len(issued') /\ IsStamps(stamps') /\ stamps \subseteq stamps'
            /\ issued'[i] = issued[i] /\ excused \subseteq excused'
        BY <1>1, <1>4
      <3> QED
        BY <1>0, <2>1, <2>2, <3>1, <3>2, <3>3, AccountsOn
    <2>7. i \in first..n \/ (i < first /\ i <= n) \/ i > n
      BY <1>3, <1>4, <2>1
    <2> QED
      BY <2>4, <2>5, <2>6, <2>7
  <1>9. Miss'
    BY <1>1, <1>8 DEF Miss
  <1> QED
    BY <1>1, <1>7, <1>9, MissParts

\* A request is answered with all there is.
LEMMA AnswerMisses ==
  ASSUME MissInv, NEW s \in Feed!Slots, Feed!AnswerBacklog(s)
  PROVE  MissInv'
  <1>1. /\ UNCHANGED <<issued, raw, localId, stamps, posts, queue>>
        /\ feedAsks' = [feedAsks EXCEPT ![s] = <<"rows", Len(issued)>>]
    BY DEF Feed!AnswerBacklog, Feed!host, Feed!page, Feed!bounds
  <1>2. feedAsks = [t \in Feed!Slots |-> feedAsks[t]]
    BY MissParts DEF AsksOK
  <1>3. /\ feedAsks' = [t \in Feed!Slots |-> feedAsks'[t]] /\ feedAsks'[s] = <<"rows", Len(issued)>>
        /\ \A t \in Feed!Slots : t # s => feedAsks'[t] = feedAsks[t]
    BY <1>1, <1>2
  <1>4. Rows(queue') = Rows(queue)
    BY <1>1
  <1>5. AtomsInv'
    BY <1>1, <1>4, AtomsRest, MissParts
  <1> QED
    BY <1>1, <1>3, <1>5, AskedMisses

\* A request that fails excuses what it would have brought.
LEMMA FailMisses ==
  ASSUME MissInv, NEW s \in Feed!Slots, Feed!AskFails(s)
  PROVE  MissInv'
  <1>0. AtomsInv /\ AsksOK /\ Miss
    BY MissParts
  <1>1. UNCHANGED <<issued, raw, localId, stamps, posts, queue, feedWire>>
    BY DEF Feed!AskFails, Feed!host, Feed!page, Feed!bounds
  <1>2. Rows(queue') = Rows(queue)
    BY <1>1
  <1>3. CASE UNCHANGED <<feedAsks, excused>>
    BY <1>1, <1>2, <1>3, QuietMisses
  <1>4. CASE feedAsks' = [feedAsks EXCEPT ![s] = <<>>] /\ excused' = excused \cup Feed!Ids(issued)
    <2>1. AtomsInv'
      BY <1>0, <1>1, <1>2, AtomsRest
    <2>2. feedAsks = [t \in Feed!Slots |-> feedAsks[t]]
      BY <1>0 DEF AsksOK
    <2>3. /\ feedAsks' = [t \in Feed!Slots |-> feedAsks'[t]] /\ feedAsks'[s] = <<>>
          /\ \A t \in Feed!Slots : t # s => feedAsks'[t] = feedAsks[t]
      BY <1>4, <2>2
    <2>4. AsksOK'
      <3>1. \A t \in Feed!Slots : \/ feedAsks'[t] = <<>> \/ feedAsks'[t] = <<"asked">>
                                  \/ \E k \in 0..Len(issued') : feedAsks'[t] = <<"rows", k>>
        BY <1>0, <1>1, <2>3 DEF AsksOK
      <3> QED
        BY <2>3, <3>1 DEF AsksOK, Feed!Slots
    <2>5. ASSUME NEW i \in DOMAIN issued PROVE Accounted(i)'
      <3>1. issued'[i].id \in excused'
        BY <1>1, <1>4 DEF Feed!Ids
      <3> QED
        BY <3>1 DEF Accounted
    <2>6. Miss'
      BY <1>1, <2>5 DEF Miss
    <2> QED
      BY <2>1, <2>4, <2>6, MissParts
  <1> QED
    BY <1>3, <1>4 DEF Feed!AskFails

\* The rows of the host's atoms stay in the ring, or newer ones push them out.
LEMMA RingMisses ==
  ASSUME MissInv, AtomsInv', UNCHANGED <<issued, queue, feedAsks, excused, feedWire>>, stamps \subseteq stamps',
         \A a \in Rows(issued) \cap Rows(raw) : a \in Rows(raw') \/ Out(stamps', a.id)
  PROVE  MissInv'
  <1>0. AtomsInv /\ AsksOK /\ Miss
    BY MissParts
  <1>1. IsStamps(stamps')
    BY DEF AtomsInv, Stamped
  <1>2. Rows(queue') = Rows(queue)
    OBVIOUS
  <1>3. AsksOK' /\ Miss'
    BY <1>0, <1>1, <1>2, AccountsStay
  <1> QED
    BY <1>3, MissParts

\* The probe's answer adds rows.
LEMMA ProbeMisses ==
  ASSUME MissInv, Feed!ProbeOk, ~feedOutage
  PROVE  MissInv'
  <1>0. AtomsInv
    BY MissParts
  <1>1. PICK made : Holds(raw', Rows(raw) \cup Rows(made), stamps')
    BY <1>0, ProbeOkTakes
  <1>2. AtomsInv' /\ UNCHANGED <<issued, queue, feedAsks, excused, feedWire>>
    BY <1>0, ProbeOkTakes DEF Feed!ProbeOk, Feed!host
  <1>3. stamps \subseteq stamps'
    BY <1>0, ProbeOkTakes
  <1>4. \A a \in Rows(raw) : a \in Rows(raw') \/ Out(stamps', a.id)
    BY <1>1 DEF Holds
  <1> QED
    BY <1>2, <1>3, <1>4, RingMisses

\* The outage's row is not the host's.
LEMMA SettledMisses ==
  ASSUME MissInv, Feed!Settled
  PROVE  MissInv'
  <1>1. AtomsInv' /\ UNCHANGED <<issued, stamps, queue, feedWire, feedAsks, excused>>
        /\ \A a \in Rows(issued) \cap Rows(raw) : a \in Rows(raw')
    BY SettledTakes, MissParts
  <1>2. stamps \subseteq stamps'
    BY <1>1, InAtoms, MissParts
  <1> QED
    BY <1>1, <1>2, RingMisses

\* Without a socket nothing is missed yet.
LEMMA DownMisses ==
  ASSUME MissInv, Feed!Drop \/ Feed!Reload
  PROVE  MissInv'
  <1>0. AtomsInv /\ AsksOK
    BY MissParts
  <1>1. AtomsInv' /\ feedWire' = "down" /\ issued' = issued
    BY <1>0, DropTakes, ReloadTakes DEF Feed!Reload, Feed!host
  <1>2. Miss'
    BY <1>1 DEF Miss
  <1>3. AsksOK'
    <2>1. CASE Feed!Drop
      <3>1. feedAsks' = feedAsks
        BY <2>1 DEF Feed!Drop
      <3> QED
        BY <1>0, <1>1, <3>1 DEF AsksOK, Feed!Slots
    <2>2. CASE Feed!Reload
      <3>1. feedAsks' = [s \in Feed!Slots |-> IF s = 1 THEN <<"asked">> ELSE <<>>]
        BY <2>2 DEF Feed!Reload
      <3>2. \A s \in Feed!Slots : feedAsks'[s] = <<>> \/ feedAsks'[s] = <<"asked">>
        BY <3>1
      <3>3. feedAsks' = [s \in Feed!Slots |-> feedAsks'[s]]
        BY <3>1
      <3> QED
        BY <3>2, <3>3 DEF AsksOK, Feed!Slots
    <2> QED
      BY <2>1, <2>2
  <1> QED
    BY <1>1, <1>2, <1>3, MissParts

\* Nothing is issued at the start.
LEMMA InitMisses ==
  ASSUME Feed!Init
  PROVE  MissInv
  <1>1. /\ issued = <<>> /\ raw = <<>> /\ queue = <<>> /\ posts = {} /\ stamps = {} /\ localId = 0
        /\ feedAsks = [s \in Feed!Slots |-> IF s = 1 THEN <<"asked">> ELSE <<>>]
    BY DEF Feed!Init
  <1>2. Rows(<<>>) = {}
    BY DEF Rows
  <1>3. FeedAtoms = {}
    BY <1>1, <1>2 DEF FeedAtoms
  <1>4. AtomsInv
    <2>1. Stamped({}, {}) /\ <<>> \in Seq({}) /\ IsRing(<<>>, {})
      BY FS_EmptySet, FeedAssumption DEF Stamped, IsStamps, IsRing, Descends
    <2> QED
      BY <1>1, <1>2, <1>3, <2>1 DEF AtomsInv
  <1>5. AsksOK
    <2>1. \A s \in Feed!Slots : feedAsks[s] = <<>> \/ feedAsks[s] = <<"asked">>
      BY <1>1
    <2>2. feedAsks = [s \in Feed!Slots |-> feedAsks[s]]
      BY <1>1
    <2> QED
      BY <2>1, <2>2 DEF AsksOK
  <1>6. Miss
    BY <1>1 DEF Miss
  <1> QED
    BY <1>4, <1>5, <1>6, MissParts

\* The feed's second inductive invariant: atoms are told apart by their stamps, the ring
\* is in their order, and with a socket each atom of the host is in the ring, on its way
\* or excused (NotificationBus, useNotifications and the host's buffer).
THEOREM MissInvariant == Feed!Spec => [](FeedInv /\ MissInv)
  <1>1. FeedInv /\ MissInv /\ [Feed!Next]_(Feed!vars) => MissInv'
    <2> SUFFICES ASSUME FeedInv, MissInv, [Feed!Next]_(Feed!vars) PROVE MissInv'
      OBVIOUS
    <2>1. ASSUME NEW c, Feed!IssueLink(c) \/ Feed!IssueFatal(c) \/ (c \in posts /\ Feed!PostArrives(c))
          PROVE  MissInv'
      BY <2>1, IssueMisses
    <2>2. ASSUME NEW s \in Feed!Slots, Feed!AnswerBacklog(s) \/ Feed!TakeBacklog(s) \/ Feed!AskFails(s)
          PROVE  MissInv'
      BY <2>2, AnswerMisses, BacklogMisses, FailMisses
    <2>3. CASE Feed!TakeAtom \/ Feed!TakeVisibility
      BY <2>3, AtomMisses, VisibilityMisses
    <2>4. CASE Feed!Open \/ Feed!Drop \/ Feed!Reload \/ Feed!Settled
      BY <2>4, OpenMisses, DownMisses, SettledMisses
    <2>5. CASE Feed!ProbeOk /\ ~feedOutage
      BY <2>5, ProbeMisses
    <2>6. CASE \/ \E s \in Feed!Slots : Feed!AnswerDeleted(s) \/ Feed!TakeDeleted(s)
               \/ \E a \in posts : Feed!PostFails(a)
               \/ \E c : Feed!Age(c) \/ Feed!ChangeGone(c)
               \/ \E id : Feed!MarkRead(id)
               \/ Feed!ProbeFails \/ Feed!MarkAllRead \/ Feed!SetCollapsePhaseTicks \/ Feed!Serve
               \/ Feed!ProbeOk /\ feedOutage
               \/ UNCHANGED feedVars
      BY <2>6, PageMisses
    <2>7. UNCHANGED Feed!vars => UNCHANGED feedVars
      BY DEF feedVars, Feed!vars, Feed!host, Feed!net, Feed!page, Feed!bounds, Feed!ghosts
    <2> QED
      BY <2>1, <2>2, <2>3, <2>4, <2>5, <2>6, <2>7 DEF Feed!Next
  <1> QED
    BY <1>1, FeedInvariant, InitMisses, PTL DEF Feed!Spec

\* An atom that is accounted for is not missed.
LEMMA AccountedIsNotMissed ==
  ASSUME MissInv
  PROVE  Feed!NothingMissed
  <1>4. \A a : a.ts = a.id /\ Out(stamps, a.id) => Feed!Pushed(a.ts)
    <2>1. \A t : Out(stamps, t) <=> Feed!Pushed(t)
      BY SameCount DEF Out, After, Feed!Pushed
    <2> QED
      BY <2>1
  <1> SUFFICES ASSUME feedWire = "served", NEW i \in DOMAIN issued
               PROVE  \/ issued[i].id \in Feed!Ids(raw)
                      \/ Feed!AtomEvent(issued[i]) \in Feed!ToSet(queue)
                      \/ \E s \in Feed!Slots : feedAsks[s] = <<"asked">> \/ (feedAsks[s] # <<>> /\ feedAsks[s][2] >= i)
                      \/ issued[i].id \in excused
                      \/ Len(issued) - i >= Backlog
                      \/ Feed!Pushed(issued[i].ts)
    BY DEF Feed!NothingMissed
  <1>1. Accounted(i)
    BY DEF MissInv
  <1>2. issued[i] \in Rows(raw) => issued[i].id \in Feed!Ids(raw)
    BY DEF Rows, Feed!Ids
  <1>3. Rows(queue) = Feed!ToSet(queue)
    BY DEF Rows, Feed!ToSet
  <1>5. issued[i].ts = issued[i].id
    BY InAtoms, StampsAre DEF MissInv, Rows
  <1> QED
    BY <1>1, <1>2, <1>3, <1>4, <1>5 DEF Accounted, Pushed

\* What the atoms are: of a link, of a request, of the page.
Resolved(a) == a.status = "resolved"
TellsBreak(a) == a.data.hint = "incident" /\ a.data.kind = "break" /\ a.data.groupKind = Feed!None
WellMade(a) ==
  \/ /\ a.corr \in Links /\ TellsBreak(a)
     /\ \/ a.code \in {"connection.lost", "connection.reconnecting"} /\ a.status \in {"active", "underway"}
        \/ a.code = "connection.recovered" /\ a.status = "resolved"
  \/ a.corr \in Requests /\ (IsOk(a) \/ (Feed!IsFatal(a) /\ a.status = Feed!None /\ Untold(a)))
  \/ a.corr = Feed!None /\ a.code = "host.unreachable" /\ a.status = Feed!None
ThreadsInv ==
  /\ \A a \in FeedAtoms : WellMade(a)
  /\ \A a \in posts : IsOk(a) /\ a.corr \in Requests
  /\ \A a \in FeedAtoms : a.corr \in Links \/ Feed!IsFatal(a) => a \in Rows(issued)
  /\ \A a \in FeedAtoms : a.corr \in Requests => \E b \in Rows(issued) : b.corr = a.corr
  /\ \A a, b \in Rows(issued) : Feed!IsFatal(a) /\ Feed!IsFatal(b) /\ a.corr = b.corr => a = b
  /\ \A a \in FeedAtoms : a.id = localId => ~Resolved(a)
  /\ \A a \in FeedAtoms : IsOk(a) => a \in oks
  /\ \A o \in oks : IsOk(o) /\ o.ts = o.id

\* An entry is appended: the rows are the old ones and it.
LEMMA AppendRows ==
  ASSUME NEW A, NEW s \in Seq(A), NEW a
  PROVE  /\ Rows(Append(s, a)) = Rows(s) \cup {a} /\ Len(s) \in Nat /\ DOMAIN s = 1..Len(s)
         /\ DOMAIN Append(s, a) = 1..(Len(s) + 1)
         /\ (\A i \in 1..Len(s) : Append(s, a)[i] = s[i]) /\ Append(s, a)[Len(s) + 1] = a
  <1> DEFINE t == Append(s, a)
  <1>1. IsASeq(s) /\ Len(s) \in Nat /\ DOMAIN s = 1..Len(s)
    BY SequenceOf
  <1>2. /\ DOMAIN t = 1..(Len(s) + 1)
        /\ (\A i \in 1..Len(s) : t[i] = s[i]) /\ t[Len(s) + 1] = a
    BY <1>1, Appended
  <1> HIDE DEF t
  <1>3. \A i \in 1..(Len(s) + 1) : i \in 1..Len(s) \/ i = Len(s) + 1
    BY <1>1
  <1>4. Rows(t) \subseteq Rows(s) \cup {a}
    BY <1>1, <1>2, <1>3 DEF Rows
  <1>5. \A i \in 1..Len(s) : i \in DOMAIN t
    BY <1>1, <1>2
  <1>6. Rows(s) \subseteq Rows(t)
    BY <1>1, <1>2, <1>5 DEF Rows
  <1>7. Len(s) + 1 \in DOMAIN t
    BY <1>1, <1>2
  <1>8. a \in Rows(t)
    BY <1>2, <1>7 DEF Rows
  <1> QED
    BY <1>1, <1>2, <1>4, <1>6, <1>8 DEF t

\* What an atom of each kind is to the projection: closed, fatal, a tick.
LEMMA WellMadeIs ==
  ASSUME NEW a, WellMade(a)
  PROVE  /\ Feed!IsTerminalClose(a) <=> Resolved(a)
         /\ Feed!ResolveStatus(a) = "resolved" <=> Resolved(a)
         /\ Resolved(a) => ~Feed!IsI2PhaseTick(a)
         /\ Feed!IsFatal(a) => a.corr \in Requests /\ ~Resolved(a) /\ ~Feed!IsI2PhaseTick(a)
         /\ IsOk(a) => Resolved(a) /\ ~Feed!IsFatal(a)
         /\ a.corr \in Links => ~Feed!IsFatal(a) /\ ~IsOk(a)
         /\ a.corr \in Requests => IsOk(a) \/ Feed!IsFatal(a)
  BY CorrsAssumption DEF WellMade, Resolved, IsOk, Feed!IsFatal, Feed!IsTerminalClose, Feed!ResolveStatus,
     Feed!TerminalCloseCodes, Feed!IsI2PhaseTick, Feed!ProgressCodes, Feed!None

\* New atoms keep ThreadsInv when each is well made and kept where its kind is.
LEMMA ThreadsStep ==
  ASSUME ThreadsInv, NEW N, FeedAtoms' \subseteq FeedAtoms \cup N, Rows(issued) \subseteq Rows(issued'),
         \A a \in posts' : IsOk(a) /\ a.corr \in Requests,
         \A a \in N : WellMade(a),
         \A a \in N : a.corr \in Links \/ Feed!IsFatal(a) => a \in Rows(issued'),
         \A a \in N : a.corr \in Requests => \E b \in Rows(issued') : b.corr = a.corr,
         \A a, b \in Rows(issued') : Feed!IsFatal(a) /\ Feed!IsFatal(b) /\ a.corr = b.corr => a = b,
         \A a \in FeedAtoms \cup N : a.id = localId' => ~Resolved(a),
         oks \subseteq oks', \A a \in N : IsOk(a) => a \in oks', \A o \in oks' : IsOk(o) /\ o.ts = o.id
  PROVE  ThreadsInv'
  <1>1. Rows(issued)' = Rows(issued')
    BY DEF Rows
  <1>2. \A a : (WellMade(a)' <=> WellMade(a)) /\ (Resolved(a)' <=> Resolved(a)) /\ (IsOk(a)' <=> IsOk(a))
               /\ (Feed!IsFatal(a)' <=> Feed!IsFatal(a))
    BY DEF WellMade, Resolved, IsOk, Feed!IsFatal
  <1>6. \A a \in FeedAtoms' : WellMade(a)
    BY DEF ThreadsInv
  <1>7. \A a \in FeedAtoms' : a.corr \in Links \/ Feed!IsFatal(a) => a \in Rows(issued')
    BY DEF ThreadsInv
  <1>8. \A a \in FeedAtoms' : a.corr \in Requests => \E b \in Rows(issued') : b.corr = a.corr
    BY DEF ThreadsInv
  <1>9. \A a \in FeedAtoms' : a.id = localId' => ~Resolved(a)
    OBVIOUS
  <1>10. \A a \in FeedAtoms' : IsOk(a) => a \in oks'
    BY DEF ThreadsInv
  <1> QED
    BY <1>1, <1>2, <1>6, <1>7, <1>8, <1>9, <1>10 DEF ThreadsInv

\* A step without a new atom.
LEMMA ThreadsStay ==
  ASSUME AtomsInv, ThreadsInv, UNCHANGED <<issued, oks>>, posts' \subseteq posts,
         Rows(raw') \subseteq Rows(raw) \cup Rows(issued), localId' = localId \/ localId' = 0
  PROVE  ThreadsInv'
  <1>0. PICK N : N = {}
    OBVIOUS
  <1>1. FeedAtoms' \subseteq FeedAtoms \cup N
    BY DEF FeedAtoms, Rows
  <1>2. \A a \in FeedAtoms : a.id # 0
    <2>1. \A a \in FeedAtoms : a.id \in Nat \ {0}
      BY InAtoms
    <2> QED
      BY <2>1
  <1>3. \A a \in FeedAtoms \cup N : a.id = localId' => ~Resolved(a)
    BY <1>0, <1>2 DEF ThreadsInv
  <1>4. /\ \A a, b \in Rows(issued') : Feed!IsFatal(a) /\ Feed!IsFatal(b) /\ a.corr = b.corr => a = b
        /\ \A a \in posts' : IsOk(a) /\ a.corr \in Requests
        /\ oks \subseteq oks' /\ \A o \in oks' : IsOk(o) /\ o.ts = o.id
    BY DEF ThreadsInv
  <1>5. \A a \in N : FALSE
    BY <1>0
  <1>6. Rows(issued) \subseteq Rows(issued')
    OBVIOUS
  <1> QED
    BY <1>1, <1>3, <1>4, <1>5, <1>6, ThreadsStep

\* The host issues an atom of a link.
LEMMA LinkThreads ==
  ASSUME AtomsInv, ThreadsInv, NEW c \in Links, Feed!IssueLink(c)
  PROVE  /\ ThreadsInv' /\ UNCHANGED <<raw, feedHeard, probing, forsaken, aged, oks>> /\ stamps \subseteq stamps'
         /\ \A b \in Rows(issued') : b \in Rows(issued) \/ ~Feed!IsFatal(b)
         /\ Rows(issued) \subseteq Rows(issued')
  <1>1. PICK a : /\ issued' = Append(issued, a) /\ a.id \in Feed!Fresh /\ stamps' = stamps \cup {a.id}
                 /\ WellMade(a) /\ a.corr = c
    <2> DEFINE link == [Feed!NoData EXCEPT !.hint = "incident", !.kind = "break"]
               auto == [link EXCEPT !.sender = "auto"]
               closed == [link EXCEPT !.outcome = "recovered"]
               X(t) == Feed!Atom(t, "connection.lost", "warning", "active", c, link)
               Y(t) == Feed!Atom(t, "connection.reconnecting", "error", "underway", c, auto)
               Z(t) == Feed!Atom(t, "connection.recovered", "ok", "resolved", c, closed)
    <2>1. PICK t \in Feed!Fresh : /\ stamps' = stamps \cup {t}
                                  /\ Feed!Issue(X(t)) \/ Feed!Issue(Y(t)) \/ Feed!Issue(Z(t))
      BY DEF Feed!IssueLink
    <2>4. /\ link.hint = "incident" /\ link.kind = "break" /\ link.groupKind = Feed!None
          /\ auto.hint = "incident" /\ auto.kind = "break" /\ auto.groupKind = Feed!None
          /\ closed.hint = "incident" /\ closed.kind = "break" /\ closed.groupKind = Feed!None
      BY DEF Feed!NoData
    <2> HIDE DEF link, auto, closed
    <2>2. /\ X(t).id = t /\ WellMade(X(t)) /\ X(t).corr = c
          /\ Y(t).id = t /\ WellMade(Y(t)) /\ Y(t).corr = c
          /\ Z(t).id = t /\ WellMade(Z(t)) /\ Z(t).corr = c
      BY <2>4 DEF Feed!Atom, WellMade, TellsBreak
    <2> HIDE DEF X, Y, Z
    <2>3. \A u : Feed!Issue(u) => issued' = Append(issued, u)
      BY DEF Feed!Issue
    <2> QED
      BY <2>1, <2>2, <2>3
  <1>2. UNCHANGED <<raw, posts, localId, oks>>
    BY DEF Feed!IssueLink, Feed!page
  <1>3. Rows(issued') = Rows(issued) \cup {a}
    BY <1>1, InAtoms, AppendRows
  <1>7. FeedAtoms' \subseteq FeedAtoms \cup {a}
    <2>1. Rows(raw') = Rows(raw) /\ FeedAtoms' = Rows(issued') \cup Rows(raw') \cup posts'
      BY <1>2 DEF FeedAtoms, Rows
    <2> QED
      BY <1>2, <1>3, <2>1 DEF FeedAtoms
  <1>9. ~Feed!IsFatal(a) /\ ~IsOk(a)
    BY <1>1, WellMadeIs
  <1>10. \A x, y \in Rows(issued') : Feed!IsFatal(x) /\ Feed!IsFatal(y) /\ x.corr = y.corr => x = y
    BY <1>3, <1>9 DEF ThreadsInv
  <1>11. \A x \in FeedAtoms \cup {a} : x.id = localId' => ~Resolved(x)
    <2>1. a.id # localId'
      <3>1. a.id \notin stamps /\ a.id # 0
        BY <1>1, FreshStamp
      <3> QED
        BY <1>1, <1>2, <3>1 DEF AtomsInv
    <2> QED
      BY <1>2, <2>1 DEF ThreadsInv
  <1>13. (\A x \in posts' : IsOk(x) /\ x.corr \in Requests) /\ \A o \in oks' : IsOk(o) /\ o.ts = o.id
    BY <1>2 DEF ThreadsInv
  <1>14. PICK N : N = {a}
    OBVIOUS
  <1>15. /\ FeedAtoms' \subseteq FeedAtoms \cup N /\ Rows(issued) \subseteq Rows(issued')
         /\ \A x \in N : WellMade(x)
         /\ \A x \in N : x.corr \in Links \/ Feed!IsFatal(x) => x \in Rows(issued')
         /\ \A x \in N : x.corr \in Requests => \E b \in Rows(issued') : b.corr = x.corr
         /\ \A x \in FeedAtoms \cup N : x.id = localId' => ~Resolved(x)
         /\ oks \subseteq oks' /\ \A x \in N : IsOk(x) => x \in oks'
    BY <1>1, <1>2, <1>3, <1>7, <1>9, <1>11, <1>14, CorrsAssumption
  <1>16. ThreadsInv'
    BY <1>10, <1>13, <1>15, ThreadsStep
  <1>17. UNCHANGED <<feedHeard, probing, forsaken, aged>> /\ stamps \subseteq stamps'
    BY <1>1 DEF Feed!IssueLink, Feed!page
  <1> QED
    BY <1>2, <1>3, <1>9, <1>16, <1>17

\* A request fails at the host.
LEMMA FatalThreads ==
  ASSUME AtomsInv, ThreadsInv, NEW c \in Requests, Feed!IssueFatal(c)
  PROVE  /\ ThreadsInv' /\ UNCHANGED <<raw, feedHeard, probing, forsaken, aged, oks>> /\ stamps \subseteq stamps'
         /\ \A b \in Rows(issued) : b.corr # c
         /\ \A b \in Rows(issued') : b \in Rows(issued) \/ b.corr = c
         /\ Rows(issued) \subseteq Rows(issued')
  <1>1. PICK a : /\ issued' = Append(issued, a) /\ a.id \in Feed!Fresh /\ stamps' = stamps \cup {a.id}
                 /\ WellMade(a) /\ a.corr = c /\ ~Resolved(a)
    <2> DEFINE X(t) == Feed!Atom(t, "ohs.unhandled", "critical", Feed!None, c, Feed!NoData)
    <2>1. PICK t \in Feed!Fresh : stamps' = stamps \cup {t} /\ Feed!Issue(X(t))
      BY DEF Feed!IssueFatal
    <2>2. X(t).id = t /\ WellMade(X(t)) /\ X(t).corr = c /\ ~Resolved(X(t))
      <3>1. LET d == Feed!NoData IN d.hint = Feed!None /\ d.kind = Feed!None /\ d.groupKind = Feed!None /\ d.outcome = Feed!None
        BY DEF Feed!NoData
      <3> QED
        BY <3>1 DEF Feed!Atom, WellMade, Feed!IsFatal, Resolved, Untold, Feed!None
    <2> HIDE DEF X
    <2> QED
      BY <2>1, <2>2 DEF Feed!Issue
  <1>2. UNCHANGED <<raw, posts, localId, feedHeard, probing, forsaken, aged, oks>> /\ Feed!Of(c) = {}
    BY DEF Feed!IssueFatal, Feed!page
  <1>3. Rows(issued') = Rows(issued) \cup {a}
    BY <1>1, InAtoms, AppendRows
  <1>5. \A b \in Rows(issued) : b.corr # c
    BY <1>2 DEF Feed!Of, Rows
  <1>7. FeedAtoms' \subseteq FeedAtoms \cup {a}
    <2>1. Rows(raw') = Rows(raw) /\ FeedAtoms' = Rows(issued') \cup Rows(raw') \cup posts'
      BY <1>2 DEF FeedAtoms, Rows
    <2> QED
      BY <1>2, <1>3, <2>1 DEF FeedAtoms
  <1>10. \A x, y \in Rows(issued') : Feed!IsFatal(x) /\ Feed!IsFatal(y) /\ x.corr = y.corr => x = y
    <2> SUFFICES ASSUME NEW x \in Rows(issued'), NEW y \in Rows(issued'), Feed!IsFatal(x), Feed!IsFatal(y), x.corr = y.corr
                 PROVE  x = y
      OBVIOUS
    <2>1. CASE x.corr = c
      BY <1>3, <1>5, <2>1
    <2>2. CASE x.corr # c
      BY <1>1, <1>3, <2>2 DEF ThreadsInv
    <2> QED
      BY <2>1, <2>2
  <1>11. \A x \in FeedAtoms \cup {a} : x.id = localId' => ~Resolved(x)
    <2>1. a.id # localId'
      <3>1. a.id \notin stamps /\ a.id # 0
        BY <1>1, FreshStamp
      <3> QED
        BY <1>1, <1>2, <3>1 DEF AtomsInv
    <2> QED
      BY <1>2, <2>1 DEF ThreadsInv
  <1>12. WellMade(a) /\ a \in Rows(issued') /\ ~IsOk(a)
    BY <1>1, <1>3, WellMadeIs
  <1>13. (\A x \in posts' : IsOk(x) /\ x.corr \in Requests) /\ \A o \in oks' : IsOk(o) /\ o.ts = o.id
    BY <1>2 DEF ThreadsInv
  <1>14. PICK N : N = {a}
    OBVIOUS
  <1>15. /\ FeedAtoms' \subseteq FeedAtoms \cup N /\ Rows(issued) \subseteq Rows(issued')
         /\ \A x \in N : WellMade(x)
         /\ \A x \in N : x.corr \in Links \/ Feed!IsFatal(x) => x \in Rows(issued')
         /\ \A x \in N : x.corr \in Requests => \E b \in Rows(issued') : b.corr = x.corr
         /\ \A x \in FeedAtoms \cup N : x.id = localId' => ~Resolved(x)
         /\ oks \subseteq oks' /\ \A x \in N : IsOk(x) => x \in oks'
    BY <1>2, <1>3, <1>7, <1>11, <1>12, <1>14
  <1>16. ThreadsInv'
    BY <1>10, <1>13, <1>15, ThreadsStep
  <1> QED
    BY <1>1, <1>2, <1>3, <1>5, <1>16

\* The page's ok arrives at the host.
LEMMA PostThreads ==
  ASSUME AtomsInv, ThreadsInv, NEW a \in posts, Feed!PostArrives(a)
  PROVE  /\ ThreadsInv' /\ UNCHANGED <<raw, feedHeard, probing, forsaken, aged, stamps, oks>>
         /\ ~Feed!IsFatal(a) /\ Rows(issued') = Rows(issued) \cup {a}
  <1>1. /\ issued' = Append(issued, a) /\ posts' \subseteq posts
        /\ UNCHANGED <<raw, localId, feedHeard, probing, forsaken, aged, stamps, oks>>
    BY DEF Feed!PostArrives, Feed!Issue, Feed!page, Feed!bounds
  <1>2. IsOk(a) /\ a.corr \in Requests /\ a \in FeedAtoms /\ WellMade(a)
    BY DEF ThreadsInv, FeedAtoms
  <1>3. Rows(issued') = Rows(issued) \cup {a}
    BY <1>1, InAtoms, AppendRows
  <1>4. ~Feed!IsFatal(a)
    BY <1>2, WellMadeIs
  <1>5. FeedAtoms' \subseteq FeedAtoms
    <2>1. Rows(raw') = Rows(raw) /\ FeedAtoms' = Rows(issued') \cup Rows(raw') \cup posts'
      BY <1>1 DEF FeedAtoms, Rows
    <2> QED
      BY <1>1, <1>2, <1>3, <2>1 DEF FeedAtoms
  <1>10. \A x, y \in Rows(issued') : Feed!IsFatal(x) /\ Feed!IsFatal(y) /\ x.corr = y.corr => x = y
    BY <1>3, <1>4 DEF ThreadsInv
  <1>13. /\ \A x \in posts' : IsOk(x) /\ x.corr \in Requests
         /\ oks \subseteq oks' /\ \A o \in oks' : IsOk(o) /\ o.ts = o.id
    BY <1>1 DEF ThreadsInv
  <1>14. PICK N : N = {}
    OBVIOUS
  <1>15. FeedAtoms' \subseteq FeedAtoms \cup N /\ Rows(issued) \subseteq Rows(issued') /\ \A x \in N : FALSE
    BY <1>3, <1>5, <1>14
  <1>16. \A x \in FeedAtoms \cup N : x.id = localId' => ~Resolved(x)
    BY <1>1, <1>14 DEF ThreadsInv
  <1>17. ThreadsInv'
    BY <1>10, <1>13, <1>15, <1>16, ThreadsStep
  <1> QED
    BY <1>1, <1>3, <1>4, <1>17

\* The page's own atoms: the row of an outage, the oks.
LEMMA OwnThreads ==
  ASSUME AtomsInv, ThreadsInv, NEW some, UNCHANGED issued, Rows(raw') \subseteq Rows(raw) \cup some,
         posts' \subseteq posts \cup {a \in some : IsOk(a)}, localId' = localId \/ localId' \notin stamps,
         \/ /\ localId' = localId /\ oks' = oks \cup some
            /\ \A a \in some : /\ IsOk(a) /\ a.corr \in Requests /\ a.id # localId /\ a.ts = a.id
                               /\ \E b \in Rows(issued) : b.corr = a.corr
         \/ oks' = oks /\ \A a \in some : IsOutageRow(a)
  PROVE  ThreadsInv'
  <1>1. \A a \in FeedAtoms : a.id \in stamps
    BY InAtoms
  <1>2. FeedAtoms' \subseteq FeedAtoms \cup some
    <2>1. FeedAtoms' = Rows(issued) \cup Rows(raw') \cup posts'
      BY DEF FeedAtoms, Rows
    <2> QED
      BY <2>1 DEF FeedAtoms
  <1>3. \A a \in some : WellMade(a) /\ a.corr \notin Links /\ ~Feed!IsFatal(a)
    <2>1. CASE \A a \in some : IsOutageRow(a)
      BY <2>1, CorrsAssumption DEF IsOutageRow, WellMade, Feed!IsFatal
    <2>2. CASE \A a \in some : IsOk(a) /\ a.corr \in Requests
      BY <2>2, CorrsAssumption DEF IsOk, WellMade, Feed!IsFatal
    <2> QED
      BY <2>1, <2>2
  <1>4. \A a \in some : IsOk(a) => a.corr \in Requests
    BY DEF IsOutageRow, IsOk, Feed!None
  <1>5. \A a \in posts' : IsOk(a) /\ a.corr \in Requests
    BY <1>4 DEF ThreadsInv
  <1>6. /\ oks \subseteq oks' /\ \A a \in some : IsOk(a) => a \in oks'
        /\ \A o \in oks' : IsOk(o) /\ o.ts = o.id
    <2>1. \A a : IsOutageRow(a) => ~IsOk(a)
      BY DEF IsOutageRow, IsOk, Feed!None
    <2> QED
      BY <2>1 DEF ThreadsInv
  <1>8. \A a \in some : a.corr \in Requests => \E b \in Rows(issued') : b.corr = a.corr
    BY CorrsAssumption DEF IsOutageRow
  <1>9. \A a \in FeedAtoms \cup some : a.id = localId' => ~Resolved(a)
    <2>1. CASE \A a \in some : IsOutageRow(a)
      <3>1. \A a \in FeedAtoms : a.id = localId' => ~Resolved(a)
        BY <1>1 DEF ThreadsInv
      <3>2. \A a \in some : ~Resolved(a)
        BY <2>1 DEF IsOutageRow, Resolved, Feed!None
      <3> QED
        BY <3>1, <3>2
    <2>2. CASE localId' = localId /\ \A a \in some : a.id # localId
      BY <2>2 DEF ThreadsInv
    <2> QED
      BY <2>1, <2>2
  <1>10. /\ \A a, b \in Rows(issued') : Feed!IsFatal(a) /\ Feed!IsFatal(b) /\ a.corr = b.corr => a = b
         /\ Rows(issued) \subseteq Rows(issued')
    BY DEF ThreadsInv
  <1>12. \A a \in some : a.corr \in Links \/ Feed!IsFatal(a) => a \in Rows(issued')
    BY <1>3
  <1> QED
    BY <1>2, <1>3, <1>5, <1>6, <1>8, <1>9, <1>10, <1>12, ThreadsStep

\* The 500s the page heard of: each is on the page or pushed out, and is being probed or done with.
Known(c) ==
  /\ \E a \in Rows(issued) : a.corr = c
  /\ \A a \in Rows(issued) : Feed!IsFatal(a) /\ a.corr = c => a \in Rows(raw) \/ Pushed(a)
AllPushed(c) == \A a \in Rows(issued) : Feed!IsFatal(a) /\ a.corr = c => Pushed(a)
\* An ok closed the 500, and is on the page or pushed out.
Answered(c) == \E o \in oks : o.corr = c /\ (o \in Rows(raw) \/ Pushed(o))
Done(c) == c \in aged \/ Answered(c) \/ AllPushed(c)
HeardAt(c) == Known(c) /\ (probing \/ c \in forsaken \/ Done(c))
ThreadsHeard == ThreadsInv /\ \A c \in feedHeard : HeardAt(c)

\* What a step may do to the 500s.
LEMMA HeardStays ==
  ASSUME AtomsInv, ThreadsInv, NEW c, Known(c),
         aged \subseteq aged', oks \subseteq oks', IsStamps(stamps'), stamps \subseteq stamps',
         Rows(issued) \subseteq Rows(issued'),
         \A a \in Rows(issued') : a \in Rows(issued) \/ ~Feed!IsFatal(a) \/ a.corr # c,
         \A a \in Rows(raw) : a \in Rows(raw') \/ Out(stamps', a.id) \/ a.id = localId
  PROVE  Known(c)' /\ (Done(c) => Done(c)')
  <1>1. Rows(issued)' = Rows(issued') /\ Rows(raw)' = Rows(raw')
    BY DEF Rows
  <1>2. /\ Rows(raw) \subseteq FeedAtoms
        /\ \A a \in Rows(issued) : a.id # localId
    BY InAtoms DEF AtomsInv
  <1>3. \A a : Pushed(a) => Out(stamps', a.id)
    BY OutStays DEF Pushed
  <1>4. Known(c)'
    <2>1. \E a \in Rows(issued') : a.corr = c
      BY DEF Known
    <2>2. \A a \in Rows(issued') : Feed!IsFatal(a) /\ a.corr = c => a \in Rows(raw') \/ Out(stamps', a.id)
      BY <1>2, <1>3 DEF Known
    <2> QED
      BY <1>1, <2>1, <2>2 DEF Known, Pushed, Feed!IsFatal
  <1>5. AllPushed(c) => AllPushed(c)'
    <2>1. AllPushed(c) => \A a \in Rows(issued') : Feed!IsFatal(a) /\ a.corr = c => Out(stamps', a.id)
      BY <1>3 DEF AllPushed
    <2> QED
      BY <1>1, <2>1 DEF AllPushed, Pushed, Feed!IsFatal
  <1>6. Answered(c) => Answered(c)'
    <2> SUFFICES ASSUME NEW o \in oks, o.corr = c, o \in Rows(raw) \/ Pushed(o)
                 PROVE  o \in Rows(raw') \/ Out(stamps', o.id)
      BY <1>1 DEF Answered, Pushed
    <2>1. CASE o \in Rows(raw)
      <3>1. o.id # localId
        BY <1>2, <2>1 DEF ThreadsInv, IsOk, Resolved
      <3> QED
        BY <2>1, <3>1
    <2>2. CASE Pushed(o)
      BY <1>3, <2>2
    <2> QED
      BY <2>1, <2>2
  <1>7. c \in aged => c \in aged'
    OBVIOUS
  <1> QED
    BY <1>4, <1>5, <1>6, <1>7 DEF Done

\* The newest row that is shown of a correlation id.
LEMMA StatusIs ==
  ASSUME AtomsInv, NEW c, NEW m \in Nat, NEW q, Shows(Feed!display, raw, m, q), NEW k \in 1..m, Feed!display[k].corr = c
  PROVE  \E l \in 1..m : /\ q[l] \in Rows(raw) /\ q[l].corr = c
                         /\ Feed!StatusOf(Feed!display, c) = Feed!ResolveStatus(q[l])
  <1> DEFINE d == Feed!display
             S == {i \in DOMAIN d : d[i].corr = c}
  <1>1. /\ DOMAIN d = 1..m /\ q \in [1..m -> Rows(raw)]
        /\ \A i \in 1..m : ShownOf(d[i], q[i])
    BY DEF Shows
  <1>2. Feed!StatusOf(d, c) = IF S = {} THEN Feed!None ELSE Feed!ResolveStatus(d[Feed!Min(S)])
    BY DEF Feed!StatusOf
  <1>3. k \in S
    BY <1>1
  <1> HIDE DEF d
  <1>4. S \in SUBSET Nat /\ S # {} /\ S \subseteq 1..m
    BY <1>1, <1>3
  <1>5. \A i \in S : d[i].corr = c
    OBVIOUS
  <1>6. \A i \in 1..m : d[i].corr = c => i \in S
    BY <1>1
  <1> HIDE DEF S
  <1>7. PICK x \in S : \A y \in S : x <= y
    BY <1>4, LeastOf
  <1>8. Feed!Min(S) \in S /\ \A y \in S : Feed!Min(S) <= y
    BY <1>7, Zenon DEF Feed!Min
  <1> DEFINE l == Feed!Min(S)
  <1>9. l \in 1..m /\ d[l].corr = c /\ \A y \in S : l <= y
    BY <1>4, <1>5, <1>8
  <1>10. Feed!StatusOf(d, c) = Feed!ResolveStatus(d[l])
    BY <1>2, <1>4
  <1> HIDE DEF l
  <1>11. q[l] \in Rows(raw) /\ q[l].corr = c
    BY <1>1, <1>9 DEF ShownOf
  <1>12. Feed!ResolveStatus(d[l]) = Feed!ResolveStatus(q[l])
    BY <1>1, <1>9 DEF ShownOf, Feed!ResolveStatus
  <1> QED
    BY <1>9, <1>10, <1>11, <1>12 DEF d

\* A 500 that is no orphan is done with.
LEMMA NoOrphanIsDone ==
  ASSUME AtomsInv, ThreadsInv, NEW c, Known(c), c \notin Feed!RecentOrphans
  PROVE  Done(c)
  <1>1. PICK m, q : m \in Nat /\ Shows(Feed!display, raw, m, q)
    BY DisplayShows
  <1>2. CASE \E a \in Rows(raw) : Feed!IsFatal(a) /\ a.corr = c
    <2>1. PICK a \in Rows(raw) : Feed!IsFatal(a) /\ a.corr = c
      BY <1>2
    <2>2. a \in FeedAtoms /\ WellMade(a)
      BY InAtoms DEF ThreadsInv
    <2>3. ~Feed!IsI2PhaseTick(a)
      BY <2>1, <2>2, WellMadeIs
    <2>4. PICK k \in 1..m : q[k] = a
      BY <1>1, <2>3 DEF Shows
    <2> DEFINE d == Feed!display
    <2>5. k \in DOMAIN d /\ d[k].corr = c /\ Feed!IsFatal(d[k])
      BY <1>1, <2>1, <2>4 DEF Shows, ShownOf, Feed!IsFatal
    <2>6. c \in aged \/ Feed!StatusOf(d, c) = "resolved"
      <3>1. \/ c \notin {d[i].corr : i \in {j \in DOMAIN d : Feed!IsFatal(d[j])}}
            \/ c \in aged \/ Feed!StatusOf(d, c) = "resolved"
        BY DEF Feed!RecentOrphans
      <3> HIDE DEF d
      <3> QED
        BY <2>5, <3>1
    <2>7. PICK l \in 1..m : q[l] \in Rows(raw) /\ q[l].corr = c /\ Feed!StatusOf(d, c) = Feed!ResolveStatus(q[l])
      BY <1>1, <2>5, StatusIs
    <2>8. q[l] \in FeedAtoms /\ WellMade(q[l]) /\ c \in Requests
      BY <2>1, <2>2, <2>7, InAtoms, WellMadeIs DEF ThreadsInv
    <2> HIDE DEF d
    <2>9. ASSUME Feed!StatusOf(d, c) = "resolved" PROVE Answered(c)
      <3>1. Resolved(q[l])
        BY <2>7, <2>8, <2>9, WellMadeIs
      <3>2. IsOk(q[l])
        BY <2>7, <2>8, <3>1, WellMadeIs
      <3> QED
        BY <2>7, <2>8, <3>2 DEF Answered, ThreadsInv
    <2> QED
      BY <2>6, <2>9 DEF Done
  <1>3. CASE ~ \E a \in Rows(raw) : Feed!IsFatal(a) /\ a.corr = c
    BY <1>3 DEF Known, Done, AllPushed
  <1> QED
    BY <1>2, <1>3

\* A step that answers no probe and hears of no 500.
LEMMA HeardRests ==
  ASSUME AtomsInv, ThreadsHeard, feedHeard' \subseteq feedHeard, probing => probing',
         forsaken \subseteq forsaken', aged \subseteq aged', oks \subseteq oks', IsStamps(stamps'), stamps \subseteq stamps',
         Rows(issued) \subseteq Rows(issued'),
         \A a \in Rows(issued') : a \in Rows(issued) \/ ~Feed!IsFatal(a) \/ a.corr \notin feedHeard,
         \A a \in Rows(raw) : a \in Rows(raw') \/ Out(stamps', a.id) \/ a.id = localId
  PROVE  \A c \in feedHeard' : HeardAt(c)'
  <1> SUFFICES ASSUME NEW c \in feedHeard' PROVE HeardAt(c)'
    OBVIOUS
  <1>1. c \in feedHeard /\ HeardAt(c) /\ ThreadsInv
    BY DEF ThreadsHeard
  <1>2. \A a \in Rows(issued') : a \in Rows(issued) \/ ~Feed!IsFatal(a) \/ a.corr # c
    BY <1>1
  <1>3. Known(c)' /\ (Done(c) => Done(c)')
    BY <1>1, <1>2, HeardStays DEF HeardAt
  <1> QED
    BY <1>1, <1>3 DEF HeardAt

\* ThreadsHeard and its parts, in this state and in the next.
LEMMA HeardParts ==
  /\ ThreadsHeard <=> ThreadsInv /\ \A c \in feedHeard : HeardAt(c)
  /\ ThreadsHeard' <=> ThreadsInv' /\ \A c \in feedHeard' : HeardAt(c)'
  BY DEF ThreadsHeard

\* A step of neither atoms nor probes.
LEMMA QuietProbes ==
  ASSUME AtomsInv, ThreadsHeard, UNCHANGED <<issued, raw, localId, stamps, feedHeard, probing, forsaken, oks>>,
         posts' \subseteq posts, aged \subseteq aged'
  PROVE  ThreadsHeard'
  <1>1. IsStamps(stamps)
    BY InAtoms
  <1>2. Rows(issued') = Rows(issued) /\ Rows(raw') = Rows(raw)
    OBVIOUS
  <1>3. ThreadsInv'
    BY <1>2, ThreadsStay DEF ThreadsHeard
  <1>4. \A c \in feedHeard' : HeardAt(c)'
    BY <1>1, <1>2, HeardRests
  <1> QED
    BY <1>3, <1>4, HeardParts

\* The host issues.
LEMMA IssueProbes ==
  ASSUME AtomsInv, AtomsInv', ThreadsHeard, NEW c,
         (c \in Links /\ Feed!IssueLink(c)) \/ (c \in Requests /\ Feed!IssueFatal(c)) \/ (c \in posts /\ Feed!PostArrives(c))
  PROVE  ThreadsHeard'
  <1>0. ThreadsInv /\ IsStamps(stamps')
    BY DEF ThreadsHeard, AtomsInv, Stamped
  <1>1. CASE c \in Links /\ Feed!IssueLink(c)
    <2>1. /\ ThreadsInv' /\ UNCHANGED <<raw, feedHeard, probing, forsaken, aged, oks>> /\ stamps \subseteq stamps'
          /\ \A b \in Rows(issued') : b \in Rows(issued) \/ ~Feed!IsFatal(b)
          /\ Rows(issued) \subseteq Rows(issued')
      BY <1>0, <1>1, LinkThreads
    <2>2. IsStamps(stamps') /\ stamps \subseteq stamps' /\ Rows(raw') = Rows(raw) /\ oks \subseteq oks'
      BY <1>0, <2>1
    <2>3. \A d \in feedHeard' : HeardAt(d)'
      BY <2>1, <2>2, HeardRests
    <2> QED
      BY <2>1, <2>3, HeardParts
  <1>2. CASE c \in Requests /\ Feed!IssueFatal(c)
    <2>1. /\ ThreadsInv' /\ UNCHANGED <<raw, feedHeard, probing, forsaken, aged, oks>> /\ stamps \subseteq stamps'
          /\ \A b \in Rows(issued) : b.corr # c
          /\ \A b \in Rows(issued') : b \in Rows(issued) \/ b.corr = c
          /\ Rows(issued) \subseteq Rows(issued')
      BY <1>0, <1>2, FatalThreads
    <2>2. IsStamps(stamps') /\ stamps \subseteq stamps' /\ Rows(raw') = Rows(raw) /\ oks \subseteq oks'
      BY <1>0, <2>1
    <2>3. c \notin feedHeard
      BY <2>1 DEF ThreadsHeard, HeardAt, Known
    <2>4. \A a \in Rows(issued') : a \in Rows(issued) \/ ~Feed!IsFatal(a) \/ a.corr \notin feedHeard
      BY <2>1, <2>3
    <2>5. \A d \in feedHeard' : HeardAt(d)'
      BY <2>1, <2>2, <2>4, HeardRests
    <2> QED
      BY <2>1, <2>5, HeardParts
  <1>3. CASE c \in posts /\ Feed!PostArrives(c)
    <2>1. /\ ThreadsInv' /\ UNCHANGED <<raw, feedHeard, probing, forsaken, aged, stamps, oks>>
          /\ ~Feed!IsFatal(c) /\ Rows(issued') = Rows(issued) \cup {c}
      BY <1>0, <1>3, PostThreads
    <2>2. IsStamps(stamps') /\ stamps \subseteq stamps' /\ Rows(raw') = Rows(raw) /\ oks \subseteq oks'
      BY <1>0, <2>1
    <2>4. \A a \in Rows(issued') : a \in Rows(issued) \/ ~Feed!IsFatal(a) \/ a.corr \notin feedHeard
      BY <2>1
    <2>5. \A d \in feedHeard' : HeardAt(d)'
      BY <2>1, <2>2, <2>4, HeardRests
    <2> QED
      BY <2>1, <2>5, HeardParts
  <1> QED
    BY <1>1, <1>2, <1>3

\* The page hears of an atom of the host.
LEMMA AtomProbes ==
  ASSUME AtomsInv, FeedInv, ThreadsHeard, Feed!TakeAtom
  PROVE  ThreadsHeard'
  <1> DEFINE a == Head(queue).atom
  <1>1. /\ UNCHANGED <<issued, stamps, posts, localId>>
        /\ a \in Rows(issued) /\ Holds(raw', Rows(raw) \cup {a}, stamps)
    BY TakeAtomTakes
  <1>2. /\ UNCHANGED <<forsaken, aged, oks>>
        /\ probing' = (probing \/ Feed!IsFatal(a))
        /\ feedHeard' = IF Feed!IsFatal(a) THEN feedHeard \cup {a.corr} ELSE feedHeard
    BY DEF Feed!TakeAtom, Feed!bounds
  <1> HIDE DEF a
  <1>3. IsStamps(stamps) /\ a \in FeedAtoms /\ ThreadsInv
    BY <1>1, InAtoms DEF ThreadsHeard
  <1>4. Rows(issued') = Rows(issued) /\ Rows(raw') \subseteq Rows(raw) \cup Rows(issued)
    BY <1>1 DEF Holds
  <1>5. ThreadsInv'
    BY <1>1, <1>2, <1>3, <1>4, ThreadsStay
  <1>6. \A b \in Rows(raw) \cup {a} : b \in Rows(raw') \/ Out(stamps', b.id)
    BY <1>1 DEF Holds
  <1>7. ASSUME NEW c \in feedHeard PROVE HeardAt(c)'
    <2>1. HeardAt(c)
      BY DEF ThreadsHeard
    <2>2. Known(c)' /\ (Done(c) => Done(c)')
      BY <1>1, <1>2, <1>3, <1>4, <1>6, <2>1, HeardStays DEF HeardAt
    <2> QED
      BY <1>2, <2>1, <2>2 DEF HeardAt
  <1>8. ASSUME Feed!IsFatal(a), NEW c, c = a.corr PROVE HeardAt(c)'
    <2>1. \A b \in Rows(issued') : Feed!IsFatal(b) /\ b.corr = c => b = a
      BY <1>1, <1>3, <1>4, <1>8 DEF ThreadsInv
    <2>2. \A b \in Rows(issued') : Feed!IsFatal(b) /\ b.corr = c => b \in Rows(raw') \/ Out(stamps', b.id)
      BY <1>6, <2>1
    <2>3. \E b \in Rows(issued') : b.corr = c
      BY <1>1, <1>4, <1>8
    <2>4. Known(c)'
      BY <2>2, <2>3 DEF Known, Rows, Pushed, Feed!IsFatal
    <2> QED
      BY <1>2, <1>8, <2>4 DEF HeardAt
  <1>9. \A c \in feedHeard' : c \in feedHeard \/ (Feed!IsFatal(a) /\ c = a.corr)
    BY <1>2
  <1> QED
    BY <1>5, <1>7, <1>8, <1>9, HeardParts

\* The page takes a backlog.
LEMMA BacklogProbes ==
  ASSUME AtomsInv, AsksOK, ThreadsHeard, NEW s \in Feed!Slots, Feed!TakeBacklog(s)
  PROVE  ThreadsHeard'
  <1>1. UNCHANGED <<issued, stamps, posts, localId>>
    BY TakeBacklogTakes
  <1>2. PICK n \in 0..Len(issued) :
          LET first == IF n > Backlog THEN n - Backlog + 1 ELSE 1
              rows == SubSeq(issued, first, n)
          IN  /\ feedAsks[s] = <<"rows", n>>
              /\ first \in 1..(n + 1) /\ (first > 1 => n - first + 1 >= Backlog)
              /\ rows \in Seq(FeedAtoms) /\ Rows(rows) = {issued[i] : i \in first..n}
              /\ raw' = Feed!FoldLeft(Feed!Published, raw, rows)
              /\ Holds(raw', Rows(raw) \cup Rows(rows), stamps)
    BY TakeBacklogTakes
  <1> DEFINE first == IF n > Backlog THEN n - Backlog + 1 ELSE 1
             rows == SubSeq(issued, first, n)
  <1>3. /\ first \in 1..(n + 1) /\ Rows(rows) = {issued[i] : i \in first..n}
        /\ Holds(raw', Rows(raw) \cup Rows(rows), stamps)
    BY <1>2
  <1> HIDE DEF rows, first
  <1>4. IsStamps(stamps) /\ Len(issued) \in Nat /\ DOMAIN issued = 1..Len(issued) /\ n \in Nat
    BY InAtoms
  <1>5. Rows(rows) \subseteq Rows(issued)
    <2>1. \A i \in first..n : i \in DOMAIN issued
      BY <1>3, <1>4
    <2> QED
      BY <1>3, <2>1 DEF Rows
  <1>6. Rows(issued') = Rows(issued) /\ Rows(raw') \subseteq Rows(raw) \cup Rows(issued)
    BY <1>1, <1>3, <1>5 DEF Holds
  <1>8. UNCHANGED <<feedHeard, probing, forsaken, aged, oks>>
    BY DEF Feed!TakeBacklog, Feed!ghosts
  <1>7. ThreadsInv'
    BY <1>1, <1>6, <1>8, ThreadsStay DEF ThreadsHeard
  <1>9. \A b \in Rows(raw) : b \in Rows(raw') \/ Out(stamps', b.id)
    BY <1>1, <1>3 DEF Holds
  <1>10. \A c \in feedHeard' : HeardAt(c)'
    BY <1>1, <1>4, <1>6, <1>8, <1>9, HeardRests
  <1> QED
    BY <1>7, <1>10, HeardParts

\* The outage begins, ends, or the page is loaded again.
LEMMA OutageProbes ==
  ASSUME AtomsInv, ThreadsHeard, Feed!Drop \/ Feed!Settled \/ Feed!Reload
  PROVE  ThreadsHeard'
  <1>0. ThreadsInv /\ IsStamps(stamps)
    BY InAtoms DEF ThreadsHeard
  <1>1. CASE Feed!Drop
    <2>1. /\ UNCHANGED <<issued, posts>> /\ stamps \subseteq stamps' /\ IsStamps(stamps')
          /\ (localId' = localId \/ localId' \notin stamps)
      <3>1. /\ AtomsInv' /\ UNCHANGED <<issued, posts>> /\ stamps \subseteq stamps'
            /\ (localId' = localId \/ localId' \notin stamps)
        BY <1>1, DropTakes
      <3> QED
        BY <3>1 DEF AtomsInv, Stamped
    <2>2. PICK some : /\ Holds(raw', Rows(raw) \cup some, stamps')
                      /\ \A x \in some : IsOutageRow(x)
      BY <1>1, DropTakes
    <2>3. Rows(raw') \subseteq Rows(raw) \cup some /\ \A b \in Rows(raw) : b \in Rows(raw') \/ Out(stamps', b.id)
      BY <2>2 DEF Holds
    <2>5. posts' \subseteq posts \cup {x \in some : IsOk(x)} /\ issued' = issued
      BY <2>1
    <2>7. UNCHANGED <<feedHeard, probing, forsaken, aged, oks>> /\ Rows(issued') = Rows(issued)
      BY <1>1, <2>1 DEF Feed!Drop, Feed!ghosts
    <2>6. ThreadsInv'
      BY <1>0, <2>1, <2>2, <2>3, <2>5, <2>7, OwnThreads
    <2>8. \A c \in feedHeard' : HeardAt(c)'
      BY <2>1, <2>3, <2>7, HeardRests
    <2> QED
      BY <2>6, <2>8, HeardParts
  <1>2. CASE Feed!Settled
    <2>1. /\ UNCHANGED <<issued, stamps, posts>> /\ Rows(raw') = {a \in Rows(raw) : a.id # localId}
      BY <1>2, SettledTakes
    <2>2. UNCHANGED <<feedHeard, probing, forsaken, aged, oks>> /\ Rows(issued') = Rows(issued) /\ localId' = 0
      BY <1>2, <2>1 DEF Feed!Settled, Feed!ghosts
    <2>3. ThreadsInv'
      BY <1>0, <2>1, <2>2, ThreadsStay
    <2>4. \A c \in feedHeard' : HeardAt(c)'
      BY <1>0, <2>1, <2>2, HeardRests
    <2> QED
      BY <2>3, <2>4, HeardParts
  <1>3. CASE Feed!Reload
    <2>1. UNCHANGED <<issued, posts, oks>> /\ raw' = <<>> /\ localId' = 0 /\ feedHeard' = {}
      BY <1>3 DEF Feed!Reload, Feed!host
    <2>2. Rows(raw') = {}
      BY <2>1 DEF Rows
    <2>3. ThreadsInv'
      BY <1>0, <2>1, <2>2, ThreadsStay
    <2> QED
      BY <2>1, <2>3, HeardParts
  <1> QED
    BY <1>1, <1>2, <1>3

\* The probe goes unanswered, or its answer finds an outage.
LEMMA ForsakenProbes ==
  ASSUME AtomsInv, ThreadsHeard, Feed!ProbeFails \/ (Feed!ProbeOk /\ feedOutage)
  PROVE  ThreadsHeard'
  <1>1. /\ UNCHANGED <<issued, raw, posts, localId, stamps, feedHeard, aged, oks>>
        /\ forsaken' = forsaken \cup Feed!RecentOrphans
    BY DEF Feed!ProbeFails, Feed!ProbeOk, Feed!host, Feed!net, Feed!bounds
  <1>2. Rows(issued') = Rows(issued) /\ Rows(raw') = Rows(raw) /\ IsStamps(stamps) /\ ThreadsInv
    BY <1>1, InAtoms DEF ThreadsHeard
  <1>3. ThreadsInv'
    BY <1>1, <1>2, ThreadsStay
  <1>4. ASSUME NEW c \in feedHeard PROVE HeardAt(c)'
    <2>1. Known(c)
      BY DEF ThreadsHeard, HeardAt
    <2>2. Known(c)' /\ (Done(c) => Done(c)')
      BY <1>1, <1>2, <2>1, HeardStays
    <2>3. c \in Feed!RecentOrphans \/ Done(c)
      BY <1>2, <2>1, NoOrphanIsDone
    <2> QED
      BY <1>1, <2>2, <2>3 DEF HeardAt
  <1> QED
    BY <1>1, <1>3, <1>4, HeardParts

\* The probe's answer closes what is open.
LEMMA ProbeProbes ==
  ASSUME AtomsInv, ThreadsHeard, Feed!ProbeOk, ~feedOutage
  PROVE  ThreadsHeard'
  <1>0. AtomsInv' /\ stamps \subseteq stamps'
    BY ProbeOkTakes
  <1>1. PICK made :
          /\ posts' = posts \cup Rows(made) /\ oks' = oks \cup Rows(made)
          /\ \A a \in Rows(made) : IsOk(a) /\ a.corr \in Feed!RecentOrphans /\ a.id \in stamps' \ stamps
          /\ \A c \in Feed!RecentOrphans : \E a \in Rows(made) : a.corr = c
          /\ Holds(raw', Rows(raw) \cup Rows(made), stamps')
    BY ProbeOkTakes
  <1>2. UNCHANGED <<issued, localId, feedHeard, forsaken, aged>>
    BY DEF Feed!ProbeOk, Feed!host
  <1>3. Rows(issued') = Rows(issued) /\ ThreadsInv
    BY <1>2 DEF ThreadsHeard
  <1>4. /\ IsStamps(stamps') /\ oks \subseteq oks'
        /\ \A a \in posts' : a.id # 0 /\ a.ts = a.id
    <2>1. Stamped(FeedAtoms', stamps') /\ posts' \subseteq FeedAtoms'
      BY <1>0 DEF AtomsInv, FeedAtoms
    <2>2. \A a \in FeedAtoms' : a.id \in Nat \ {0} /\ a.ts = a.id
      BY <2>1, StampsAre
    <2> QED
      BY <1>1, <2>1, <2>2 DEF Stamped
  <1>5. \A c \in Feed!RecentOrphans : c \in Requests /\ \E b \in Rows(issued) : b.corr = c
    <2> TAKE c \in Feed!RecentOrphans
    <2>1. PICK a \in Rows(raw) : a.corr = c /\ Feed!IsFatal(a)
      BY OrphansInRing
    <2>2. a \in FeedAtoms /\ WellMade(a)
      BY <1>3, InAtoms DEF ThreadsInv
    <2> QED
      BY <1>3, <2>1, <2>2, WellMadeIs DEF ThreadsInv
  <1>6. \A a \in Rows(made) : IsOk(a) /\ a.corr \in Requests /\ a.id # localId /\ a.ts = a.id
                             /\ \E b \in Rows(issued) : b.corr = a.corr
    BY <1>1, <1>4, <1>5 DEF AtomsInv
  <1>7. Rows(raw') \subseteq Rows(raw) \cup Rows(made) /\ posts' \subseteq posts \cup {a \in Rows(made) : IsOk(a)}
        /\ \A a \in Rows(raw) \cup Rows(made) : a \in Rows(raw') \/ Out(stamps', a.id)
    BY <1>1 DEF Holds
  <1>8. ThreadsInv'
    BY <1>1, <1>2, <1>3, <1>6, <1>7, OwnThreads
  <1>9. ASSUME NEW c \in feedHeard PROVE HeardAt(c)'
    <2>1. Known(c)
      BY DEF ThreadsHeard, HeardAt
    <2>2. Known(c)' /\ (Done(c) => Done(c)')
      BY <1>0, <1>2, <1>3, <1>4, <1>7, <2>1, HeardStays
    <2>3. Done(c)' => HeardAt(c)'
      BY <2>2 DEF HeardAt
    <2>4. ASSUME c \in Feed!RecentOrphans PROVE Done(c)'
      <3>1. PICK o \in Rows(made) : o.corr = c
        BY <1>1, <2>4
      <3>2. o \in Rows(raw') \/ Out(stamps', o.id)
        BY <1>7
      <3>3. Rows(raw)' = Rows(raw') /\ o \in oks'
        BY <1>1 DEF Rows
      <3>4. Answered(c)'
        BY <3>1, <3>2, <3>3 DEF Answered, Pushed
      <3> QED
        BY <3>4 DEF Done
    <2>5. ASSUME c \notin Feed!RecentOrphans PROVE Done(c)'
      BY <1>3, <2>1, <2>2, <2>5, NoOrphanIsDone
    <2> QED
      BY <2>3, <2>4, <2>5
  <1> QED
    BY <1>2, <1>8, <1>9, HeardParts

\* At first there are no atoms, and no 500 is heard of.
LEMMA InitProbes ==
  ASSUME Feed!Init
  PROVE  ThreadsHeard
  <1>1. issued = <<>> /\ raw = <<>> /\ posts = {} /\ feedHeard = {} /\ oks = {}
    BY DEF Feed!Init
  <1>2. Rows(<<>>) = {}
    BY DEF Rows
  <1>3. FeedAtoms = {} /\ Rows(issued) = {} /\ DOMAIN issued = {}
    BY <1>1, <1>2 DEF FeedAtoms
  <1>4. ThreadsInv
    BY <1>1, <1>3 DEF ThreadsInv
  <1> QED
    BY <1>1, <1>4 DEF ThreadsHeard

\* Each 500 the page heard of is on the page or pushed out, and is being probed, given up, closed,
\* out of the window of recent ones or pushed out: an invariant of the feed, with that of its atoms.
THEOREM ProbeInvariant == Feed!Spec => [](AtomsInv /\ ThreadsHeard)
  <1>1. (FeedInv /\ MissInv) /\ (FeedInv /\ MissInv)' /\ ThreadsHeard /\ [Feed!Next]_(Feed!vars) => ThreadsHeard'
    <2> SUFFICES ASSUME FeedInv, MissInv, MissInv', ThreadsHeard, [Feed!Next]_(Feed!vars) PROVE ThreadsHeard'
      OBVIOUS
    <2>0. AtomsInv /\ AsksOK /\ AtomsInv'
      BY MissParts
    <2>1. ASSUME NEW c, (c \in Links /\ Feed!IssueLink(c)) \/ (c \in Requests /\ Feed!IssueFatal(c))
                        \/ (c \in posts /\ Feed!PostArrives(c))
          PROVE  ThreadsHeard'
      BY <2>0, <2>1, IssueProbes
    <2>2. ASSUME NEW s \in Feed!Slots, Feed!TakeBacklog(s)
          PROVE  ThreadsHeard'
      BY <2>0, <2>2, BacklogProbes
    <2>3. CASE Feed!TakeAtom
      BY <2>0, <2>3, AtomProbes
    <2>4. CASE Feed!Drop \/ Feed!Reload \/ Feed!Settled
      BY <2>0, <2>4, OutageProbes
    <2>5. CASE Feed!ProbeFails \/ (Feed!ProbeOk /\ feedOutage)
      BY <2>0, <2>5, ForsakenProbes
    <2>6. CASE Feed!ProbeOk /\ ~feedOutage
      BY <2>0, <2>6, ProbeProbes
    <2>7. CASE \/ \E s \in Feed!Slots : Feed!AnswerBacklog(s) \/ Feed!AnswerDeleted(s) \/ Feed!TakeDeleted(s) \/ Feed!AskFails(s)
               \/ \E a \in posts : Feed!PostFails(a)
               \/ \E c : Feed!Age(c) \/ Feed!ChangeGone(c)
               \/ \E id : Feed!MarkRead(id)
               \/ Feed!MarkAllRead \/ Feed!SetCollapsePhaseTicks \/ Feed!Serve \/ Feed!Open \/ Feed!TakeVisibility
               \/ UNCHANGED Feed!vars
      <3>1. /\ UNCHANGED <<issued, raw, localId, stamps, feedHeard, probing, forsaken, oks>>
            /\ posts' \subseteq posts /\ aged \subseteq aged'
        BY <2>7 DEF Feed!AnswerBacklog, Feed!AnswerDeleted, Feed!TakeDeleted, Feed!AskFails, Feed!PostFails, Feed!Age,
           Feed!ChangeGone, Feed!MarkRead, Feed!MarkAllRead, Feed!SetCollapsePhaseTicks, Feed!Serve, Feed!Open,
           Feed!TakeVisibility, Feed!Emit, Feed!host, Feed!net, Feed!page, Feed!bounds, Feed!ghosts, Feed!vars
      <3> QED
        BY <2>0, <3>1, QuietProbes
    <2> QED
      BY <2>1, <2>2, <2>3, <2>4, <2>5, <2>6, <2>7 DEF Feed!Next
  <1>2. MissInv => AtomsInv
    BY MissParts
  <1> QED
    BY <1>1, <1>2, MissInvariant, InitProbes, PTL DEF Feed!Spec

\* The page's rows: the time of each is its id, and no two have the same.
LEMMA RawRows ==
  ASSUME AtomsInv
  PROVE  /\ Len(raw) \in Nat /\ DOMAIN raw = 1..Len(raw)
         /\ \A i \in 1..Len(raw) : raw[i] \in FeedAtoms /\ raw[i].ts \in Int /\ raw[i].id \in Int
         /\ \A i, j \in 1..Len(raw) : raw[i].ts = raw[j].ts => i = j
  <1>1. /\ IsRing(raw, FeedAtoms) /\ Stamped(FeedAtoms, stamps) /\ IsStamps(stamps)
        /\ Len(raw) \in Nat /\ DOMAIN raw = 1..Len(raw) /\ \A i \in 1..Len(raw) : raw[i] \in FeedAtoms
    BY InAtoms, RowsOfSeq DEF IsRing
  <1>2. \A i \in 1..Len(raw) : raw[i].ts \in Int /\ raw[i].id \in Int /\ raw[i].ts = raw[i].id
    BY <1>1, StampsAre
  <1>3. \A i, j \in 1..Len(raw) : raw[i].ts = raw[j].ts => i = j
    <2> TAKE i, j \in 1..Len(raw)
    <2>1. i \in Int /\ j \in Int /\ raw[i].id \in Int /\ raw[j].id \in Int
      BY <1>2
    <2>2. (i < j => raw[j].id < raw[i].id) /\ (j < i => raw[i].id < raw[j].id)
      BY <1>1 DEF IsRing, Descends
    <2> QED
      BY <1>2, <2>1, <2>2
  <1> QED
    BY <1>1, <1>2, <1>3

\* Sorting permutes, the oldest first.
LEMMA Ascends ==
  ASSUME NEW m \in Nat, NEW s, DOMAIN s = 1..m, \A i \in 1..m : s[i].ts \in Int /\ s[i].id \in Int,
         \A i, j \in 1..m : s[i].ts = s[j].ts => i = j
  PROVE  LET t == Feed!SortOldestFirst(s)
         IN  /\ t \in [1..m -> Rows(s)] /\ Rows(t) = Rows(s)
             /\ \A k, l \in 1..m : k < l => t[k].ts < t[l].ts
  <1> DEFINE B == {p \in (1..m) \X (1..m) : s[p[1]].ts < s[p[2]].ts}
             older(i, j) == \/ s[i].ts < s[j].ts
                            \/ /\ s[i].ts = s[j].ts
                               /\ LET ra == Feed!SeverityStackRank(s[i].severity)
                                      rb == Feed!SeverityStackRank(s[j].severity)
                                  IN  ra < rb \/ (ra = rb /\ s[i].id < s[j].id)
             t == Feed!SortOldestFirst(s)
  <1>2. \A i, j \in 1..m : <<i, j>> \in B <=> s[i].ts < s[j].ts
    OBVIOUS
  <1>3. IsOrder(B, m)
    <2> HIDE DEF B
    <2>1. \A i, j \in 1..m : i # j => <<i, j>> \in B \/ <<j, i>> \in B
      BY <1>2
    <2>2. \A i, j, k \in 1..m : <<i, j>> \in B /\ <<j, k>> \in B => <<i, k>> \in B
      <3> TAKE i, j, k \in 1..m
      <3>1. s[i].ts \in Int /\ s[j].ts \in Int /\ s[k].ts \in Int
        OBVIOUS
      <3> QED
        BY <1>2, <3>1
    <2>3. \A i \in 1..m : <<i, i>> \notin B
      BY <1>2
    <2> QED
      BY <2>1, <2>2, <2>3 DEF IsOrder
  <1>4. \A i, j \in 1..m : (older(j, i) \/ (~older(i, j) /\ j < i)) <=> <<j, i>> \in B
    <2> TAKE i, j \in 1..m
    <2>1. s[i].id \in Int /\ s[j].id \in Int /\ s[i].ts \in Int /\ s[j].ts \in Int
      OBVIOUS
    <2>2. CASE i = j
      <3>1. Feed!SeverityStackRank(s[i].severity) \in Int
        BY DEF Feed!SeverityStackRank
      <3> QED
        BY <1>2, <2>1, <2>2, <3>1
    <2>3. CASE i # j
      <3>1. s[i].ts # s[j].ts
        BY <2>3
      <3>2. older(j, i) <=> s[j].ts < s[i].ts
        BY <2>1, <3>1
      <3>3. older(i, j) <=> s[i].ts < s[j].ts
        BY <2>1, <3>1
      <3> HIDE DEF older
      <3> QED
        BY <1>2, <2>1, <3>1, <3>2, <3>3
    <2> QED
      BY <2>2, <2>3
  <1> DEFINE places == {<<i, Feed!Cardinality({j \in DOMAIN s : <<j, i>> \in B}) + 1>> : i \in DOMAIN s}
             asks == {<<i, Feed!Cardinality({j \in DOMAIN s : older(j, i) \/ (~older(i, j) /\ j < i)}) + 1>> : i \in DOMAIN s}
  <1>5. t = [k \in DOMAIN s |-> s[(CHOOSE p \in asks : p[2] = k)[1]]]
    BY Zenon DEF Feed!SortOldestFirst, Feed!StableSort
  <1> HIDE DEF older
  <1>6. asks = places
    <2> DEFINE one(i) == Feed!Cardinality({j \in DOMAIN s : <<j, i>> \in B})
               two(i) == Feed!Cardinality({j \in DOMAIN s : older(j, i) \/ (~older(i, j) /\ j < i)})
    <2>1. \A i \in DOMAIN s : {j \in DOMAIN s : older(j, i) \/ (~older(i, j) /\ j < i)} = {j \in DOMAIN s : <<j, i>> \in B}
      BY <1>4
    <2>2. \A i \in DOMAIN s : one(i) = two(i)
      BY <2>1
    <2>3. places = {<<i, one(i) + 1>> : i \in DOMAIN s} /\ asks = {<<i, two(i) + 1>> : i \in DOMAIN s}
      BY Zenon
    <2> HIDE DEF one, two, places, asks
    <2> QED
      BY <2>2, <2>3, Zenon
  <1>7. t = Placed(s, B)
    <2> DEFINE sorted(Z) == [k \in DOMAIN s |-> s[(CHOOSE p \in Z : p[2] = k)[1]]]
    <2>1. t = sorted(asks) /\ Placed(s, B) = sorted(places)
      BY <1>5, Zenon DEF Placed, PlacesOf
    <2> HIDE DEF asks, places, t, sorted
    <2> QED
      BY <1>6, <2>1, Zenon
  <1> HIDE DEF B, t
  <1>8. Sorts(s, m, B, t)
    BY <1>3, <1>7, InPlaces
  <1>9. PICK p \in [1..m -> 1..m] : /\ t = [k \in 1..m |-> s[p[k]]]
                                    /\ \A i \in 1..m : \E k \in 1..m : p[k] = i
                                    /\ \A k, l \in 1..m : k < l => <<p[k], p[l]>> \in B
    BY <1>8 DEF Sorts
  <1>10. DOMAIN t = 1..m /\ \A k \in 1..m : p[k] \in 1..m /\ t[k] = s[p[k]]
    BY <1>9
  <1>11. Rows(t) \subseteq Rows(s)
    BY <1>10 DEF Rows
  <1>12. Rows(s) \subseteq Rows(t)
    <2> SUFFICES ASSUME NEW i \in 1..m PROVE s[i] \in Rows(t)
      BY DEF Rows
    <2>1. PICK k \in 1..m : p[k] = i
      BY <1>9
    <2>2. t[k] = s[i]
      BY <1>10, <2>1
    <2> QED
      BY <1>10, <2>2 DEF Rows
  <1>13. \A k, l \in 1..m : k < l => t[k].ts < t[l].ts
    BY <1>2, <1>9, <1>10
  <1>14. t \in [1..m -> Rows(s)]
    <2>1. \A k \in 1..m : s[p[k]] \in Rows(s)
      BY <1>10 DEF Rows
    <2> QED
      BY <1>9, <2>1
  <1> QED
    BY <1>11, <1>12, <1>13, <1>14 DEF t

\* A thread, told by its rows.
Tells(th, c, t) ==
  /\ th.uid = c /\ th.threadStatus = Feed!DeriveThreadStatus(t) /\ th.threadKind = Feed!DeriveThreadKind(t)
  /\ th.incidentKind = IF Feed!DeriveThreadKind(t) = "incident" THEN Feed!DeriveIncidentKind(t) ELSE Feed!None
  /\ th.groupKind = IF Feed!DeriveThreadKind(t) = "group" THEN Feed!DeriveGroupKind(t) ELSE Feed!None
  /\ th.closes = {e.ts : e \in Feed!FindTerminalClose(t)}
  /\ th.lastActivityAt = Feed!Last(t).ts
  /\ th.closeOutcome = IF Feed!DeriveThreadStatus(t) = "resolved" THEN Feed!DeriveCloseOutcome(t) ELSE Feed!None
\* The rows of a thread, the oldest first.
RowsOfThread(t, n, s, c) ==
  /\ DOMAIN t = 1..n /\ t \in [1..n -> Rows(s)]
  /\ \A e : e \in Rows(t) <=> e \in Rows(s) /\ e.corr = c
  /\ \A k, l \in 1..n : k < l => t[k].ts < t[l].ts

\* A thread is told by its rows.
LEMMA ThreadRows ==
  ASSUME NEW m \in Nat, NEW s, DOMAIN s = 1..m, \A i \in 1..m : s[i].ts \in Int /\ s[i].id \in Int,
         \A i, j \in 1..m : s[i].ts = s[j].ts => i = j, NEW c
  PROVE  \E n \in Nat : \E t : Tells(Feed!ThreadOf(s, c), c, t) /\ RowsOfThread(t, n, s, c)
  <1> DEFINE at == {i \in DOMAIN s : s[i].corr = c}
             mine == Picked(s, at)
             t == Feed!SortOldestFirst(mine)
  <1>1. Tells(Feed!ThreadOf(s, c), c, t)
    <2>1. Feed!ThreadOf(s, c) = Feed!BuildThread(c, mine)
      BY DEF Feed!ThreadOf, Feed!Only, Picked
    <2> HIDE DEF mine
    <2>2. Tells(Feed!BuildThread(c, mine), c, t)
      BY DEF Feed!BuildThread, Tells
    <2> QED
      BY <2>1, <2>2
  <1>2. at \in SUBSET (1..m) /\ \A i : i \in at <=> i \in 1..m /\ s[i].corr = c
    OBVIOUS
  <1> HIDE DEF at
  <1>3. PICK n \in 0..m : InOrder(s, at, mine, n)
    BY <1>2, InTheirOrder
  <1> HIDE DEF mine
  <1>4. PICK p \in [1..n -> at] : /\ mine = [k \in 1..n |-> s[p[k]]] /\ \A i \in at : \E k \in 1..n : p[k] = i
                                  /\ \A k, l \in 1..n : k < l => p[k] < p[l]
    BY <1>3, Zenon DEF InOrder
  <1>5. n \in Nat /\ DOMAIN mine = 1..n /\ \A k \in 1..n : p[k] \in 1..m /\ mine[k] = s[p[k]] /\ mine[k].corr = c
    BY <1>2, <1>4
  <1>6. \A i, j \in 1..n : mine[i].ts = mine[j].ts => i = j
    <2> SUFFICES ASSUME NEW i \in 1..n, NEW j \in 1..n, mine[i].ts = mine[j].ts PROVE i = j
      OBVIOUS
    <2>1. p[i] = p[j]
      BY <1>5
    <2>2. ~(i < j) /\ ~(j < i)
      BY <1>4, <1>5, <2>1
    <2> QED
      BY <2>2
  <1>7. /\ t \in [1..n -> Rows(mine)] /\ Rows(t) = Rows(mine)
        /\ \A k, l \in 1..n : k < l => t[k].ts < t[l].ts
    <2>1. \A i \in 1..n : mine[i].ts \in Int /\ mine[i].id \in Int
      BY <1>5
    <2> QED
      BY <1>5, <1>6, <2>1, Ascends
  <1>8. \A e : e \in Rows(mine) <=> e \in Rows(s) /\ e.corr = c
    <2>1. \A e \in Rows(mine) : e \in Rows(s) /\ e.corr = c
      BY <1>5 DEF Rows
    <2>2. ASSUME NEW i \in 1..m, s[i].corr = c PROVE s[i] \in Rows(mine)
      <3>1. PICK k \in 1..n : p[k] = i
        BY <1>2, <1>4, <2>2
      <3>2. mine[k] = s[i]
        BY <1>5, <3>1
      <3> QED
        BY <1>5, <3>2 DEF Rows
    <2> QED
      BY <2>1, <2>2 DEF Rows
  <1> HIDE DEF t
  <1>9. t \in [1..n -> Rows(s)]
    BY <1>7, <1>8
  <1>10. RowsOfThread(t, n, s, c)
    BY <1>7, <1>8, <1>9 DEF RowsOfThread
  <1> QED
    BY <1>1, <1>5, <1>10

\* The rows of a thread are those of its id.
LEMMA RowsOfItsId ==
  ASSUME NEW t, NEW n \in Nat, NEW s, NEW c, RowsOfThread(t, n, s, c)
  PROVE  /\ DOMAIN t = 1..n /\ t \in [1..n -> Rows(s)]
         /\ \A i \in 1..n : t[i] \in Rows(s) /\ t[i].corr = c
         /\ \A e \in Rows(s) : e.corr = c => \E i \in 1..n : e = t[i]
         /\ \A k, l \in 1..n : k < l => t[k].ts < t[l].ts
  <1>1. DOMAIN t = 1..n /\ t \in [1..n -> Rows(s)] /\ \A e : e \in Rows(t) <=> e \in Rows(s) /\ e.corr = c
    BY DEF RowsOfThread
  <1>2. \A i \in 1..n : t[i] \in Rows(t)
    BY <1>1 DEF Rows
  <1>3. \A e \in Rows(t) : \E i \in 1..n : e = t[i]
    BY <1>1 DEF Rows
  <1> QED
    BY <1>1, <1>2, <1>3 DEF RowsOfThread

\* A row of the page that closes its thread resolves it.
LEMMA ThreadsClose ==
  ASSUME AtomsInv, NEW c, NEW b \in Rows(raw), b.corr = c, Feed!IsTerminalClose(b)
  PROVE  Feed!ThreadOf(raw, c).threadStatus = "resolved"
  <1>1. PICK n \in Nat : \E t : Tells(Feed!ThreadOf(raw, c), c, t) /\ RowsOfThread(t, n, raw, c)
    BY RawRows, ThreadRows
  <1>2. PICK t : Tells(Feed!ThreadOf(raw, c), c, t) /\ RowsOfThread(t, n, raw, c)
    BY <1>1
  <1>3. DOMAIN t = 1..n /\ \A e \in Rows(raw) : e.corr = c => \E i \in 1..n : e = t[i]
    BY <1>2, RowsOfItsId
  <1>4. \E k \in DOMAIN t : Feed!IsTerminalClose(t[k])
    BY <1>3
  <1>5. Feed!DeriveThreadStatus(t) = "resolved"
    BY <1>4 DEF Feed!DeriveThreadStatus
  <1> QED
    BY <1>2, <1>5 DEF Tells

\* A 500 that is heard of and still an orphan is being probed or given up, or newer atoms pushed it or
\* its ok out, or its thread is closed by an ok that an alert of a later stamp hides.
LEMMA HeardIsProbed ==
  ASSUME AtomsInv, ThreadsHeard
  PROVE  Feed!OrphansAreProbed
  <1>1. \A t : Out(stamps, t) <=> Feed!Pushed(t)
    BY SameCount DEF Out, After, Feed!Pushed
  <1>2. Feed!ToSet(raw) = Rows(raw)
    BY DEF Rows, Feed!ToSet
  <1> SUFFICES ASSUME NEW c \in Feed!RecentOrphans, c \in feedHeard, ~probing, c \notin forsaken
               PROVE  \/ Feed!ThreadOf(raw, c).threadStatus = "resolved"
                      \/ \E a \in Rows(raw) : Feed!IsFatal(a) /\ a.corr = c /\ Feed!Pushed(a.ts)
                      \/ \E a \in oks : a.corr = c /\ Feed!Pushed(a.ts)
    BY <1>2 DEF Feed!OrphansAreProbed
  <1>3. ThreadsInv /\ (Answered(c) \/ AllPushed(c))
    BY DEF ThreadsHeard, HeardAt, Done, Feed!RecentOrphans
  <1>4. CASE AllPushed(c)
    <2>1. PICK a \in Rows(raw) : a.corr = c /\ Feed!IsFatal(a)
      BY OrphansInRing
    <2>2. a \in FeedAtoms /\ a.ts = a.id /\ a \in Rows(issued)
      BY <1>3, <2>1, InAtoms, StampsAre DEF ThreadsInv
    <2>3. Out(stamps, a.id)
      BY <1>4, <2>1, <2>2 DEF AllPushed, Pushed
    <2> QED
      BY <1>1, <2>1, <2>2, <2>3
  <1>5. CASE Answered(c)
    <2>1. PICK o \in oks : o.corr = c /\ (o \in Rows(raw) \/ Out(stamps, o.id))
      BY <1>5 DEF Answered, Pushed
    <2>2. IsOk(o) /\ o.ts = o.id
      BY <1>3 DEF ThreadsInv
    <2>3. CASE o \in Rows(raw)
      <3>1. Feed!IsTerminalClose(o)
        BY <2>2 DEF IsOk, Feed!IsTerminalClose, Feed!ResolveStatus, Feed!None
      <3> QED
        BY <2>1, <2>3, <3>1, ThreadsClose
    <2>4. CASE Out(stamps, o.id)
      BY <1>1, <2>1, <2>2, <2>4
    <2> QED
      BY <2>1, <2>3, <2>4
  <1> QED
    BY <1>3, <1>4, <1>5

\* An alert is the first row of its thread that is shown, and open: a close below it is of an earlier
\* time, and a close is no tick, so every close in the ring is shown.
LEMMA AlertIsOpen ==
  ASSUME AtomsInv, ThreadsInv
  PROVE  Feed!NoAlertUnderClose
  <1> SUFFICES ASSUME NEW e \in Feed!UnreadAlerts(Feed!display, readIds), NEW a \in Rows(raw),
                      e.corr # Feed!None, a.corr = e.corr, Feed!ResolveStatus(a) = "resolved"
               PROVE  a.ts <= e.ts
    <2>1. Feed!ToSet(raw) = Rows(raw)
      BY DEF Rows, Feed!ToSet
    <2> QED
      BY <2>1 DEF Feed!NoAlertUnderClose
  <1> DEFINE d == Feed!display
  <1>1. PICK m, q : m \in Nat /\ Shows(d, raw, m, q)
    BY DisplayShows
  <1>2. e \in Feed!UnreadAlerts(d, readIds)
    OBVIOUS
  <1> HIDE DEF d
  <1>3. /\ DOMAIN d = 1..m /\ q \in [1..m -> Rows(raw)]
        /\ \A k \in 1..m : ShownOf(d[k], q[k]) /\ d[k].ts \in Int /\ d[k].ts >= q[k].id
        /\ \A k, l \in 1..m : k < l => q[l].id < q[k].id
        /\ \A b \in Rows(raw) : Feed!IsI2PhaseTick(b) \/ \E k \in 1..m : q[k] = b
    BY <1>1 DEF Shows
  <1>4. PICK j \in 1..m : /\ e = d[j]
                          /\ \A k \in 1..(j - 1) : Feed!GroupKey(d[k]) # Feed!GroupKey(d[j])
                          /\ Feed!ResolveStatus(d[j]) # "resolved"
    BY <1>2, <1>3 DEF Feed!UnreadAlerts
  <1>5. a \in FeedAtoms /\ WellMade(a) /\ a.ts = a.id /\ a.id \in Int
    BY InAtoms, StampsAre DEF ThreadsInv
  <1>6. PICK k \in 1..m : q[k] = a
    BY <1>3, <1>5, WellMadeIs
  <1>7. d[k].corr = d[j].corr /\ d[k].status = a.status
    BY <1>3, <1>4, <1>6 DEF ShownOf
  <1>8. ~(k < j)
    <2> SUFFICES ASSUME k < j PROVE FALSE
      OBVIOUS
    <2>1. k \in 1..(j - 1)
      OBVIOUS
    <2> QED
      BY <1>4, <1>7, <2>1 DEF Feed!GroupKey
  <1>9. k # j
    BY <1>4, <1>7 DEF Feed!ResolveStatus
  <1>10. j < k
    BY <1>8, <1>9
  <1>11. a.id < q[j].id /\ d[j].ts >= q[j].id
    BY <1>3, <1>6, <1>10
  <1>12. q[j].id \in Int /\ d[j].ts \in Int
    BY <1>3, InAtoms
  <1> QED
    BY <1>4, <1>5, <1>11, <1>12

-----------------------------------------------------------------------------
(* Folding keeps the threads. *)

\* The feed's greatest number of some.
LEMMA GreatestNumber ==
  ASSUME NEW n \in Nat, NEW S \in SUBSET (1..n), S # {}
  PROVE  Feed!Max(S) \in S /\ \A x \in S : x <= Feed!Max(S)
  <1> DEFINE T == {k \in Nat : n - k \in S}
  <1>1. T # {}
    <2>1. PICK x \in S : TRUE
      OBVIOUS
    <2>2. x \in 1..n /\ n - x \in Nat /\ n - (n - x) = x
      BY <2>1
    <2> QED
      BY <2>1, <2>2
  <1>2. PICK k \in T : \A l \in T : k <= l
    BY <1>1, LeastOf
  <1>3. n - k \in S /\ \A x \in S : x <= n - k
    <2>1. \A x \in S : x \in Int /\ n - x \in Nat /\ n - (n - x) = x
      OBVIOUS
    <2>2. \A x \in S : n - x \in T
      BY <2>1
    <2>3. k \in Nat /\ \A x \in S : k <= n - x
      BY <1>2, <2>2
    <2> QED
      BY <1>2, <2>1, <2>3
  <1>4. S \in SUBSET Int
    OBVIOUS
  <1>5. Feed!Max(S) = n - k
    BY <1>3, <1>4, GreatestOf
  <1> QED
    BY <1>3, <1>5

\* Two rows that say the same of a thread, at the same time.
Alike(x, y) == x.code = y.code /\ Feed!ResolveStatus(x) = Feed!ResolveStatus(y)
Agree(x, y) == Alike(x, y) /\ x.ts = y.ts /\ x.data = y.data
\* Rows b say what rows a say: each row of b is one of a, and each of a is repeated, or said again later.
SayAsMuch(a, n, b, l) ==
  /\ n \in Nat \ {0} /\ l \in Nat \ {0} /\ DOMAIN a = 1..n /\ DOMAIN b = 1..l
  /\ \A i \in 1..n : a[i].ts \in Int
  /\ \A i, j \in 1..n : i < j => a[i].ts < a[j].ts
  /\ \A i, j \in 1..l : i < j => b[i].ts < b[j].ts
  /\ \A j \in 1..l : \E i \in 1..n : Agree(b[j], a[i])
  /\ \A i \in 1..n : \E j \in 1..l : Alike(b[j], a[i]) /\ a[i].ts <= b[j].ts

\* Then the newest rows that pass a test of code and status agree.
LEMMA NewestAgree ==
  ASSUME NEW a, NEW n, NEW b, NEW l, SayAsMuch(a, n, b, l),
         NEW S \in SUBSET (1..n), NEW T \in SUBSET (1..l),
         \A j \in 1..l, i \in 1..n : Alike(b[j], a[i]) => (j \in T <=> i \in S)
  PROVE  /\ S = {} <=> T = {}
         /\ S # {} => Agree(b[Feed!Max(T)], a[Feed!Max(S)])
  <1>1. n \in Nat /\ l \in Nat /\ (\A i \in 1..n : a[i].ts \in Int) /\ (\A j \in 1..l : b[j].ts \in Int)
    BY DEF SayAsMuch, Agree
  <1>2. \A j \in T : \E i \in S : Agree(b[j], a[i])
    BY DEF SayAsMuch, Agree
  <1>3. \A i \in S : \E j \in T : a[i].ts <= b[j].ts
    BY DEF SayAsMuch
  <1>4. S = {} <=> T = {}
    BY <1>2, <1>3
  <1>5. ASSUME S # {} PROVE Agree(b[Feed!Max(T)], a[Feed!Max(S)])
    <2>1. PICK i \in S : i = Feed!Max(S) /\ \A x \in S : x <= i
      BY <1>1, <1>5, GreatestNumber
    <2>2. PICK j \in T : j = Feed!Max(T) /\ \A x \in T : x <= j
      BY <1>1, <1>4, <1>5, GreatestNumber
    <2>3. PICK k \in T : a[i].ts <= b[k].ts
      BY <1>3
    <2>4. b[k].ts <= b[j].ts
      <3>1. k \in 1..l /\ j \in 1..l /\ (k = j \/ k < j)
        BY <2>2
      <3>2. k < j => b[k].ts < b[j].ts
        BY <3>1 DEF SayAsMuch
      <3>3. b[k].ts \in Int /\ b[j].ts \in Int
        BY <1>1, <3>1
      <3> QED
        BY <3>1, <3>2, <3>3
    <2>5. PICK h \in S : Agree(b[j], a[h])
      BY <1>2
    <2>6. h = i
      <3>1. b[j].ts = a[h].ts
        BY <2>5 DEF Agree
      <3>2. h = i \/ h < i
        BY <2>1
      <3>3. h < i => a[h].ts < a[i].ts
        BY DEF SayAsMuch
      <3>4. a[h].ts \in Int /\ a[i].ts \in Int /\ b[k].ts \in Int
        BY <1>1
      <3> QED
        BY <2>3, <2>4, <3>1, <3>2, <3>3, <3>4
    <2> QED
      BY <2>1, <2>2, <2>5, <2>6
  <1> QED
    BY <1>4, <1>5

\* The tests of code and status.
LEMMA AlikeTests ==
  ASSUME NEW x, NEW y, Alike(x, y)
  PROVE  /\ Feed!IsTerminalClose(x) <=> Feed!IsTerminalClose(y)
         /\ Feed!IsRecoveringEntry(x) <=> Feed!IsRecoveringEntry(y)
         /\ Feed!IsOpenLikeEntry(x) <=> Feed!IsOpenLikeEntry(y)
  BY DEF Alike, Feed!IsTerminalClose, Feed!IsRecoveringEntry, Feed!IsOpenLikeEntry

LEMMA SameStatus ==
  ASSUME NEW a, NEW n, NEW b, NEW l, SayAsMuch(a, n, b, l)
  PROVE  Feed!DeriveThreadStatus(a) = Feed!DeriveThreadStatus(b)
  <1> DEFINE leads(e) == Feed!IsRecoveringEntry(e) \/ Feed!IsOpenLikeEntry(e)
             S == {i \in DOMAIN a : leads(a[i])}
             T == {j \in DOMAIN b : leads(b[j])}
  <1>1. DOMAIN a = 1..n /\ DOMAIN b = 1..l
    BY DEF SayAsMuch
  <1>2. /\ Feed!DeriveThreadStatus(a) = IF \E i \in DOMAIN a : Feed!IsTerminalClose(a[i]) THEN "resolved"
                                        ELSE IF S # {} /\ Feed!IsRecoveringEntry(a[Feed!Max(S)]) THEN "recovering"
                                        ELSE "active"
        /\ Feed!DeriveThreadStatus(b) = IF \E i \in DOMAIN b : Feed!IsTerminalClose(b[i]) THEN "resolved"
                                        ELSE IF T # {} /\ Feed!IsRecoveringEntry(b[Feed!Max(T)]) THEN "recovering"
                                        ELSE "active"
    BY Zenon DEF Feed!DeriveThreadStatus
  <1>3. (\E i \in DOMAIN a : Feed!IsTerminalClose(a[i])) <=> (\E j \in DOMAIN b : Feed!IsTerminalClose(b[j]))
    <2>1. /\ \A j \in 1..l : \E i \in 1..n : Alike(b[j], a[i])
          /\ \A i \in 1..n : \E j \in 1..l : Alike(b[j], a[i])
      BY DEF SayAsMuch, Agree
    <2>2. \A j \in 1..l, i \in 1..n :
            Alike(b[j], a[i]) => (Feed!IsTerminalClose(b[j]) <=> Feed!IsTerminalClose(a[i]))
      BY AlikeTests
    <2> QED
      BY <1>1, <2>1, <2>2, Zenon
  <1>4. S \in SUBSET (1..n) /\ T \in SUBSET (1..l)
    BY <1>1
  <1>5. \A j \in 1..l, i \in 1..n : Alike(b[j], a[i]) => (j \in T <=> i \in S)
    BY <1>1, AlikeTests
  <1> HIDE DEF S, T
  <1>6. (S = {} <=> T = {}) /\ (S # {} => Agree(b[Feed!Max(T)], a[Feed!Max(S)]))
    BY <1>4, <1>5, NewestAgree
  <1>7. S # {} => (Feed!IsRecoveringEntry(b[Feed!Max(T)]) <=> Feed!IsRecoveringEntry(a[Feed!Max(S)]))
    BY <1>6, AlikeTests DEF Agree
  <1> QED
    BY <1>2, <1>3, <1>6, <1>7

\* The last close, and what it says of the outcome.
NoOutcome(a) == \A i \in DOMAIN a : a[i].data.outcome = Feed!None
ClosesPlainly(a) ==
  \/ NoOutcome(a)
  \/ \A i \in DOMAIN a : Feed!IsTerminalClose(a[i]) => a[i].code = "connection.recovered"

LEMMA SameClose ==
  ASSUME NEW a, NEW n, NEW b, NEW l, SayAsMuch(a, n, b, l)
  PROVE  /\ {e.ts : e \in Feed!FindTerminalClose(a)} = {e.ts : e \in Feed!FindTerminalClose(b)}
         /\ Feed!DeriveThreadStatus(a) = "resolved" /\ ClosesPlainly(a)
              => Feed!DeriveCloseOutcome(a) = Feed!DeriveCloseOutcome(b)
  <1> DEFINE S == {i \in DOMAIN a : Feed!IsTerminalClose(a[i])}
             T == {j \in DOMAIN b : Feed!IsTerminalClose(b[j])}
             x == a[Feed!Max(S)]
             y == b[Feed!Max(T)]
  <1>1. DOMAIN a = 1..n /\ DOMAIN b = 1..l
    BY DEF SayAsMuch
  <1>2. /\ Feed!FindTerminalClose(a) = IF S = {} THEN {} ELSE {x}
        /\ Feed!FindTerminalClose(b) = IF T = {} THEN {} ELSE {y}
    BY Zenon DEF Feed!FindTerminalClose
  <1>4. S \in SUBSET (1..n) /\ T \in SUBSET (1..l)
    BY <1>1
  <1>5. \A j \in 1..l, i \in 1..n : Alike(b[j], a[i]) => (j \in T <=> i \in S)
    BY <1>1, AlikeTests
  <1>8. Feed!DeriveThreadStatus(a) = "resolved" => S # {}
    BY DEF Feed!DeriveThreadStatus
  <1>9. ClosesPlainly(a) => NoOutcome(a) \/ \A i \in S : a[i].code = "connection.recovered"
    BY DEF ClosesPlainly
  <1>10. \A i \in S : Feed!IsTerminalClose(a[i])
    OBVIOUS
  <1> HIDE DEF S, T
  <1>6. (S = {} <=> T = {}) /\ (S # {} => Agree(y, x))
    BY <1>4, <1>5, NewestAgree
  <1>7. S # {} => Feed!Max(S) \in S
    BY <1>4, GreatestNumber DEF SayAsMuch
  <1> HIDE DEF x, y
  <1>11. {e.ts : e \in Feed!FindTerminalClose(a)} = {e.ts : e \in Feed!FindTerminalClose(b)}
    <2>1. CASE S = {}
      BY <1>2, <1>6, <2>1
    <2>2. CASE S # {}
      <3>1. Feed!FindTerminalClose(a) = {x} /\ Feed!FindTerminalClose(b) = {y} /\ x.ts = y.ts
        BY <1>2, <1>6, <2>2 DEF Agree
      <3> QED
        BY <3>1
    <2> QED
      BY <2>1, <2>2
  <1>12. ASSUME S # {}, ClosesPlainly(a) PROVE Feed!DeriveCloseOutcome(a) = Feed!DeriveCloseOutcome(b)
    <2>1. Feed!FindTerminalClose(a) = {x} /\ Feed!FindTerminalClose(b) = {y}
      BY <1>2, <1>6, <1>12
    <2>2. x.data = y.data /\ x.code = y.code
      BY <1>6, <1>12 DEF Agree, Alike
    <2> DEFINE told(t, last) ==
                 CASE t.data.outcome # Feed!None -> t.data.outcome
                   [] t.data.outcome = Feed!None /\ t.code \in {"connection.recovered", "backend.recovered"}
                        -> "recovered"
                   [] t.data.outcome = Feed!None /\ t.code = "connection.incident_closed"
                        -> IF t.data.reason \in {"manual_off", "manual", "abandoned_manual"}
                             THEN "abandoned_manual" ELSE "abandoned_schedule"
                   [] OTHER -> last
               lastA == Feed!LastOf(a, LAMBDA e : e.data.outcome)
               lastB == Feed!LastOf(b, LAMBDA e : e.data.outcome)
    <2>3. (CHOOSE e \in {x} : TRUE) = x /\ (CHOOSE e \in {y} : TRUE) = y
      OBVIOUS
    <2>4. Feed!DeriveCloseOutcome(a) = told(x, lastA) /\ Feed!DeriveCloseOutcome(b) = told(y, lastB)
      BY <2>1, <2>3, Zenon DEF Feed!DeriveCloseOutcome
    <2>5. CASE \A i \in S : a[i].code = "connection.recovered"
      <3>1. x.code = "connection.recovered" /\ y.code = "connection.recovered"
        BY <1>7, <1>12, <2>2, <2>5 DEF x
      <3> QED
        BY <2>2, <2>4, <3>1
    <2>6. CASE NoOutcome(a)
      <3>1. NoOutcome(b)
        <4>1. \A j \in 1..l : \E i \in 1..n : b[j].data = a[i].data
          BY DEF SayAsMuch, Agree
        <4> QED
          BY <1>1, <2>6, <4>1 DEF NoOutcome
      <3>2. lastA = Feed!None /\ lastB = Feed!None
        BY <2>6, <3>1 DEF NoOutcome, Feed!LastOf
      <3> QED
        BY <2>2, <2>4, <3>2
    <2> QED
      BY <1>9, <1>12, <2>5, <2>6
  <1> QED
    BY <1>8, <1>11, <1>12

\* A key that all rows of a thread give alike is the thread's.
HintOf(s) == Feed!FirstOf(s, LAMBDA e : e.data.hint)
KindOf(s) == Feed!FirstOf(s, LAMBDA e : e.data.kind)
GroupOf(s) == Feed!FirstOf(s, LAMBDA e : e.data.groupKind)
SayAlike(s, n, h, k, g) ==
  /\ n \in Nat \ {0} /\ DOMAIN s = 1..n
  /\ \A i \in 1..n : s[i].data.hint = h /\ s[i].data.kind = k /\ s[i].data.groupKind = g
LEMMA FirstIsAny ==
  ASSUME NEW n, NEW s, NEW h, NEW k, NEW g, SayAlike(s, n, h, k, g)
  PROVE  HintOf(s) = h /\ KindOf(s) = k /\ GroupOf(s) = g
  <1> USE DEF SayAlike
  <1>1. 1 \in 1..n
    OBVIOUS
  <1>2. ASSUME NEW S \in SUBSET (1..n), S # {} PROVE Feed!Min(S) \in 1..n
    <2>1. S \in SUBSET Nat
      OBVIOUS
    <2> QED
      BY <1>2, <2>1, LeastNumber
  <1>3. HintOf(s) = h
    <2> DEFINE S == {i \in DOMAIN s : s[i].data.hint # Feed!None}
    <2>1. HintOf(s) = IF S = {} THEN Feed!None ELSE s[Feed!Min(S)].data.hint
      BY Zenon DEF Feed!FirstOf, HintOf, KindOf, GroupOf
    <2>2. S \in SUBSET (1..n) /\ (h # Feed!None => S # {})
      BY <1>1
    <2>3. h = Feed!None => S = {}
      OBVIOUS
    <2> HIDE DEF S
    <2> QED
      BY <1>2, <2>1, <2>2, <2>3
  <1>4. KindOf(s) = k
    <2> DEFINE S == {i \in DOMAIN s : s[i].data.kind # Feed!None}
    <2>1. KindOf(s) = IF S = {} THEN Feed!None ELSE s[Feed!Min(S)].data.kind
      BY Zenon DEF Feed!FirstOf, HintOf, KindOf, GroupOf
    <2>2. S \in SUBSET (1..n) /\ (k # Feed!None => S # {})
      BY <1>1
    <2>3. k = Feed!None => S = {}
      OBVIOUS
    <2> HIDE DEF S
    <2> QED
      BY <1>2, <2>1, <2>2, <2>3
  <1>5. GroupOf(s) = g
    <2> DEFINE S == {i \in DOMAIN s : s[i].data.groupKind # Feed!None}
    <2>1. GroupOf(s) = IF S = {} THEN Feed!None ELSE s[Feed!Min(S)].data.groupKind
      BY Zenon DEF Feed!FirstOf, HintOf, KindOf, GroupOf
    <2>2. S \in SUBSET (1..n) /\ (g # Feed!None => S # {})
      BY <1>1
    <2>3. g = Feed!None => S = {}
      OBVIOUS
    <2> HIDE DEF S
    <2> QED
      BY <1>2, <2>1, <2>2, <2>3
  <1> QED
    BY <1>3, <1>4, <1>5

\* The rows of a thread give the keys alike.
OneVoice(a) ==
  \E h, k, g : \A i \in DOMAIN a : a[i].data.hint = h /\ a[i].data.kind = k /\ a[i].data.groupKind = g

LEMMA SameKinds ==
  ASSUME NEW a, NEW n, NEW b, NEW l, SayAsMuch(a, n, b, l), OneVoice(a)
  PROVE  /\ Feed!DeriveThreadKind(a) = Feed!DeriveThreadKind(b)
         /\ Feed!DeriveIncidentKind(a) = Feed!DeriveIncidentKind(b)
         /\ Feed!DeriveGroupKind(a) = Feed!DeriveGroupKind(b)
  <1>1. /\ n \in Nat \ {0} /\ l \in Nat \ {0} /\ DOMAIN a = 1..n /\ DOMAIN b = 1..l
        /\ \A j \in 1..l : \E i \in 1..n : b[j].code = a[i].code /\ b[j].data = a[i].data
        /\ \A i \in 1..n : \E j \in 1..l : b[j].code = a[i].code
    BY DEF SayAsMuch, Agree, Alike
  <1>0. PICK h, k, g : \A i \in DOMAIN a : a[i].data.hint = h /\ a[i].data.kind = k /\ a[i].data.groupKind = g
    BY DEF OneVoice
  <1>2. \A i \in 1..n : a[i].data.hint = h /\ a[i].data.kind = k /\ a[i].data.groupKind = g
    BY <1>0, <1>1
  <1>3. \A j \in 1..l : b[j].data.hint = h /\ b[j].data.kind = k /\ b[j].data.groupKind = g
    <2> TAKE j \in 1..l
    <2>1. PICK i \in 1..n : b[j].data = a[i].data
      BY <1>1
    <2> QED
      BY <1>2, <2>1, Zenon
  <1>4. /\ HintOf(a) = h /\ HintOf(b) = h
        /\ KindOf(a) = k /\ KindOf(b) = k
        /\ GroupOf(a) = g /\ GroupOf(b) = g
    <2>1. HintOf(a) = h /\ KindOf(a) = k /\ GroupOf(a) = g
      <3>1. SayAlike(a, n, h, k, g)
        BY <1>1, <1>2 DEF SayAlike
      <3> QED
        BY <3>1, FirstIsAny, Zenon
    <2>2. HintOf(b) = h /\ KindOf(b) = k /\ GroupOf(b) = g
      <3>1. SayAlike(b, l, h, k, g)
        BY <1>1, <1>3 DEF SayAlike
      <3> QED
        BY <3>1, FirstIsAny, Zenon
    <2> QED
      BY <2>1, <2>2
  <1>5. \A codes : Feed!SomeCode(a, codes) <=> Feed!SomeCode(b, codes)
    BY <1>1 DEF Feed!SomeCode
  <1>6. (\E i \in DOMAIN a : a[i].data.kind = "crash") <=> (\E j \in DOMAIN b : b[j].data.kind = "crash")
    <2>1. 1 \in 1..n /\ 1 \in 1..l
      BY <1>1
    <2>2. (\E i \in 1..n : a[i].data.kind = "crash") <=> k = "crash"
      BY <1>2, <2>1, Zenon
    <2>3. (\E j \in 1..l : b[j].data.kind = "crash") <=> k = "crash"
      BY <1>3, <2>1, Zenon
    <2> QED
      BY <1>1, <2>2, <2>3, Zenon
  <1>7. Feed!DeriveThreadKind(a) = Feed!DeriveThreadKind(b)
    BY <1>4, <1>5, <1>6 DEF Feed!DeriveThreadKind, HintOf
  <1>8. Feed!DeriveIncidentKind(a) = Feed!DeriveIncidentKind(b)
    BY <1>4, <1>5 DEF Feed!DeriveIncidentKind, KindOf
  <1>9. Feed!DeriveGroupKind(a) = Feed!DeriveGroupKind(b)
    BY <1>4 DEF Feed!DeriveGroupKind, GroupOf
  <1> QED
    BY <1>7, <1>8, <1>9

\* The last rows are of one time.
LEMMA SameLast ==
  ASSUME NEW a, NEW n, NEW b, NEW l, SayAsMuch(a, n, b, l), Len(a) = n, Len(b) = l
  PROVE  Feed!Last(a).ts = Feed!Last(b).ts
  <1>1. n \in Nat \ {0} /\ l \in Nat \ {0} /\ n \in 1..n /\ l \in 1..l
    BY DEF SayAsMuch
  <1>3. Feed!Last(a) = a[n] /\ Feed!Last(b) = b[l]
    BY DEF Feed!Last
  <1> DEFINE S == 1..n
             T == 1..l
  <1>4. Feed!Max(S) = n /\ Feed!Max(T) = l
    <2>1. S \in SUBSET Int /\ n \in S /\ (\A x \in S : x <= n) /\ T \in SUBSET Int /\ l \in T /\ (\A x \in T : x <= l)
      BY <1>1
    <2> HIDE DEF S, T
    <2> QED
      BY <2>1, GreatestOf
  <1>5. Agree(b[Feed!Max(T)], a[Feed!Max(S)])
    BY <1>1, NewestAgree
  <1> QED
    BY <1>3, <1>4, <1>5 DEF Agree

\* So threads of such rows are kept.
KeptOf(t) == <<t.uid, t.threadStatus, t.threadKind, t.incidentKind, t.groupKind, t.closes, t.closeOutcome, t.lastActivityAt>>
LEMMA ThreadsAreKept ==
  ASSUME NEW a, NEW n, NEW b, NEW l, SayAsMuch(a, n, b, l), OneVoice(a), ClosesPlainly(a),
         Len(a) = n, Len(b) = l, NEW c, NEW x, Tells(x, c, a), NEW y, Tells(y, c, b)
  PROVE  KeptOf(x) = KeptOf(y)
  <1>1. Feed!DeriveThreadStatus(a) = Feed!DeriveThreadStatus(b)
    BY SameStatus
  <1>2. /\ Feed!DeriveThreadKind(a) = Feed!DeriveThreadKind(b)
        /\ Feed!DeriveIncidentKind(a) = Feed!DeriveIncidentKind(b)
        /\ Feed!DeriveGroupKind(a) = Feed!DeriveGroupKind(b)
    BY SameKinds
  <1>3. Feed!Last(a).ts = Feed!Last(b).ts
    BY SameLast
  <1>4. /\ {e.ts : e \in Feed!FindTerminalClose(a)} = {e.ts : e \in Feed!FindTerminalClose(b)}
        /\ Feed!DeriveThreadStatus(a) = "resolved" => Feed!DeriveCloseOutcome(a) = Feed!DeriveCloseOutcome(b)
    BY SameClose
  <1>5. x.uid = y.uid /\ x.threadStatus = y.threadStatus /\ x.threadKind = y.threadKind
    BY <1>1, <1>2 DEF Tells
  <1>6. x.incidentKind = y.incidentKind /\ x.groupKind = y.groupKind /\ x.lastActivityAt = y.lastActivityAt
    BY <1>2, <1>3 DEF Tells
  <1>7. x.closes = y.closes
    BY <1>4, Zenon DEF Tells
  <1>8. x.closeOutcome = y.closeOutcome
    BY <1>1, <1>4 DEF Tells
  <1> QED
    BY <1>5, <1>6, <1>7, <1>8 DEF KeptOf

\* Folded rows say what the ring says: each row what one of its atoms says, at that atom's time, and for
\* each atom there is a row that says the same no earlier.
SayOfRing(d, m, r) ==
  /\ DOMAIN d = 1..m /\ \A k \in 1..m : d[k].id \in Int /\ d[k].ts \in Int
  /\ \A k, l \in 1..m : d[k].ts = d[l].ts => k = l
  /\ \A k \in 1..m : \E a \in Rows(r) : a.corr = d[k].corr /\ Agree(d[k], a)
  /\ \A a \in Rows(r) : \E k \in 1..m : d[k].corr = a.corr /\ Alike(d[k], a) /\ a.ts <= d[k].ts

\* The ticks of each phase: they are a part of the places, alike, of one thread.
Phases(s, n, F, tk) ==
  /\ F \in SUBSET (1..n) /\ tk \in [F -> SUBSET F]
  /\ \A i \in F : i \in tk[i]
  /\ \A i \in F : \A j \in tk[i] : tk[j] = tk[i] /\ s[j].corr = s[i].corr /\ Alike(s[j], s[i])

\* Ticks folded by phase, each at its oldest place, with the newest time and data.
FoldsTo(s, F, tk, p, m, d) ==
  /\ DOMAIN d = 1..m
  /\ \A k \in 1..m : p[k] \in F =>
       d[k] = [s[p[k]] EXCEPT !.ts = s[Feed!Min(tk[p[k]])].ts, !.data = s[Feed!Min(tk[p[k]])].data]
  /\ \A k \in 1..m : p[k] \notin F => d[k] = s[p[k]]

LEMMA FoldsSay ==
  ASSUME NEW A, NEW T, Stamped(A, T), NEW s \in Seq(A), Descends(s), NEW F, NEW tk, Phases(s, Len(s), F, tk),
         NEW m \in Nat, NEW at \in SUBSET (1..Len(s)), NEW p \in [1..m -> at],
         \A i \in at : \E k \in 1..m : p[k] = i, \A k, l \in 1..m : k < l => p[k] < p[l],
         \A i \in 1..Len(s) : i \in at <=> (i \in F => s[i].id = s[Feed!Max(tk[i])].id),
         NEW d, FoldsTo(s, F, tk, p, m, d)
  PROVE  SayOfRing(d, m, s)
  <1> DEFINE N == Len(s)
             top == [i \in F |-> Feed!Min(tk[i])]
             low == [i \in F |-> Feed!Max(tk[i])]
  <1>1. /\ N \in Nat /\ DOMAIN s = 1..N
        /\ \A i \in 1..N : s[i] \in A /\ s[i].id \in Int /\ s[i].ts = s[i].id /\ DOMAIN s[i] = AtomFields
        /\ \A i \in 1..N : s[i] \in Rows(s)
    BY RowsOfSeq, StampsAre DEF Rows
  <1>2. \A i, j \in 1..N : i < j => s[j].id < s[i].id
    BY <1>1 DEF Descends
  <1>3. \A i, j \in 1..N : s[i].id = s[j].id => i = j
    <2> TAKE i, j \in 1..N
    <2>1. i \in Int /\ j \in Int /\ s[i].id \in Int /\ s[j].id \in Int
      BY <1>1
    <2>2. (i < j => s[j].id < s[i].id) /\ (j < i => s[i].id < s[j].id)
      BY <1>2
    <2> QED
      BY <2>1, <2>2
  <1>4. F \in SUBSET (1..N) /\ \A i \in F : i \in tk[i] /\ tk[i] \in SUBSET F
    BY DEF Phases
  <1>5. ASSUME NEW i \in F PROVE top[i] \in tk[i] /\ low[i] \in tk[i] /\ \A j \in tk[i] : top[i] <= j /\ j <= low[i]
    <2>1. tk[i] \in SUBSET (1..N) /\ tk[i] # {} /\ tk[i] \in SUBSET Nat
      BY <1>4
    <2> QED
      BY <1>1, <2>1, LeastNumber, GreatestNumber
  <1>6. \A i \in F : \A j \in tk[i] : j \in F /\ tk[j] = tk[i] /\ s[j].corr = s[i].corr /\ Alike(s[j], s[i])
                                      /\ top[j] = top[i] /\ low[j] = low[i]
    BY <1>4 DEF Phases
  <1>7. \A i \in 1..N : i \in at <=> (i \in F => i = low[i])
    <2> TAKE i \in 1..N
    <2>1. i \in F => low[i] \in 1..N /\ low[i] = Feed!Max(tk[i])
      BY <1>4, <1>5
    <2> QED
      BY <1>3, <2>1
  <1>8. \A k \in 1..m : p[k] \in 1..N /\ p[k] \in at
    OBVIOUS
  <1>9. \A k, l \in 1..m : p[k] = p[l] => k = l
    <2> TAKE k, l \in 1..m
    <2>1. (k < l => p[k] < p[l]) /\ (l < k => p[l] < p[k])
      OBVIOUS
    <2> QED
      BY <1>8, <2>1
  <1> DEFINE src == [k \in 1..m |-> IF p[k] \in F THEN top[p[k]] ELSE p[k]]
  <1>10. DOMAIN d = 1..m
    BY DEF FoldsTo
  <1>11. \A k \in 1..m : /\ src[k] \in 1..N /\ (src[k] \in F <=> p[k] \in F)
                         /\ (p[k] \in F => src[k] \in tk[p[k]])
    BY <1>4, <1>5, <1>8
  <1>12. ASSUME NEW k \in 1..m
         PROVE  /\ d[k].id \in Int /\ d[k].ts = s[src[k]].ts /\ d[k].data = s[src[k]].data
                /\ d[k].corr = s[p[k]].corr /\ d[k].code = s[p[k]].code /\ d[k].status = s[p[k]].status
    <2>1. DOMAIN s[p[k]] = AtomFields /\ s[p[k]].id \in Int
      BY <1>1, <1>8
    <2>2. CASE p[k] \in F
      <3>1. d[k] = [s[p[k]] EXCEPT !.ts = s[src[k]].ts, !.data = s[src[k]].data]
        BY <2>2 DEF FoldsTo
      <3> HIDE DEF src
      <3> QED
        BY <2>1, <3>1 DEF AtomFields
    <2>3. CASE p[k] \notin F
      <3>1. d[k] = s[p[k]] /\ src[k] = p[k]
        BY <2>3 DEF FoldsTo
      <3> QED
        BY <2>1, <3>1
    <2> QED
      BY <2>2, <2>3
  <1> HIDE DEF src, top, low, N
  <1>13. \A k \in 1..m : s[src[k]].corr = s[p[k]].corr /\ Alike(s[src[k]], s[p[k]]) /\ (p[k] \notin F => src[k] = p[k])
    <2> TAKE k \in 1..m
    <2>1. CASE p[k] \in F
      BY <1>6, <1>11, <2>1
    <2>2. CASE p[k] \notin F
      BY <2>2 DEF src, Alike
    <2> QED
      BY <2>1, <2>2
  <1>14. \A k \in 1..m : d[k].ts \in Int
    <2> TAKE k \in 1..m
    <2>1. src[k] \in 1..N
      BY <1>11
    <2>2. s[src[k]].ts \in Int
      BY <1>1, <2>1
    <2> QED
      BY <1>12, <2>2
  <1>19. \A k \in 1..m : Alike(d[k], s[p[k]])
    <2> TAKE k \in 1..m
    <2>1. d[k].code = s[p[k]].code /\ d[k].status = s[p[k]].status
      BY <1>12
    <2> QED
      BY <2>1 DEF Alike, Feed!ResolveStatus
  <1>15. \A k, l \in 1..m : d[k].ts = d[l].ts => k = l
    <2> SUFFICES ASSUME NEW k \in 1..m, NEW l \in 1..m, d[k].ts = d[l].ts PROVE k = l
      OBVIOUS
    <2>1. src[k] = src[l]
      BY <1>1, <1>3, <1>11, <1>12
    <2>2. CASE p[k] \in F
      <3>1. p[l] \in F
        BY <1>11, <2>1, <2>2
      <3>2. p[k] = low[p[k]] /\ p[l] = low[p[l]]
        BY <1>7, <1>8, <2>2, <3>1
      <3>3. low[src[k]] = low[p[k]] /\ low[src[l]] = low[p[l]]
        BY <1>6, <1>11, <2>2, <3>1
      <3> QED
        BY <1>9, <2>1, <3>2, <3>3
    <2>3. CASE p[k] \notin F
      <3>1. p[l] \notin F
        BY <1>11, <2>1, <2>3
      <3> QED
        BY <1>9, <1>13, <2>1, <2>3, <3>1
    <2> QED
      BY <2>2, <2>3
  <1>16. \A k \in 1..m : \E a \in Rows(s) : a.corr = d[k].corr /\ Agree(d[k], a)
    <2> TAKE k \in 1..m
    <2>1. s[src[k]] \in Rows(s) /\ s[src[k]].corr = d[k].corr
      BY <1>1, <1>11, <1>12, <1>13
    <2>2. Agree(d[k], s[src[k]])
      <3>1. d[k].ts = s[src[k]].ts /\ d[k].data = s[src[k]].data
        BY <1>12
      <3>2. Alike(d[k], s[p[k]]) /\ Alike(s[src[k]], s[p[k]])
        BY <1>13, <1>19
      <3> QED
        BY <3>1, <3>2 DEF Agree, Alike
    <2> QED
      BY <2>1, <2>2
  <1>17. ASSUME NEW i \in 1..N PROVE \E k \in 1..m : d[k].corr = s[i].corr /\ Alike(d[k], s[i]) /\ s[i].ts <= d[k].ts
    <2>1. CASE i \notin F
      <3>1. PICK k \in 1..m : p[k] = i
        BY <1>7, <2>1
      <3>2. src[k] = i
        BY <1>13, <2>1, <3>1
      <3>3. d[k].corr = s[i].corr /\ d[k].ts = s[i].ts /\ s[i].ts \in Int
        BY <1>1, <1>12, <3>1, <3>2
      <3>4. Alike(d[k], s[i])
        BY <1>19, <3>1
      <3> QED
        BY <3>3, <3>4
    <2>2. CASE i \in F
      <3>1. low[i] \in tk[i] /\ top[i] \in tk[i] /\ top[i] <= i
        BY <1>4, <1>5, <2>2
      <3>2. low[i] \in F /\ low[low[i]] = low[i] /\ top[low[i]] = top[i]
        BY <1>6, <2>2, <3>1
      <3>3. PICK k \in 1..m : p[k] = low[i]
        BY <1>4, <1>7, <3>2
      <3>4. src[k] = top[i]
        BY <3>2, <3>3 DEF src
      <3>5. d[k].corr = s[i].corr /\ Alike(d[k], s[i])
        <4>1. Alike(d[k], s[low[i]]) /\ d[k].corr = s[low[i]].corr
          BY <1>12, <1>19, <3>3
        <4>2. Alike(s[low[i]], s[i]) /\ s[low[i]].corr = s[i].corr
          BY <1>6, <2>2, <3>1
        <4> QED
          BY <4>1, <4>2 DEF Alike
      <3>6. s[i].id <= s[top[i]].id
        <4>1. top[i] \in 1..N /\ i \in Int /\ s[i].id \in Int /\ s[top[i]].id \in Int
          <5>1. top[i] \in 1..N /\ i \in 1..N
            BY <1>4, <2>2, <3>1
          <5> QED
            BY <1>1, <5>1
        <4>2. top[i] = i \/ top[i] < i
          BY <3>1, <4>1
        <4> QED
          BY <1>2, <4>1, <4>2
      <3>7. s[i].ts <= d[k].ts
        <4>1. top[i] \in 1..N
          BY <1>4, <2>2, <3>1
        <4>2. s[i].ts = s[i].id /\ s[top[i]].ts = s[top[i]].id
          BY <1>1, <4>1
        <4>3. d[k].ts = s[top[i]].ts
          BY <1>12, <3>4
        <4> QED
          BY <3>6, <4>2, <4>3
      <3> QED
        BY <3>5, <3>7
    <2> QED
      BY <2>1, <2>2
  <1>18. \A a \in Rows(s) : \E k \in 1..m : d[k].corr = a.corr /\ Alike(d[k], a) /\ a.ts <= d[k].ts
    <2> TAKE a \in Rows(s)
    <2>1. PICK i \in 1..N : a = s[i]
      BY <1>1 DEF Rows
    <2>2. PICK k \in 1..m : d[k].corr = s[i].corr /\ Alike(d[k], s[i]) /\ s[i].ts <= d[k].ts
      BY <1>17
    <2> QED
      BY <2>1, <2>2, Zenon
  <1> QED
    BY <1>10, <1>12, <1>14, <1>15, <1>16, <1>18 DEF SayOfRing

LEMMA CollapsedSays ==
  ASSUME NEW A, NEW T, Stamped(A, T), NEW r, IsRing(r, A)
  PROVE  \E m \in Nat : SayOfRing(Feed!CollapsePhaseTicks(r), m, r)
  <1> DEFINE s == Feed!SortNewestFirst(r)
             folds(e) == e.corr # Feed!None /\ Feed!IsI2PhaseTick(e)
             ticks(e) == {i \in DOMAIN s : folds(s[i]) /\ Feed!I2PhaseKey(s[i]) = Feed!I2PhaseKey(e)}
             at == {i \in DOMAIN s : folds(s[i]) => s[i].id = s[Feed!Max(ticks(s[i]))].id}
             rows == Picked(s, at)
             folded(e) == [e EXCEPT !.ts = s[Feed!Min(ticks(e))].ts, !.data = s[Feed!Min(ticks(e))].data]
             d == [i \in DOMAIN rows |-> IF folds(rows[i]) THEN folded(rows[i]) ELSE rows[i]]
             F == {i \in DOMAIN s : folds(s[i])}
             tk == [i \in F |-> ticks(s[i])]
  <1>1. Feed!CollapsePhaseTicks(r) = d
    BY DEF Feed!CollapsePhaseTicks, Feed!Only, Picked
  <1>2. r \in Seq(A) /\ Len(r) \in Nat /\ DOMAIN r = 1..Len(r) /\ \A i \in 1..Len(r) : r[i] \in A
    BY RowsOfSeq DEF IsRing
  <1>3. \A i, j \in DOMAIN r : r[i].id = r[j].id => i = j
    <2> TAKE i, j \in 1..Len(r)
    <2>1. r[i].id \in Int /\ r[j].id \in Int
      BY <1>2, StampsAre
    <2> QED
      BY <1>2, <2>1 DEF IsRing, Descends
  <1>4. s \in Seq(A) /\ Len(s) = Len(r) /\ Descends(s) /\ Rows(s) = Rows(r)
    BY <1>2, <1>3, NewestFirst
  <1> HIDE DEF s
  <1>5. Len(s) \in Nat /\ DOMAIN s = 1..Len(s)
    BY <1>4, RowsOfSeq
  <1>6. Phases(s, Len(s), F, tk)
    <2>1. F \in SUBSET (1..Len(s))
      BY <1>5
    <2>2. \A i \in F : ticks(s[i]) \in SUBSET F /\ i \in ticks(s[i])
      OBVIOUS
    <2>3. ASSUME NEW i \in F, NEW j \in ticks(s[i])
          PROVE  ticks(s[j]) = ticks(s[i]) /\ s[j].corr = s[i].corr /\ Alike(s[j], s[i])
      <3>1. Feed!I2PhaseKey(s[j]) = Feed!I2PhaseKey(s[i])
        OBVIOUS
      <3>2. ticks(s[j]) = ticks(s[i])
        BY <3>1
      <3>3. s[j].corr = s[i].corr /\ Alike(s[j], s[i])
        BY <3>1 DEF Feed!I2PhaseKey, Alike
      <3> QED
        BY <3>2, <3>3
    <2> HIDE DEF F, ticks
    <2>4. \A i \in F : tk[i] = ticks(s[i])
      OBVIOUS
    <2>5. tk \in [F -> SUBSET F]
      BY <2>2
    <2> HIDE DEF tk
    <2> QED
      BY <2>1, <2>2, <2>3, <2>4, <2>5 DEF Phases
  <1>7. \A i : i \in at <=> i \in DOMAIN s /\ (i \in F => s[i].id = s[Feed!Max(tk[i])].id)
    <2> HIDE DEF ticks, folds
    <2> QED
      OBVIOUS
  <1> HIDE DEF at
  <1>8. at \in SUBSET (1..Len(s))
    BY <1>5, <1>7
  <1>9. PICK m \in 0..Len(s) : InOrder(s, at, rows, m)
    <2> HIDE DEF rows
    <2>1. rows = Picked(s, at)
      BY DEF rows
    <2> QED
      BY <1>5, <1>8, <2>1, InTheirOrder
  <1> HIDE DEF rows
  <1>10. PICK p \in [1..m -> at] : /\ rows = [k \in 1..m |-> s[p[k]]]
                                   /\ \A i \in at : \E k \in 1..m : p[k] = i
                                   /\ \A k, l \in 1..m : k < l => p[k] < p[l]
    BY <1>9, Zenon DEF InOrder
  <1>11. DOMAIN rows = 1..m /\ \A k \in 1..m : rows[k] = s[p[k]] /\ p[k] \in DOMAIN s
    BY <1>5, <1>8, <1>10
  <1>12. FoldsTo(s, F, tk, p, m, d)
    <2>1. \A k \in 1..m : p[k] \in F <=> folds(rows[k])
      BY <1>11
    <2>2. \A k \in 1..m : p[k] \in F => tk[p[k]] = ticks(rows[k])
      BY <1>11
    <2> HIDE DEF F, tk, folds, ticks
    <2>3. DOMAIN d = 1..m /\ \A k \in 1..m : d[k] = IF folds(rows[k]) THEN folded(rows[k]) ELSE rows[k]
      BY <1>11
    <2> HIDE DEF d
    <2>4. \A k \in 1..m : p[k] \in F =>
            d[k] = [s[p[k]] EXCEPT !.ts = s[Feed!Min(tk[p[k]])].ts, !.data = s[Feed!Min(tk[p[k]])].data]
      <3> TAKE k \in 1..m
      <3> HAVE p[k] \in F
      <3>1. d[k] = folded(rows[k]) /\ rows[k] = s[p[k]] /\ tk[p[k]] = ticks(rows[k])
        BY <1>11, <2>1, <2>2, <2>3
      <3> QED
        BY <3>1, Zenon
    <2>5. \A k \in 1..m : p[k] \notin F => d[k] = s[p[k]]
      BY <1>11, <2>1, <2>3
    <2> QED
      BY <2>3, <2>4, <2>5, Zenon DEF FoldsTo
  <1>13. m \in Nat
    BY <1>5
  <1> HIDE DEF F, tk, d
  <1>14. SayOfRing(d, m, s)
    BY <1>4, <1>5, <1>6, <1>7, <1>8, <1>10, <1>12, <1>13, FoldsSay
  <1>15. SayOfRing(d, m, r)
    BY <1>4, <1>14 DEF SayOfRing
  <1> QED
    BY <1>1, <1>13, <1>15

\* So the threads of the ring and of its folded rows are told alike.
LEMMA FoldedThreads ==
  ASSUME AtomsInv, ThreadsInv
  PROVE  Feed!CollapseKeepsThreads
  <1> DEFINE d == Feed!CollapsePhaseTicks(raw)
  <1>1. IsRing(raw, FeedAtoms) /\ Stamped(FeedAtoms, stamps) /\ IsStamps(stamps)
    BY InAtoms
  <1>2. /\ Len(raw) \in Nat /\ DOMAIN raw = 1..Len(raw)
        /\ \A i \in 1..Len(raw) : raw[i] \in FeedAtoms /\ raw[i].ts \in Int /\ raw[i].id \in Int
        /\ \A i, j \in 1..Len(raw) : raw[i].ts = raw[j].ts => i = j
    BY RawRows
  <1>4. PICK m \in Nat : SayOfRing(d, m, raw)
    BY <1>1, CollapsedSays
  <1> HIDE DEF d
  <1>5. ASSUME NEW c \in Feed!Corrs(raw) PROVE KeptOf(Feed!ThreadOf(raw, c)) = KeptOf(Feed!ThreadOf(d, c))
    <2>1. PICK n, a : n \in Nat /\ Tells(Feed!ThreadOf(raw, c), c, a) /\ RowsOfThread(a, n, raw, c)
      BY <1>2, ThreadRows
    <2>2. PICK l, b : l \in Nat /\ Tells(Feed!ThreadOf(d, c), c, b) /\ RowsOfThread(b, l, d, c)
      BY <1>4, ThreadRows DEF SayOfRing
    <2>3. /\ DOMAIN a = 1..n /\ a \in [1..n -> Rows(raw)] /\ DOMAIN b = 1..l /\ b \in [1..l -> Rows(d)]
          /\ \A i \in 1..n : a[i] \in Rows(raw) /\ a[i].corr = c
          /\ \A e \in Rows(raw) : e.corr = c => \E i \in 1..n : e = a[i]
          /\ \A j \in 1..l : b[j] \in Rows(d) /\ b[j].corr = c
          /\ \A e \in Rows(d) : e.corr = c => \E j \in 1..l : e = b[j]
          /\ \A i, j \in 1..n : i < j => a[i].ts < a[j].ts
          /\ \A i, j \in 1..l : i < j => b[i].ts < b[j].ts
      BY <2>1, <2>2, RowsOfItsId
    <2>4. \A j \in 1..l : \E i \in 1..n : Agree(b[j], a[i])
      <3> TAKE j \in 1..l
      <3>1. PICK k \in 1..m : b[j] = d[k]
        BY <1>4, <2>3 DEF SayOfRing, Rows
      <3>2. PICK e \in Rows(raw) : e.corr = d[k].corr /\ Agree(d[k], e)
        BY <1>4 DEF SayOfRing
      <3>3. e.corr = c
        BY <2>3, <3>1, <3>2
      <3> QED
        BY <2>3, <3>1, <3>2, <3>3
    <2>5. \A i \in 1..n : \E j \in 1..l : Alike(b[j], a[i]) /\ a[i].ts <= b[j].ts
      <3> TAKE i \in 1..n
      <3>1. PICK k \in 1..m : d[k].corr = a[i].corr /\ Alike(d[k], a[i]) /\ a[i].ts <= d[k].ts
        BY <1>4, <2>3 DEF SayOfRing
      <3>2. d[k] \in Rows(d) /\ d[k].corr = c
        BY <1>4, <2>3, <3>1 DEF SayOfRing, Rows
      <3> QED
        BY <2>3, <3>1, <3>2
    <2>6. \A i \in 1..n : a[i].ts \in Int /\ a[i] \in FeedAtoms
      BY <1>2, <2>3 DEF Rows
    <2>7. \E i \in 1..n : TRUE
      <3>1. PICK i \in 1..Len(raw) : raw[i].corr = c
        BY <1>2 DEF Feed!Corrs
      <3> QED
        BY <1>2, <2>3, <3>1 DEF Rows
    <2>8. n \in Nat \ {0} /\ l \in Nat \ {0}
      BY <2>1, <2>2, <2>5, <2>7
    <2>9. SayAsMuch(a, n, b, l)
      BY <2>3, <2>4, <2>5, <2>6, <2>8 DEF SayAsMuch
    <2>10. \A i \in 1..n : WellMade(a[i]) /\ a[i].corr = c /\ c # Feed!None
      BY <2>3, <2>6 DEF ThreadsInv, Feed!Corrs
    <2>11. OneVoice(a) /\ ClosesPlainly(a)
      <3>1. CASE c \in Links
        <4>1. \A i \in 1..n : TellsBreak(a[i]) /\ (Feed!IsTerminalClose(a[i]) => a[i].code = "connection.recovered")
          BY <2>10, <3>1, WellMadeIs, CorrsAssumption DEF WellMade, Resolved
        <4> QED
          <5>1. \A i \in DOMAIN a : /\ a[i].data.hint = "incident" /\ a[i].data.kind = "break"
                                    /\ a[i].data.groupKind = Feed!None
            BY <2>3, <4>1 DEF TellsBreak
          <5>2. OneVoice(a)
            BY <5>1, Zenon DEF OneVoice
          <5>3. ClosesPlainly(a)
            BY <2>3, <4>1 DEF ClosesPlainly
          <5> QED
            BY <5>2, <5>3
      <3>2. CASE c \notin Links
        <4>1. \A i \in 1..n : Untold(a[i])
          BY <2>10, <3>2 DEF WellMade, IsOk
        <4> QED
          <5>1. \A i \in DOMAIN a : /\ a[i].data.hint = Feed!None /\ a[i].data.kind = Feed!None
                                    /\ a[i].data.groupKind = Feed!None
            BY <2>3, <4>1 DEF Untold
          <5>2. OneVoice(a)
            BY <5>1, Zenon DEF OneVoice
          <5>3. NoOutcome(a)
            BY <2>3, <4>1 DEF NoOutcome, Untold
          <5> QED
            BY <5>2, <5>3 DEF ClosesPlainly
      <3> QED
        BY <3>1, <3>2
    <2>12. Len(a) = n /\ Len(b) = l
      BY <2>1, <2>2, <2>3
    <2> DEFINE x == Feed!ThreadOf(raw, c)
               y == Feed!ThreadOf(d, c)
    <2>13. Tells(x, c, a) /\ Tells(y, c, b)
      BY <2>1, <2>2
    <2> HIDE DEF x, y
    <2>14. KeptOf(x) = KeptOf(y)
      BY <2>9, <2>11, <2>12, <2>13, ThreadsAreKept
    <2> QED
      BY <2>14 DEF x, y
  <1> QED
    BY <1>5 DEF Feed!CollapseKeepsThreads, KeptOf, d

-----------------------------------------------------------------------------
(* The centre: one screen plays. *)

\* A behaviour plays on the dock, or the dock rests.
LEMMA DockPlays ==
  Spec => \/ screen = "dock" /\ Dock!Init /\ [][Dock!Next]_(Dock!dockVars)
          \/ [](screen # "dock")
  <1>1. Init /\ screen = "dock" => Dock!Init
    BY DEF Init
  <1>2. screen = "dock" /\ [Next]_screenVars
          => [Dock!Next]_(Dock!dockVars) /\ (screen = "dock")'
    BY DEF Next, screenVars, dockVars, Dock!dockVars
  <1>3. screen # "dock" /\ [Next]_screenVars => (screen # "dock")'
    BY DEF Next, screenVars
  <1>4. screen = "dock" \/ screen # "dock"
    OBVIOUS
  <1> QED
    BY <1>1, <1>2, <1>3, <1>4, PTL DEF Spec

\* The same of the feed.
LEMMA FeedPlays ==
  Spec => \/ screen = "feed" /\ Feed!Spec
          \/ [](screen # "feed")
  <1>1. Init /\ screen = "feed" => Feed!Init
    BY DEF Init
  <1>2. screen = "feed" /\ [Next]_screenVars
          => [Feed!Next]_(Feed!vars) /\ (screen = "feed")'
    BY DEF Next, screenVars, feedVars, Feed!vars, Feed!host, Feed!net, Feed!page, Feed!bounds, Feed!ghosts
  <1>3. screen # "feed" /\ [Next]_screenVars => (screen # "feed")'
    BY DEF Next, screenVars
  <1>4. screen = "feed" \/ screen # "feed"
    OBVIOUS
  <1> QED
    BY <1>1, <1>2, <1>3, <1>4, PTL DEF Spec, Feed!Spec

\* With nothing about deleted incidents on its way the page hides only what the journal
\* deleted, and all of that an answer of the journal holds, the newest incidents
\* (NotificationBus, its soft-deleted set and the journal's limit), whatever is deleted,
\* restored, opened, overflowed, cut off, asked and answered meanwhile, unless an answer
\* crossed a change; for every limit, size of the channel and number of requests.
THEOREM FeedHidesTheDeleted == Spec => []HiddenIsTrue
  <1>1. FeedInv => HiddenIsTrue
    BY NothingAskedIsTrue DEF HiddenIsTrue
  <1>2. screen # "feed" => HiddenIsTrue
    BY DEF HiddenIsTrue
  <1> QED
    BY <1>1, <1>2, FeedPlays, FeedInvariant, PTL

\* What was read stays read while its atom is in the ring (NotificationBus), but for a
\* reload of the page; for every ring, backlog and order of arrival.
THEOREM FeedKeepsRead == Spec => ReadStays
  <1>1. Feed!Spec => [][Feed!ReadKept]_(Feed!vars)
    <2>1. FeedInv /\ [Feed!Next]_(Feed!vars) => [Feed!ReadKept]_(Feed!vars)
      BY ReadIsKept
    <2> QED
      BY <2>1, FeedInvariant, PTL DEF Feed!Spec
  <1>2. screen = "feed" /\ [Feed!ReadKept]_(Feed!vars) => [screen = "feed" => Feed!ReadKept]_screenVars
    BY DEF Feed!vars, Feed!host, Feed!net, Feed!page, Feed!bounds, Feed!ghosts, Feed!ReadKept, screenVars,
           feedVars
  <1>3. screen # "feed" => [screen = "feed" => Feed!ReadKept]_screenVars
    OBVIOUS
  <1> QED
    BY <1>1, <1>2, <1>3, FeedPlays, PTL DEF ReadStays

\* Whatever was clicked, a filter whose chip is not there filters nothing, and a
\* period shows whole calendar days of the feed's zone (useNotificationFilters and
\* dateRange), for all zones, instants, dates and times of day.
THEOREM DockFiltersByItsChips == Spec => []NoChipFiltersNothing
  <1>1. DockInv => NoChipFiltersNothing
    BY PeriodIsDays DEF NoChipFiltersNothing
  <1>2. screen # "dock" => NoChipFiltersNothing
    BY DEF NoChipFiltersNothing
  <1> QED
    BY <1>1, <1>2, DockPlays, DockInvariant, PTL

\* A reload brings back the filter, its chips and the grouping as they were left, for
\* every snapshot a dock may have written before.
THEOREM DockReloads == Spec => []ReloadKeeps
  <1>1. DockInv => ReloadKeeps
    BY DEF DockInv, ReloadKeeps
  <1>2. screen # "dock" => ReloadKeeps
    BY DEF ReloadKeeps
  <1> QED
    BY <1>1, <1>2, DockPlays, DockInvariant, PTL

\* What the flat feed shows the grouped one shows in its thread, for all threads, marks
\* and filters without a condition on threads or connections.
THEOREM DockGroupingHidesNothing == Spec => []GroupingHidesNothing
  <1>1. DockInv => GroupingHidesNothing
    BY GroupingHides DEF GroupingHidesNothing
  <1>2. screen # "dock" => GroupingHidesNothing
    BY DEF GroupingHidesNothing
  <1> QED
    BY <1>1, <1>2, DockPlays, DockInvariant, PTL

\* A click on the mark of a thread's header flips it, whatever marks its entries and
\* the thread itself, in data of the past, carry.
THEOREM DockHeaderFlips == Spec => HeaderMarkFlips
  <1>1. DockInv => [screen = "dock" => Dock!HeaderFlips]_screenVars
    BY HeaderTurns DEF Dock!HeaderFlips
  <1>2. screen # "dock" => [screen = "dock" => Dock!HeaderFlips]_screenVars
    OBVIOUS
  <1> QED
    BY <1>1, <1>2, DockPlays, DockInvariant, PTL DEF HeaderMarkFlips

\* With the socket served the page has every atom the host issued, or will have it from
\* the channel or a request under way, but for those that an overflow, a failed request
\* or the gap before service lost and those newer ones pushed out (NotificationBus and
\* its hydration); for every ring, channel, backlog and number of requests.
THEOREM FeedMissesNothing == Spec => []NothingMissed
  <1>1. FeedInv /\ MissInv => NothingMissed
    BY AccountedIsNotMissed DEF NothingMissed
  <1>2. screen # "feed" => NothingMissed
    BY DEF NothingMissed
  <1> QED
    BY <1>1, <1>2, FeedPlays, MissInvariant, PTL

\* A 500 the page heard of and still shows as open and recent is being probed or given up, or an ok
\* closes its thread, or it or its ok was pushed out by newer atoms (OrphansAreProbed, the recovery
\* probe); for every ring, all requests and any order of the stamps.
THEOREM FeedProbesOrphans == Spec => []OrphansAreProbed
  <1>1. AtomsInv /\ ThreadsHeard => OrphansAreProbed
    BY HeardIsProbed DEF OrphansAreProbed
  <1>2. screen # "feed" => OrphansAreProbed
    BY DEF OrphansAreProbed
  <1> QED
    BY <1>1, <1>2, FeedPlays, ProbeInvariant, PTL

\* No alert is counted that a later close of its thread answers, in whatever order the atoms came and
\* were stamped: of a thread the newest row counts, and no close is folded away (NoAlertUnderClose,
\* unreadAlerts of NotificationBus.ts and collapseI2PhaseTicks.ts).
THEOREM FeedAlertsAreOpen == Spec => []NoAlertUnderClose
  <1>1. AtomsInv /\ ThreadsHeard => Feed!NoAlertUnderClose
    BY AlertIsOpen DEF ThreadsHeard
  <1>2. Feed!NoAlertUnderClose => NoAlertUnderClose
    BY DEF NoAlertUnderClose
  <1>3. screen # "feed" => NoAlertUnderClose
    BY DEF NoAlertUnderClose
  <1> QED
    BY <1>1, <1>2, <1>3, FeedPlays, ProbeInvariant, PTL

\* Folding the ticks keeps the threads: for each of them some row of the fold says the same at the same
\* time, of each phase the newest tick's; so the newest rows agree, and with them status, kinds, close and
\* last activity (CollapseKeepsThreads, collapsePhaseTicks of collapseI2PhaseTicks.ts and threads.ts).
THEOREM FeedFoldsFaithfully == Spec => []CollapseKeepsThreads
  <1>1. AtomsInv /\ ThreadsHeard => Feed!CollapseKeepsThreads
    BY FoldedThreads DEF ThreadsHeard
  <1>2. Feed!CollapseKeepsThreads => CollapseKeepsThreads
    BY DEF CollapseKeepsThreads
  <1>3. screen # "feed" => CollapseKeepsThreads
    BY DEF CollapseKeepsThreads
  <1> QED
    BY <1>1, <1>2, <1>3, FeedPlays, ProbeInvariant, PTL
=============================================================================
