------------------------------ MODULE DockFilter ------------------------------
(***************************************************************************)
(* Which containers of the feed the dock shows: the filter's conditions on *)
(* atoms, threads, layers, connections and marks, and the date range in    *)
(* the time zone of the feed.                                              *)
(*                                                                         *)
(* An event has its attribution, its code's area (transport, writer,       *)
(* connection, other), its module, its data's kind and connection ids, the *)
(* words a query finds in it and a time stamp.  A day has Day units; a     *)
(* zone is an offset in units.  The browser's own zone is one more offset: *)
(* changes of daylight saving are left out.                                *)
(***************************************************************************)
EXTENDS Integers, Sequences, FiniteSets

CONSTANTS Day,             \* units of time in a day
          TransportKeys,   \* correlation ids of the transport
          ConnectionKeys   \* correlation ids of a connection

Absent == "absent"

(***************************************************************************)
(* The filter.                                                             *)
(***************************************************************************)
DefaultLayers == [tl |-> TRUE, cl |-> TRUE, wl |-> FALSE]
EmptyConnection == [show |-> 0, hide |-> 0]       \* 0: no valid id was typed
EmptyRange == [preset |-> "all", from |-> {}, to |-> {},
               timeEnabled |-> FALSE, timeFrom |-> {}, timeTo |-> {}]
EmptyFilter ==
  [severities |-> {}, interactions |-> {}, localizations |-> {}, statuses |-> {},
   threadStatuses |-> {}, choices |-> {}, connection |-> EmptyConnection,
   layers |-> DefaultLayers, range |-> EmptyRange, query |-> Absent]

\* The field of the filter a chip edits.
FieldOf == [severity |-> "severities", interaction |-> "interactions",
            localization |-> "localizations", status |-> "statuses",
            threadStatus |-> "threadStatuses", choice |-> "choices",
            connection |-> "connection", layers |-> "layers", range |-> "range"]
Keys == DOMAIN FieldOf

IsFilterAtDefault(key, f) ==
  IF key = "range" THEN f.range.preset = "all" /\ ~f.range.timeEnabled
  ELSE f[FieldOf[key]] = EmptyFilter[FieldOf[key]]

ResetFilterValue(key, f) == [f EXCEPT ![FieldOf[key]] = EmptyFilter[FieldOf[key]]]

(***************************************************************************)
(* Dates.  A bound is a set with at most one element.                      *)
(***************************************************************************)

\* The number of the wall-clock day of an instant, and the instant it starts.
WallDay(ts, offset) == (ts + offset) \div Day
StartOfWallDay(day, offset) == day * Day - offset
LocalTimeOfDay(ts, offset) == (ts + offset) % Day

\* The days an open preset goes back from today.
DaysBack == [today |-> 0, yesterday |-> 1, days3 |-> 2, week |-> 6, month |-> 30]

Or(bound, default) == IF bound = {} THEN default ELSE CHOOSE x \in bound : TRUE

\* The time of day: unreadable or empty texts are the whole day.
ResolveTimeOfDay(r) == [from |-> Or(r.timeFrom, 0), to |-> Or(r.timeTo, Day)]

\* The bounds of a range: instants, and times of day for "all" with a time.
ResolveRangeBounds(r, now, offset) ==
  LET today == WallDay(now, offset)
      Starts(days) == {StartOfWallDay(d, offset) : d \in days}
      fromDay == CASE r.preset = "all" -> {}
                   [] r.preset = "custom" -> Starts(r.from)
                   [] OTHER -> Starts({today - DaysBack[r.preset]})
      toDay == IF r.preset = "custom" THEN Starts(r.to) ELSE {}
      time == ResolveTimeOfDay(r)
      endDay == Or(toDay, StartOfWallDay(today, offset))
  IN  CASE ~r.timeEnabled ->
             [from |-> fromDay, to |-> {d + Day - 1 : d \in toDay}, tod |-> {}]
        [] r.timeEnabled /\ r.preset = "all" ->
             [from |-> {}, to |-> {}, tod |-> {time}]
        [] OTHER ->
             [from |-> {d + time.from : d \in fromDay}, to |-> {endDay + time.to - 1},
              tod |-> {}]

InRange(ts, b, offset) ==
  /\ \A f \in b.from : ts >= f
  /\ \A t \in b.to : ts <= t
  /\ \A time \in b.tod : /\ LocalTimeOfDay(ts, offset) >= time.from
                         /\ LocalTimeOfDay(ts, offset) < time.to

(***************************************************************************)
(* Atoms.                                                                  *)
(***************************************************************************)
ResolveInteraction(e) ==
  IF e.interaction # Absent THEN e.interaction
  ELSE IF e.sourceType = "user" THEN "user" ELSE "system"
ResolveLocalization(e) ==
  IF e.localization # Absent THEN e.localization
  ELSE IF e.sourceType = "external" THEN "external" ELSE "internal"

\* An empty set asks for nothing.
Wants(set, value) == set = {} \/ value \in set
Hits(words, query) == query = Absent \/ query \in words

\* filterEvents of one event; at is the clock and the zone.
EventMatches(e, f, at) ==
  /\ Wants(f.severities, e.severity)
  /\ Wants(f.interactions, ResolveInteraction(e))
  /\ Wants(f.localizations, ResolveLocalization(e))
  /\ Wants(f.statuses, e.status)
  /\ Hits(e.words, f.query)
  /\ InRange(e.ts, ResolveRangeBounds(f.range, at.now, at.offset), at.offset)

\* A thread: one entry meets all the conditions on atoms, and the query finds
\* an entry, perhaps another one, or the header.
ThreadMatchesAtoms(t, f, at) ==
  LET noQuery == [f EXCEPT !.query = Absent]
  IN  /\ \E i \in DOMAIN t.notifications : EventMatches(t.notifications[i], noQuery, at)
      /\ \/ Hits(t.words, f.query)
         \/ \E i \in DOMAIN t.notifications : Hits(t.notifications[i].words, f.query)

(***************************************************************************)
(* Layers and connections.                                                 *)
(***************************************************************************)
ClassifyCorr(key) ==
  CASE key \in TransportKeys -> "tl" [] key \in ConnectionKeys -> "cl" [] OTHER -> Absent

ClassifyEventLayer(e) ==
  CASE ClassifyCorr(e.corr) # Absent -> ClassifyCorr(e.corr)
    [] OTHER ->
       CASE e.kind = "crash" -> "tl"
         [] e.kind = "break" -> "cl"
         [] OTHER ->
            CASE e.area = "transport" -> "tl"
              [] e.area = "writer" \/ (e.area # "transport" /\ e.writerModule) -> "wl"
              [] e.area = "connection" /\ ~e.writerModule -> "cl"
              [] OTHER -> "tl"

ClassifyItemLayer(item) ==
  IF item.itemKind = "single" THEN ClassifyEventLayer(item.event)
  ELSE IF ClassifyCorr(item.uid) # Absent THEN ClassifyCorr(item.uid)
  ELSE ClassifyEventLayer(item.notifications[1])

MatchesLayerFilter(item, layers) == layers[ClassifyItemLayer(item)]

ItemConnectionIds(item) ==
  IF item.itemKind = "single" THEN item.event.ids
  ELSE UNION {item.notifications[i].ids : i \in DOMAIN item.notifications}

\* Only the layer of the connections is cut; hide beats show.
MatchesConnectionFilter(item, c) ==
  ClassifyItemLayer(item) = "cl" =>
    LET ids == ItemConnectionIds(item)
    IN  /\ c.hide \notin ids
        /\ c.show = 0 \/ ids = {} \/ c.show \in ids

(***************************************************************************)
(* Marks.  A map from entry ids, and from thread ids of old data, to sets  *)
(* of marks; an id without a mark is mapped to {}.                         *)
(***************************************************************************)
ResolveEntryMarks(marks, id, uid) ==
  marks[id] \cup (IF uid = Absent THEN {} ELSE marks[uid])

EntryMarks(marks, t) ==
  {ResolveEntryMarks(marks, t.notifications[i].id, t.uid) : i \in DOMAIN t.notifications}

\* Mutant: one entry of spam hides the thread.
AnySpamHeader(marks, t) == UNION EntryMarks(marks, t)

\* The header is a favourite when an entry is, spam when every entry is.
ResolveThreadHeaderMarks(marks, t) ==
  ((UNION EntryMarks(marks, t)) \cap {"isFavorite"})
    \cup (IF \A m \in EntryMarks(marks, t) : "isLeft" \in m THEN {"isLeft"} ELSE {})

WriteMark(marks, id, key, on) ==
  [marks EXCEPT ![id] = IF on THEN @ \cup {key} ELSE @ \ {key}]

ToggleNcMark(marks, id, key) == WriteMark(marks, id, key, key \notin marks[id])

\* Mutant: the thread's own mark of old data stays.
BulkOfEntries(marks, t, key, on) ==
  [id \in DOMAIN marks |->
     IF id \in {t.notifications[i].id : i \in DOMAIN t.notifications}
       THEN (IF on THEN marks[id] \cup {key} ELSE marks[id] \ {key}) ELSE marks[id]]

\* All entries on or off; the thread's own mark goes.
SetThreadBulkMarks(marks, t, key, on) ==
  LET ids == {t.notifications[i].id : i \in DOMAIN t.notifications}
  IN  [id \in DOMAIN marks |->
         CASE id = t.uid -> marks[id] \ {key}
           [] id \in ids /\ on -> marks[id] \cup {key}
           [] id \in ids /\ ~on -> marks[id] \ {key}
           [] OTHER -> marks[id]]

(***************************************************************************)
(* The containers shown.                                                   *)
(***************************************************************************)

\* An item with its marks and whether the journal deleted its incident.
Marked(item, marks, deleted) ==
  IF item.itemKind = "thread"
    THEN [item |-> item, has |-> ResolveThreadHeaderMarks(marks, item),
          deleted |-> item.uid \in deleted]
    ELSE [item |-> item, has |-> ResolveEntryMarks(marks, item.event.id, Absent),
          deleted |-> item.event.corr \in deleted]

\* filterItems of one item: deleted incidents and spam are hidden unless chosen.
ItemMatches(m, f, at) ==
  /\ MatchesLayerFilter(m.item, f.layers)
  /\ MatchesConnectionFilter(m.item, f.connection)
  /\ m.deleted => "deleted" \in f.choices
  /\ "isLeft" \in m.has => "left" \in f.choices
  /\ "favorite" \in f.choices => "isFavorite" \in m.has
  /\ IF m.item.itemKind = "single"
       THEN f.threadStatuses = {} /\ EventMatches(m.item.event, f, at)
       ELSE /\ Wants(f.threadStatuses, m.item.threadStatus)
            /\ ThreadMatchesAtoms(m.item, f, at)
=============================================================================
