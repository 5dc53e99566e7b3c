---------------------------- MODULE TimelineAxis ----------------------------
(***************************************************************************)
(* The horizon of the page: what the operator chooses (time frame, D+, the *)
(* filter of the axis, the exchange a smart window follows, the switches   *)
(* of the ribbon), the axis published from it, the two questions to the    *)
(* server that complete it, and the view kept in the browser.  A choice    *)
(* publishes its axis at once; an answer replaces it when it comes, be it  *)
(* for a choice already left: only a new D/W choice drops the question for *)
(* hours, only a new All the question for the extent.                      *)
(***************************************************************************)
EXTENDS SessionAxis, FiniteSets

CONSTANTS
  Today,         \* the date the page is opened on
  OldViews,      \* views the browser may hold
  Frames,        \* time frames of the menu, as [unit, count]
  PickDates,     \* dates clicked in the range calendar
  Exchanges,     \* exchanges of the catalogue's filter; "MOEX" is home
  ClickedDays,   \* weekdays toggled one by one
  Minutes,       \* what the custom window's inputs are set to
  Hours,         \* what the server may know of a day: sets of at most one [start, end]
  Extents,       \* the server's answers on the extent of the coverage
  Flags,         \* switches of the ribbon
  DayTurns,      \* bound: midnights passed
  MaxClicks      \* bound: choices made

VARIABLES
  today,         \* the exchange's date
  view,          \* what is chosen: [frame, dPlus, filter, exchanges, flags]
  stored,        \* localStorage ohs:viewState
  axis,          \* what is published: [sessions, window]
  hoursAsk,      \* the calendar whose hours are asked for: at most one
  extentAsk,     \* the right edge awaiting the extent: at most one
  picker,        \* the range calendar: start and end picked so far
  heard,         \* ghost: the hours answered to the present choice
  behind,        \* ghost: the axis awaits its next computation
  clicks         \* clicks made

axisVars == <<today, view, stored, axis, hoursAsk, extentAsk, picker, heard, behind, clicks>>

All == [kind |-> "all"]
Sessions(unit, count) == [kind |-> "sessions", unit |-> unit, count |-> count]
DateRange(from, to) == [kind |-> "range", from |-> from, to |-> to]
Neutral == [weekdays |-> AllWeekdays, fullDay |-> TRUE, session |-> Mode("none")]
ByHours(frame) == frame.kind = "sessions" /\ frame.unit \in {"D", "W"}

GenIncludeWeekends(v) == v.filter.weekdays \cap {0, 6} # {}
Anchor(v, date) == IF v.dPlus THEN date + 1 ELSE date

\* One exchange chosen: its session; several: none; none chosen: the home one's.
ResolveSession(v) ==
  IF v.filter.session.mode # "smart" THEN v.filter.session
  ELSE IF Cardinality(v.exchanges) > 1 THEN Mode("none") ELSE Mode("session")

ShapeSessions(v, sessions) ==
  LET kept == Picked(sessions, {i \in DOMAIN sessions : Weekday(sessions[i].date) \in v.filter.weekdays})
  IN  [i \in DOMAIN kept |-> ReshapeDay(kept[i], v.filter.fullDay, ResolveSession(v))]

PublishSessions(v, ordered) ==
  LET shaped == ShapeSessions(v, ordered)
  IN  [sessions |-> shaped,
       window |-> IF shaped = <<>> THEN DefaultWindow(today)
                  ELSE [from |-> shaped[1].start, to |-> shaped[Len(shaped)].end]]

Calendar(v, date) ==
  LET f == v.frame
      iw == GenIncludeWeekends(v)
      a == Anchor(v, date)
      ends == {SessionBounds(f.from).start, SessionBounds(f.to).end}
      first == CHOOSE t \in ends : \A u \in ends : t <= u
      last == CHOOSE t \in ends : \A u \in ends : t >= u
  IN  CASE ByHours(f) -> RecentSessions(SessionCount(f.unit, f.count, iw), iw, a)
        [] f.kind = "sessions" /\ ~ByHours(f) ->
             SessionsFrom(SessionBounds(a - UnitDays[f.unit] * f.count).start, iw, a)
        [] f.kind = "range" -> SessionsFrom(first, iw, DateOf(last))
        [] OTHER -> <<>>

\* The axis is recomputed for the view v; All keeps its old window till the answer.
ApplyTimeframe(v) ==
  /\ axis' = IF v.frame.kind = "all" THEN [axis EXCEPT !.sessions = <<>>]
             ELSE PublishSessions(v, Calendar(v, today))
  /\ hoursAsk' = IF ByHours(v.frame) THEN {Calendar(v, today)} ELSE hoursAsk
  /\ extentAsk' = IF v.frame.kind = "all" THEN {SessionBounds(Anchor(v, today)).end} ELSE extentAsk
  /\ heard' = <<>>
  /\ behind' = FALSE

(***************************************************************************)
(* The view kept in the browser.  Reading it, the work gaps win over the   *)
(* incidents.                                                              *)
(***************************************************************************)
Incidents == {"showBreakIncidents", "showCrashIncidents"}
\* A view as it is kept: whatever else is in it, every switch is on or off.
IsView(v) ==
  v = [x \in DOMAIN v |-> v[x]] /\ "flags" \in DOMAIN v /\ v.flags \in [Flags -> BOOLEAN]
\* A horizon as it is kept: a known time frame, a range in order, hours of the day.
IsFrame(f) ==
  \/ f = All
  \/ f.kind = "sessions" /\ f = Sessions(f.unit, f.count)
       /\ f.unit \in {"D", "W", "M", "Q", "Y"} /\ f.count \in Nat \ {0}
  \/ f.kind = "range" /\ f = DateRange(f.from, f.to)
       /\ f.from \in Int /\ f.to \in Int /\ f.from <= f.to
IsFilter(filter) ==
  /\ filter = [weekdays |-> filter.weekdays, fullDay |-> filter.fullDay, session |-> filter.session]
  /\ filter.session \in [mode : {"none", "session", "smart", "custom"},
                         from : 0..MinutesOfDay, to : 0..MinutesOfDay]
IsHorizon(v) ==
  /\ {"frame", "dPlus", "filter", "exchanges"} \subseteq DOMAIN v
  /\ IsFrame(v.frame) /\ IsFilter(v.filter)

RestoreView(v) ==
  [v EXCEPT !.flags = [k \in Flags |-> IF k \in Incidents /\ @["showWorkGaps"] THEN FALSE ELSE @[k]]]

Choose(v) ==
  /\ clicks < MaxClicks
  /\ clicks' = clicks + 1
  /\ view' = v
  /\ stored' = v
  /\ UNCHANGED <<today, picker>>
Chosen(v) == Choose(v) /\ ApplyTimeframe(v)
Shown(v) == Choose(v) /\ UNCHANGED <<axis, hoursAsk, extentAsk, heard, behind>>

\* Mutant: D+ waits for the next computation of the window.
DPlusOnly == Shown([view EXCEPT !.dPlus = ~@])

SetDPlus == Chosen([view EXCEPT !.dPlus = ~@])
SetTimeframe(frame) == Chosen([view EXCEPT !.frame = frame])
SetTimelineFilter(filter) ==
  LET bare == filter.session.mode = "none" /\ ~filter.fullDay
  IN  Chosen([view EXCEPT !.filter = IF bare THEN [filter EXCEPT !.fullDay = TRUE] ELSE filter])

\* The chips of the filter.  The last weekday stays.
ToggleDay(dow) ==
  LET days == view.filter.weekdays
      next == IF dow \notin days THEN days \cup {dow} ELSE IF days = {dow} THEN days ELSE days \ {dow}
  IN  SetTimelineFilter([view.filter EXCEPT !.weekdays = next])
PickDays(days) == SetTimelineFilter([view.filter EXCEPT !.weekdays = days])
ToggleFull == SetTimelineFilter([view.filter EXCEPT !.fullDay = ~@])
ToggleSession(mode) ==
  SetTimelineFilter([view.filter EXCEPT !.session = IF @.mode = mode.mode THEN Mode("none") ELSE mode])
PatchCustom(mode) ==
  /\ view.filter.session.mode = "custom"
  /\ SetTimelineFilter([view.filter EXCEPT !.session = mode])
ResetTimelineFilter ==
  /\ view.filter.weekdays # AllWeekdays \/ view.filter.session.mode # "none"
  /\ Chosen([view EXCEPT !.filter = Neutral])

EditFilter ==
  LET now == view.filter.session
  IN  \/ \E dow \in ClickedDays : ToggleDay(dow)
      \/ \E days \in {AllWeekdays, 1..5, {0, 6}} : PickDays(days)
      \/ ToggleFull
      \/ \E mode \in {Mode("session"), Mode("smart"), CustomMode(600, 1140)} : ToggleSession(mode)
      \/ \E m \in Minutes : PatchCustom(CustomMode(m, now.to)) \/ PatchCustom(CustomMode(now.from, m))
      \/ ResetTimelineFilter

\* The range calendar: a first click starts a range, the second ends it in order.
NoDate == 0 - 1
Pick(date) ==
  /\ clicks < MaxClicks
  /\ picker' = IF picker.start = NoDate \/ picker.end # NoDate THEN [start |-> date, end |-> NoDate]
               ELSE IF date < picker.start THEN [start |-> date, end |-> picker.start]
               ELSE [picker EXCEPT !.end = date]
  /\ UNCHANGED <<today, view, stored, axis, hoursAsk, extentAsk, heard, behind, clicks>>
ApplyPicked ==
  /\ picker.start # NoDate
  /\ SetTimeframe(DateRange(picker.start, IF picker.end = NoDate THEN picker.start ELSE picker.end))
PickTimeframe ==
  \/ \E f \in Frames : SetTimeframe(Sessions(f.unit, f.count))
  \/ SetTimeframe(All)
  \/ ApplyPicked

\* The exchanges of the catalogue reach a smart window with its next computation.
SetExchanges(chosen) ==
  LET v == [view EXCEPT !.exchanges = chosen]
  IN  /\ Choose(v)
      /\ behind' = (behind \/ view.filter.session.mode = "smart")
      /\ UNCHANGED <<axis, hoursAsk, extentAsk, heard>>

\* The work gaps and the incidents exclude each other; the other switches stand alone.
SetFlag(k) ==
  LET on == ~view.flags[k]
      off(j) == on /\ \/ k = "showWorkGaps" /\ j \in Incidents
                      \/ k \in Incidents /\ j = "showWorkGaps"
  IN  Shown([view EXCEPT !.flags =
               [j \in Flags |-> IF j = k THEN on ELSE IF off(j) THEN FALSE ELSE @[j]]])

(***************************************************************************)
(* Answers, the passing of days, a reload.                                 *)
(***************************************************************************)
Known(calendar, hours) ==
  LET dates == {calendar[i].date : i \in DOMAIN calendar} \cap {d \in (today - 400)..today : hours # {}}
      h == CHOOSE h \in hours : TRUE
  IN  [d \in dates |-> [start |-> d * MinutesOfDay + h.start, end |-> d * MinutesOfDay + h.end]]

GetSessionsAnswered(hours) ==
  /\ \E calendar \in hoursAsk :
       /\ axis' = PublishSessions(view, MergeSessionHours(calendar, Known(calendar, hours)))
       /\ heard' = Known(calendar, hours)
  /\ hoursAsk' = {}
  /\ behind' = (behind \/ ~ByHours(view.frame))
  /\ UNCHANGED <<today, view, stored, extentAsk, picker, clicks>>

\* A failed question leaves the skeleton.
GetSessionsFailed ==
  /\ hoursAsk # {}
  /\ hoursAsk' = {}
  /\ UNCHANGED <<today, view, stored, axis, extentAsk, picker, heard, behind, clicks>>

GetExtentAnswered(extent) ==
  /\ \E right \in extentAsk :
       axis' = [axis EXCEPT !.window =
                  CASE extent = "failed" -> DefaultWindow(today)
                    [] extent = "empty" -> [from |-> SessionBounds(today).start, to |-> right]
                    [] OTHER -> [from |-> Extents[extent].from,
                                 to |-> IF Extents[extent].to > right THEN Extents[extent].to ELSE right]]
  /\ extentAsk' = {}
  /\ behind' = (behind \/ view.frame # All)
  /\ UNCHANGED <<today, view, stored, hoursAsk, picker, heard, clicks>>

Midnight ==
  /\ today < Today + DayTurns
  /\ today' = today + 1
  /\ behind' = TRUE
  /\ UNCHANGED <<view, stored, axis, hoursAsk, extentAsk, picker, heard, clicks>>

\* Once a minute; a range is never recomputed.
RefreshTimeframeWindow ==
  /\ view.frame.kind # "range"
  /\ ApplyTimeframe(view)
  /\ UNCHANGED <<today, view, stored, picker, clicks>>

Reload ==
  LET v == RestoreView(stored)
      nothing == [sessions |-> <<>>, window |-> DefaultWindow(today)]
  IN  /\ view' = v
      /\ axis' = IF v.frame.kind = "all" THEN nothing ELSE PublishSessions(v, Calendar(v, today))
      /\ hoursAsk' = IF ByHours(v.frame) THEN {Calendar(v, today)} ELSE {}
      /\ extentAsk' = IF v.frame.kind = "all" THEN {SessionBounds(Anchor(v, today)).end} ELSE {}
      /\ picker' = [start |-> NoDate, end |-> NoDate]
      /\ heard' = <<>>
      /\ behind' = FALSE
      /\ UNCHANGED <<today, stored, clicks>>

Init ==
  /\ today = Today
  /\ stored \in OldViews
  /\ view = RestoreView(stored)
  /\ axis = [sessions |-> <<>>, window |-> DefaultWindow(Today)]
  /\ hoursAsk = {}
  /\ extentAsk = {}
  /\ picker = [start |-> NoDate, end |-> NoDate]
  /\ heard = <<>>
  /\ behind = TRUE
  /\ clicks = 0

Next ==
  \/ SetDPlus
  \/ PickTimeframe
  \/ EditFilter
  \/ \E date \in PickDates : Pick(date)
  \/ \E chosen \in SUBSET Exchanges : SetExchanges(chosen)
  \/ \E k \in Flags : SetFlag(k)
  \/ \E hours \in Hours : GetSessionsAnswered(hours)
  \/ GetSessionsFailed
  \/ \E extent \in {"failed", "empty"} \cup DOMAIN Extents : GetExtentAnswered(extent)
  \/ Midnight
  \/ RefreshTimeframeWindow
  \/ Reload

Spec == Init /\ [][Next]_axisVars

-----------------------------------------------------------------------------
(***************************************************************************)
(* Properties.                                                             *)
(***************************************************************************)
Counts(v, d) == GenIncludeWeekends(v) \/ ~IsWeekend(d)
\* The dates a horizon is about, as far back as the axis reaches; those of the last
\* exchange days lie within as many weeks.
HorizonDates(v) ==
  LET f == v.frame
      a == Anchor(v, today)
      n == IF f.unit = "D" THEN f.count ELSE f.count * (IF GenIncludeWeekends(v) THEN 7 ELSE 5)
  IN  CASE f.kind = "range" -> Earliest(f.from, f.to)..f.to
        [] f.kind = "sessions" /\ ~ByHours(f) -> Earliest(a - UnitDays[f.unit] * f.count, a)..a
        [] OTHER -> {d \in (a - 7 * n)..a : Cardinality({e \in d..a : Counts(v, e)}) <= n}
ChosenDates(v) == {d \in HorizonDates(v) : Counts(v, d) /\ Weekday(d) \in v.filter.weekdays}

\* The hours a day of the axis is drawn with: the server's where they are known.
DrawnAs(v, s) ==
  LET day == [from |-> s.date * MinutesOfDay, to |-> (s.date + 1) * MinutesOfDay]
      mode == ResolveSession(v)
      usual == IF s.date \in DOMAIN heard THEN heard[s.date] ELSE SessionBounds(s.date)
      zone == IF mode.mode = "custom" THEN [from |-> day.from + mode.from, to |-> day.from + mode.to]
              ELSE [from |-> usual.start, to |-> usual.end]
      drawn == [from |-> s.start, to |-> s.end]
  IN  IF mode.mode = "none" THEN drawn = day /\ s.inner = {}
      ELSE IF v.filter.fullDay THEN drawn = day /\ s.inner = {zone}
      ELSE drawn = zone /\ s.inner = {}

\* After any order of choices, answers and midnights, an axis that is not waiting for
\* an answer or for the next computation shows, in order, exactly the days of the
\* chosen horizon and filter, each with the hours the filter and the server give it.
AxisIsChosen ==
  (hoursAsk = {} /\ ~behind /\ view.frame.kind # "all") =>
     LET s == axis.sessions
     IN  /\ {s[i].date : i \in DOMAIN s} = ChosenDates(view)
         /\ \A i \in 1..(Len(s) - 1) : s[i].date < s[i + 1].date
         /\ \A i \in DOMAIN s : DrawnAs(view, s[i])

\* The tooltip under the cursor tells the time drawn there: from a place on the axis to
\* the instant and back leads to the same place, at every seam of the axis and beside
\* it.  (A custom window entered backwards has no such axis.)
Forward(sessions) == \A i \in DOMAIN sessions : sessions[i].start < sessions[i].end
Places(scale) ==
  LET seams == {scale.offset[i] : i \in DOMAIN scale.offset}
      near == UNION {{u - 1, u, u + 1, u + 200} : u \in seams}
  IN  {u \in near : u >= 0 /\ u <= scale.length}
CursorIsTrue ==
  Forward(axis.sessions) =>
    LET scale == Scale(axis.sessions, axis.window)
    IN  \A u \in Places(scale) : Project(scale, InvertProject(scale, u)) = u

\* The view survives a reload as it was left, and neither the switches nor a view kept
\* by the browser bring the work gaps and the incidents onto the ribbon together.
ReloadKeepsView ==
  /\ RestoreView(stored) = view
  /\ view.flags["showWorkGaps"] => \A k \in Incidents : ~view.flags[k]
=============================================================================
