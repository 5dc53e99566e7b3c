---------------------------- MODULE SessionAxis ----------------------------
(***************************************************************************)
(* The time axis of the page: the exchange's days of a horizon, the hours  *)
(* drawn of each, and the scale that lays them side by side with the idle  *)
(* time between them folded away.  A date is the number of a day, date 0 a *)
(* Sunday; an instant counts minutes from the midnight of date 0 in the    *)
(* exchange's zone; a place on the axis counts the minutes drawn before    *)
(* it.  The calendar is abstracted: a month, a quarter and a year are      *)
(* UnitDays long, both for a shift of the date and for the choice of a     *)
(* bucket.  A session is [date, start, end, inner]: inner is the zone of   *)
(* trade within a day drawn in full, a set of at most one span.            *)
(***************************************************************************)
EXTENDS Integers, Sequences

CONSTANT UnitDays      \* days of a month, a quarter and a year of the calendar

MinutesOfDay == 1440
AllWeekdays == 0..6
Weekday(date) == date % 7
IsWeekend(date) == Weekday(date) \in {0, 6}
DateOf(t) == t \div MinutesOfDay

SessionBounds(date) ==
  LET at(minute) == date * MinutesOfDay + minute
  IN  IF IsWeekend(date) THEN [start |-> at(590), end |-> at(1140)]
      ELSE [start |-> at(530), end |-> at(1430)]
DefaultWindow(date) == [from |-> SessionBounds(date).start, to |-> SessionBounds(date).end]
SessionOn(date) ==
  [date |-> date, start |-> SessionBounds(date).start, end |-> SessionBounds(date).end, inner |-> {}]

\* What stands at some places of a sequence (spelt out, to be reasoned about).
Picked(seq, places) ==
  LET upTo[n \in 0..Len(seq)] ==
        IF n = 0 THEN <<>> ELSE IF n \in places THEN Append(upTo[n - 1], seq[n]) ELSE upTo[n - 1]
  IN  upTo[Len(seq)]

\* Exchange days of first..last; Saturdays and Sundays only when they count.
ExchangeDays(first, last, weekends) ==
  LET days == [i \in 1..(last - first + 1) |-> first + i - 1]
  IN  Picked(days, {i \in DOMAIN days : weekends \/ ~IsWeekend(days[i])})
SessionsOn(days) == [i \in DOMAIN days |-> SessionOn(days[i])]

\* The last count days up to the anchor, looked for among count*3+14 dates.
RecentSessions(count, weekends, anchor) ==
  LET days == ExchangeDays(anchor - 3 * count - 13, anchor, weekends)
  IN  SessionsOn(SubSeq(days, Len(days) - count + 1, Len(days)))

\* Every day up to the anchor that has not ended before an instant, among the last Reach.
Reach == 4200
Earliest(first, anchor) == IF first > anchor - Reach THEN first ELSE anchor - Reach + 1
SessionsFrom(from, weekends, anchor) ==
  LET days == ExchangeDays(Earliest(DateOf(from), anchor), anchor, weekends)
  IN  SessionsOn(Picked(days, {i \in DOMAIN days : SessionBounds(days[i]).end >= from}))

SessionCount(unit, count, weekends) ==
  IF unit = "D" THEN count ELSE count * (IF weekends THEN 7 ELSE 5)

\* The server's hours replace the assumed ones on the dates it knows.
MergeSessionHours(calendar, known) ==
  [i \in DOMAIN calendar |->
     IF calendar[i].date \in DOMAIN known
       THEN [calendar[i] EXCEPT !.start = known[calendar[i].date].start,
                                !.end = known[calendar[i].date].end]
     ELSE calendar[i]]

(***************************************************************************)
(* The day as the filter draws it.  A mode is [mode, from, to]; "smart"    *)
(* has been resolved before.                                               *)
(***************************************************************************)
Mode(name) == [mode |-> name, from |-> 0, to |-> 0]
CustomMode(from, to) == [mode |-> "custom", from |-> from, to |-> to]

ReshapeDay(s, fullDay, mode) ==
  LET midnight == s.date * MinutesOfDay
      zone == CASE mode.mode = "session" -> {[from |-> s.start, to |-> s.end]}
                [] mode.mode = "custom" -> {[from |-> midnight + mode.from, to |-> midnight + mode.to]}
                [] OTHER -> {}
      whole == [s EXCEPT !.start = midnight, !.end = midnight + MinutesOfDay, !.inner = zone]
  IN  IF fullDay \/ zone = {} THEN whole
      ELSE [s EXCEPT !.start = (CHOOSE z \in zone : TRUE).from, !.end = (CHOOSE z \in zone : TRUE).to,
                     !.inner = {}]

(***************************************************************************)
(* The scale: the stretches laid side by side, the place each begins at,   *)
(* the length of the whole.  Without sessions it is the window itself.     *)
(***************************************************************************)
Dur(s) == IF s.end - s.start > 1 THEN s.end - s.start ELSE 1
Clamp(u, top) == IF u < 0 THEN 0 ELSE IF u > top THEN top ELSE u
Scale(sessions, window) ==
  LET parts == IF sessions = <<>> THEN <<[start |-> window.from, end |-> window.to]>> ELSE sessions
      offset[i \in 1..(Len(parts) + 1)] == IF i = 1 THEN 0 ELSE offset[i - 1] + Dur(parts[i - 1])
  IN  [parts |-> parts, offset |-> offset, length |-> offset[Len(parts) + 1]]
FirstPart(scale, Found(_)) ==
  CHOOSE i \in DOMAIN scale.parts : Found(i) /\ \A j \in 1..(i - 1) : ~Found(j)

\* An instant of a fold goes to its seam.
Project(scale, t) ==
  LET p == scale.parts
      found(i) == t < p[i].start \/ t <= p[i].end
      i == FirstPart(scale, found)
  IN  CASE t <= p[1].start -> 0
        [] t > p[1].start /\ (t >= p[Len(p)].end \/ \A j \in DOMAIN p : ~found(j)) -> scale.length
        [] OTHER -> IF t < p[i].start THEN scale.offset[i]
                    ELSE Clamp(scale.offset[i] + t - p[i].start, scale.length)

InvertProject(scale, u) ==
  LET place == Clamp(u, scale.length)
      i == FirstPart(scale, LAMBDA k : place <= scale.offset[k] + Dur(scale.parts[k]))
  IN  scale.parts[i].start + (IF place > scale.offset[i] THEN place - scale.offset[i] ELSE 0)

(***************************************************************************)
(* The bucket of the layer of trades, in seconds, by the horizon in days.  *)
(***************************************************************************)
HorizonDays(timeframe) ==
  CASE timeframe.kind = "sessions" ->
         timeframe.count * [D |-> 1, W |-> 7, M |-> 30, Q |-> 90, Y |-> 365][timeframe.unit]
    [] timeframe.kind = "range" ->
         IF timeframe.to > timeframe.from THEN timeframe.to - timeframe.from ELSE 1
    [] OTHER -> 401        \* beyond every step
BucketSeconds(timeframe) ==
  LET days == HorizonDays(timeframe)
  IN  CASE days <= 1 -> 30 [] days > 1 /\ days <= 3 -> 60 [] days > 3 /\ days <= 10 -> 300
        [] days > 10 /\ days <= 40 -> 1800 [] days > 40 /\ days <= 130 -> 7200
        [] days > 130 /\ days <= 400 -> 43200 [] OTHER -> 86400
=============================================================================
