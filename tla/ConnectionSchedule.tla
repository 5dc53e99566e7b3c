------------------------- MODULE ConnectionSchedule -------------------------
(***************************************************************************)
(* How the page reads the rules of a connection's schedule: the rule that  *)
(* has its way on a day, whether the connection ought to be up now, the    *)
(* windows and the idle time drawn over the ribbon.  A rule is             *)
(*   [scope, mode, open, duration, at],                                    *)
(* its window belongs to the day it opens on and may run past midnight.    *)
(* Minutes count from the midnight of date 0 in the zone of the schedule;  *)
(* a span is half open.                                                    *)
(***************************************************************************)
EXTENDS ScheduleLayers

Tier(scope) == CASE scope.kind = "date" -> 2 [] scope.kind = "dow" -> 1 [] OTHER -> 0
CoversDay(scope, date) ==
  scope.kind = "main" \/ CoversDow(scope, DowOf(date)) \/ CoversDate(scope, date)

\* Of two rules of one tier the newer wins, and of two as new the first.
Beats(rules, i, j) ==
  LET a == rules[i]
      b == rules[j]
  IN  \/ Tier(a.scope) > Tier(b.scope)
      \/ Tier(a.scope) = Tier(b.scope) /\ a.at > b.at
      \/ Tier(a.scope) = Tier(b.scope) /\ a.at = b.at /\ i < j
PickWinner(rules, candidates) ==
  {rules[i] : i \in {i \in candidates : \A j \in candidates \ {i} : Beats(rules, i, j)}}
ResolveWinnerForDate(rules, date) ==
  PickWinner(rules, Where(rules, LAMBDA r : CoversDay(r.scope, date)))
\* In the overview of the week the rules for dates have no part.
ResolveWinnerForDow(rules, dow) ==
  PickWinner(rules, Where(rules, LAMBDA r : r.scope.kind = "main" \/ CoversDow(r.scope, dow)))

\* The window that opens on a date: a set of at most one span.
WindowOf(rules, date) ==
  {[from |-> date * Day + r.open, to |-> date * Day + r.open + r.duration] :
     r \in {w \in ResolveWinnerForDate(rules, date) : w.mode = "window"}}

IsConnectedNow(rules, now) ==
  \E date \in {now \div Day - 1, now \div Day} :
    \E w \in WindowOf(rules, date) : now >= w.from /\ now < w.to

ScheduleButtonKind(rules, now) ==
  CASE rules = <<>> -> "empty"
    [] \E r \in ResolveWinnerForDate(rules, now \div Day) : r.scope.kind = "date" -> "dateToday"
    [] OTHER -> "active"

(***************************************************************************)
(* Windows within a range, merged, and what they leave between them.       *)
(***************************************************************************)
\* In the order of their beginnings (spelt out, to be reasoned about); merged, it makes no
\* difference which of two that begin together comes first.
Before(a, b) == a.from < b.from \/ (a.from = b.from /\ a.to < b.to)
Sorted(spans) ==
  CHOOSE s \in [1..Cardinality(spans) -> spans] : \A i, j \in DOMAIN s : i < j => Before(s[i], s[j])
\* A span that begins within the one before, or at its end, lengthens it.
JoinHalfOpen(out, s) ==
  IF out # <<>> /\ s.from <= Last(out).to
    THEN [out EXCEPT ![Len(out)].to = Max({@, s.to})]
  ELSE Append(out, s)
MergeHalfOpen(spans) == FoldLeft(JoinHalfOpen, <<>>, Sorted(spans))

\* What lies idle up to the end of a window.
VoidBefore(acc, d) ==
  [voids |-> acc.voids \cup (IF d.from > acc.cursor
                               THEN {[from |-> acc.cursor, to |-> d.from]} ELSE {}),
   cursor |-> Max({acc.cursor, d.to})]
InvertHalfOpen(desired, from, to) ==
  LET done == FoldLeft(VoidBefore, [voids |-> {}, cursor |-> from], desired)
  IN  done.voids \cup (IF done.cursor < to THEN {[from |-> done.cursor, to |-> to]} ELSE {})

Clip(span, from, to) == [from |-> Max({span.from, from}), to |-> Min({span.to, to})]

\* Mutant: a window is looked for on the days of the range only.
WindowsOfItsDays(rules, from, to) ==
  MergeHalfOpen({s \in {Clip(w, from, to) : w \in UNION {WindowOf(rules, d) :
                          d \in (from \div Day)..(to \div Day)}} : s.from < s.to})

\* The day before the range counts: its window may run into the range.
EnumerateDesiredWindows(rules, from, to) ==
  MergeHalfOpen({s \in {Clip(w, from, to) : w \in UNION {WindowOf(rules, d) :
                          d \in (from \div Day - 1)..(to \div Day)}} : s.from < s.to})
ScheduleVoidIntervals(rules, from, to) ==
  IF rules = <<>> THEN {}
  ELSE InvertHalfOpen(EnumerateDesiredWindows(rules, from, to), from, to)
ScheduleVoidIntervalsOnSessions(rules, dates) ==
  UNION {ScheduleVoidIntervals(rules, d * Day, (d + 1) * Day) : d \in dates}

(***************************************************************************)
(* Drawn in the column of a day: the whole day is laid evenly over the     *)
(* column, whatever the hours the column stands for.  A column is          *)
(* [date, left, width]; the idle time keeps its clipped ends, a window the *)
(* ends it has in full.                                                    *)
(***************************************************************************)
InColumn(column, span, named) ==
  LET start == column.date * Day
      part == Clip(span, start, start + Day)
  IN  IF part.from < part.to /\ column.width > 0
        THEN {[left |-> column.left + ((part.from - start) * column.width) \div Day,
               width |-> ((part.to - part.from) * column.width) \div Day,
               shown |-> part, from |-> named.from, to |-> named.to]}
      ELSE {}
ProjectScheduleMaskSegs(voids, column) ==
  UNION {InColumn(column, v, Clip(v, column.date * Day, (column.date + 1) * Day)) : v \in voids}
BuildScheduleMaskSegs(rules, columns) ==
  UNION {ProjectScheduleMaskSegs(
           ScheduleVoidIntervals(rules, c.date * Day, (c.date + 1) * Day), c) : c \in columns}
DesiredPaintSegsForDay(rules, column) ==
  UNION {InColumn(column, w, w) :
           w \in UNION {WindowOf(rules, d) : d \in {column.date - 1, column.date}}}
BuildScheduleDesiredSegs(rules, columns) ==
  UNION {DesiredPaintSegsForDay(rules, c) : c \in columns}
=============================================================================
