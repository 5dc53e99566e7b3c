--------------------------- MODULE RibbonGeometry ---------------------------
(***************************************************************************)
(* What the ribbon of a connection is drawn from: the rows of              *)
(* link_liveness, the gaps the server reads between them, the overlay of a *)
(* crash the browser suspects before the server can tell, the episodes of  *)
(* the journal, and the colour on top at each cell of time.  A span        *)
(* [from, to) covers the cells from..to-1; an open one ends now.  The      *)
(* lists the browser draws are sets of spans: their order is not drawn.    *)
(***************************************************************************)
EXTENDS Integers, Sequences

Never == 0 - 1                 \* "to" of what is still open
NoReason == "none"             \* of an open row
Grey == {"disconnected"}       \* the idle causes; the planned one is drawn alike
Covers(span, now, cell) == span.from <= cell /\ cell < (IF span.to = Never THEN now ELSE span.to)
Overlap(a, b, now) ==
  LET end(s) == IF s.to = Never THEN now ELSE s.to
  IN  a.from < end(b) /\ end(a) > b.from

(***************************************************************************)
(* The server's answer.  A row is [from, to, open, reason]; rows come in   *)
(* the order of their beginnings.                                          *)
(***************************************************************************)
\* From the end of a row to the beginning of the next.
RawGaps(rows) ==
  [i \in DOMAIN rows |->
     [from |-> rows[i].to, to |-> IF i < Len(rows) THEN rows[i + 1].from ELSE Never,
      cause |-> rows[i].reason, abandoned |-> FALSE]]

\* No gap follows a row that is open.  A zero row is where the owner of a gap changes:
\* the parts are one incident, unless the operator or the plan took over, which ends it
\* without recovery.
Coalesce(acc, g) ==
  LET last == acc[Len(acc)]
      touches == acc # <<>> /\ last.to = g.from
      idle == g.cause \in Grey
      joined == IF ~touches THEN acc
                ELSE IF idle THEN [acc EXCEPT ![Len(acc)].abandoned = @ \/ last.cause \notin Grey]
                ELSE [acc EXCEPT ![Len(acc)].to = g.to]
  IN  IF g.cause = NoReason THEN acc
      ELSE IF (touches /\ ~idle) \/ (idle /\ g.to = g.from) THEN joined ELSE Append(joined, g)
QueryGaps(rows) ==
  LET raw == RawGaps(rows)
      upTo[k \in 0..Len(rows)] == IF k = 0 THEN <<>> ELSE Coalesce(upTo[k - 1], raw[k])
  IN  upTo[Len(rows)]

Interval(row) == [from |-> row.from, to |-> IF row.open THEN Never ELSE row.to, reason |-> row.reason]
Answer(rows) ==
  [intervals |-> {Interval(rows[i]) : i \in DOMAIN rows},
   gaps |-> LET gaps == QueryGaps(rows) IN {gaps[i] : i \in DOMAIN gaps}]

(***************************************************************************)
(* The crash the browser suspects: [from, to].                             *)
(***************************************************************************)
\* Whatever began after the drop is hidden, whatever lasted past it is cut there.
CutAt(spans, start, Cut(_)) ==
  {IF s.to # Never /\ s.to <= start THEN s ELSE Cut(s) : s \in {b \in spans : b.from < start}}

OverlayCrashOutageOnLink(link, start) ==
  LET interval(s) == [s EXCEPT !.to = start, !.reason = IF @ = NoReason THEN "interrupted" ELSE @]
      gap(s) == [s EXCEPT !.to = start]
      crash == [from |-> start, to |-> Never, cause |-> "interrupted", abandoned |-> FALSE]
  IN  [intervals |-> CutAt(link.intervals, start, interval),
       gaps |-> CutAt(link.gaps, start, gap) \cup {crash}]

ClipCrashOutageGaps(link, end) ==
  LET open(g) == g.cause = "interrupted" /\ g.to = Never /\ g.from < end
  IN  [link EXCEPT !.gaps = {IF open(g) THEN [g EXCEPT !.to = end] ELSE g : g \in @}]

ApplyCrashOptimistic(link, crash) ==
  LET overlaid == OverlayCrashOutageOnLink(link, crash.from)
  IN  IF crash.to = Never THEN overlaid ELSE ClipCrashOutageGaps(overlaid, crash.to)

\* The server has drawn the same crash, give or take the slop.
LinkHasCrashGap(link, crash, slop) ==
  LET near(a, b) == a - b \in (0 - slop)..slop
  IN  \E g \in link.gaps :
        /\ g.cause = "interrupted"
        /\ near(g.from, crash.from)
        /\ IF crash.to = Never THEN g.to = Never ELSE g.to # Never /\ near(g.to, crash.to)

(***************************************************************************)
(* The colour on top, from the journal or, in the mode of work gaps, from  *)
(* the gaps.  An episode of the journal is [type, from, to].               *)
(***************************************************************************)
JournalHasOverlappingCrash(incidents, span, now) ==
  \E e \in incidents : e.type = "crash" /\ Overlap(e, span, now)

Bars(spans, Drawn(_), now, cell) == \E s \in spans : Drawn(s) /\ Covers(s, now, cell)
Bodies(incidents, type, now, cell) == \E e \in incidents : e.type = type /\ Covers(e, now, cell)

Painted(link, incidents, workGaps, now, cell) ==
  LET blue == Bars(link.intervals, LAMBDA s : TRUE, now, cell)
      grey == Bars(link.gaps, LAMBDA g : g.cause \in Grey, now, cell)
      suspected(g) == /\ g.cause = "interrupted" /\ g.to = Never
                      /\ ~JournalHasOverlappingCrash(incidents, g, now)
      yellow == IF workGaps THEN Bars(link.gaps, LAMBDA g : g.cause \notin Grey \cup {"interrupted"}, now, cell)
                ELSE Bodies(incidents, "break", now, cell)
      red == IF workGaps THEN Bars(link.gaps, LAMBDA g : g.cause = "interrupted", now, cell)
             ELSE Bodies(incidents, "crash", now, cell) \/ Bars(link.gaps, suspected, now, cell)
  IN  CASE red -> "red" [] ~red /\ yellow -> "yellow" [] ~red /\ ~yellow /\ grey -> "grey"
        [] ~red /\ ~yellow /\ ~grey /\ blue -> "blue" [] OTHER -> "blank"
=============================================================================
