--------------------------- MODULE ScheduleLayers ---------------------------
(***************************************************************************)
(* The layers of a connection's schedule as its editor keeps them: a main  *)
(* window for every day, exceptions for days of the week above it, and     *)
(* exceptions for dates on top.  Days of the week count from 0, Sunday; a  *)
(* date is the number of its day and minutes count from the midnight a     *)
(* window opens on.  What may be missing is a set of at most one member.   *)
(***************************************************************************)
EXTENDS Integers, FiniteSets, SequencesExt

Day == 1440
Weekdays == 1..5
Weekend == {0, 6}
IsGroup(days) == days \in {Weekdays, Weekend}
IsSingle(days) == Cardinality(days) = 1
DowOf(date) == date % 7

The(option) == CHOOSE x \in option : TRUE
Where(seq, Test(_)) == {i \in DOMAIN seq : Test(seq[i])}

(***************************************************************************)
(* A layer is what it covers and its window; the first names it.           *)
(***************************************************************************)
MainScope == [kind |-> "main", days |-> {}, from |-> 0, to |-> 0]
DowScope(days) == [kind |-> "dow", days |-> days, from |-> 0, to |-> 0]
DateScope(from, to) == [kind |-> "date", days |-> {}, from |-> from, to |-> to]

DefaultWindow == [mode |-> "window", start |-> 360, end |-> 1500]
Layer(scope, window) == [scope |-> scope, window |-> window]
EmptyDict == [main |-> {}, exc |-> <<>>, staticExc |-> <<>>]

CoversDow(scope, dow) == scope.kind = "dow" /\ dow \in scope.days
CoversDate(scope, date) == scope.kind = "date" /\ date \in scope.from..scope.to
DatesOverlap(a, b) == a.from <= b.to /\ b.from <= a.to

\* Groups below, single days above, any other set of days between them.
NormalizeRegularExc(exc) ==
  LET group(l) == IsGroup(l.scope.days)
      single(l) == IsSingle(l.scope.days)
      other(l) == ~group(l) /\ ~single(l)
  IN  SelectSeq(exc, group) \o SelectSeq(exc, other) \o SelectSeq(exc, single)

RuleToLayer(rule) ==
  Layer(rule.scope,
        IF rule.mode = "off" THEN [DefaultWindow EXCEPT !.mode = "off"]
        ELSE [mode |-> "window", start |-> rule.open, end |-> rule.open + rule.duration])

\* The rules of the server, in the order it lists them; the older lie below.
DictFromRules(rules) ==
  LET older(a, b) == rules[a].at < rules[b].at \/ (rules[a].at = rules[b].at /\ a < b)
      sorted == SortSeq([i \in DOMAIN rules |-> i], older)
      kind(k) == LET of(i) == rules[i].scope.kind = k
                     chosen == SelectSeq(sorted, of)
                 IN  [j \in DOMAIN chosen |-> RuleToLayer(rules[chosen[j]])]
      mains == Where(rules, LAMBDA r : r.scope.kind = "main")
  IN  [main |-> IF mains = {} THEN {}
                ELSE {RuleToLayer(rules[CHOOSE i \in mains : \A j \in mains : i <= j])},
       exc |-> NormalizeRegularExc(kind("dow")), staticExc |-> kind("date")]

LayersBottomToTop(dict) == SetToSeq(dict.main) \o dict.exc \o dict.staticExc
LayersOf(dict) == ToSet(LayersBottomToTop(dict))

(***************************************************************************)
(* Finding, adding and removing layers.                                    *)
(***************************************************************************)
FindLayer(dict, scope) == {l \in LayersOf(dict) : l.scope = scope}
FindGroupExc(dict) ==
  LET at == Where(dict.exc, LAMBDA l : IsGroup(l.scope.days))
  IN  {dict.exc[i] : i \in {j \in at : \A k \in at : j <= k}}

RemoveExcById(dict, scope) ==
  LET stays(l) == l.scope # scope
  IN  [dict EXCEPT !.exc = NormalizeRegularExc(SelectSeq(@, stays)),
                   !.staticExc = SelectSeq(@, stays)]

\* Mutant: a layer of days goes on top of all the others.
PromoteOnTop(dict, layer) ==
  LET stays(l) == /\ l.scope # layer.scope
                  /\ ~(IsGroup(layer.scope.days) /\ IsGroup(l.scope.days))
  IN  [dict EXCEPT !.exc = Append(SelectSeq(@, stays), layer)]

\* A layer of days goes on top of its kind; of the two groups one stays.
PromoteExc(dict, layer) ==
  LET stays(l) == /\ l.scope # layer.scope
                  /\ ~(IsGroup(layer.scope.days) /\ IsGroup(l.scope.days))
  IN  [dict EXCEPT !.exc = NormalizeRegularExc(Append(SelectSeq(@, stays), layer))]

\* A new layer of dates lies on top and swallows those within its dates.
CreateStaticExc(dict, layer) ==
  LET stays(l) == ~(l.scope.from >= layer.scope.from /\ l.scope.to <= layer.scope.to)
  IN  [dict EXCEPT !.staticExc = Append(SelectSeq(@, stays), layer)]

(***************************************************************************)
(* Which layer has its way on a day.                                       *)
(***************************************************************************)
TopOf(seq, Test(_), below) ==
  LET hits == Where(seq, Test)
  IN  IF hits = {} THEN below ELSE {seq[CHOOSE i \in hits : \A j \in hits : j <= i]}

ResolveLayerForDow(dict, dow) ==
  TopOf(dict.exc, LAMBDA l : CoversDow(l.scope, dow), dict.main)
ResolveLayerForDate(dict, date) ==
  TopOf(dict.staticExc, LAMBDA l : CoversDate(l.scope, date),
        ResolveLayerForDow(dict, DowOf(date)))

(***************************************************************************)
(* The boards under the chart: what lies on a day, from the bottom up.     *)
(***************************************************************************)
RegularBoardSlots(dict, dow) ==
  LET covering == {l \in FindGroupExc(dict) : dow \in l.scope.days}
      singles == FindLayer(dict, DowScope({dow}))
  IN  SetToSeq(dict.main) \o SetToSeq(covering) \o SetToSeq(singles)

\* A board lies on the highest of the boards before it that it meets.
AssignStaticBoardLevels(layers) ==
  LET level[i \in 1..Len(layers)] ==
        Max({-1} \cup {level[j] : j \in {k \in 1..(i - 1) :
                         DatesOverlap(layers[i].scope, layers[k].scope)}}) + 1
  IN  [i \in DOMAIN layers |-> level[i]]

StaticBoardSlots(dict, date) ==
  LET levels == AssignStaticBoardLevels(dict.staticExc)
      covers(i) == CoversDate(dict.staticExc[i].scope, date)
      lower(i, j) == levels[i] < levels[j] \/ (levels[i] = levels[j] /\ i < j)
      order == SortSeq(SelectSeq([i \in DOMAIN dict.staticExc |-> i], covers), lower)
  IN  [n \in DOMAIN order |-> dict.staticExc[order[n]]]

\* The layers of dates that hang together with a range, overlap by overlap.
StaticExcConnectedComponent(layers, range) ==
  LET scopes == {layers[i].scope : i \in DOMAIN layers}
      reached[n \in 0..Len(layers)] ==
        IF n = 0 THEN {s \in scopes : DatesOverlap(s, range)}
        ELSE {s \in scopes : \E r \in reached[n - 1] : DatesOverlap(s, r)}
  IN  reached[Len(layers)]
UnionStaticComponentRange(layers, range) ==
  LET found == StaticExcConnectedComponent(layers, range)
      hull == IF found = {} THEN {range} ELSE found
  IN  DateScope(Min({s.from : s \in hull}), Max({s.to : s \in hull}))

(***************************************************************************)
(* Changes of the editor.                                                  *)
(***************************************************************************)
\* A change of a layer leaves it in its place; one that is not there yet is
\* added with the window of the main layer, changed in the same way.
SeedWindow(dict) ==
  IF dict.main = {} THEN DefaultWindow ELSE (The(dict.main)).window
Opened(window) == [window EXCEPT !.mode = "window"]
PatchOneDowLayer(exc, seed, scope, Patch(_)) ==
  LET at == Where(exc, LAMBDA l : l.scope = scope)
      patched(l) == Layer(scope, Patch(l.window))
  IN  NormalizeRegularExc(
        IF at = {} THEN Append(exc, Layer(scope, Patch(Opened(seed))))
        ELSE [i \in DOMAIN exc |-> IF i \in at THEN patched(exc[i]) ELSE exc[i]])

WeekOrder == <<1, 2, 3, 4, 5, 6, 0>>
DaysInOrder(days) == SelectSeq(WeekOrder, LAMBDA d : d \in days)
\* Several days that are no group are layers of their own.
ScopesOf(scope) ==
  IF scope.kind = "dow" /\ ~IsGroup(scope.days)
    THEN LET order == DaysInOrder(scope.days) IN [i \in DOMAIN order |-> DowScope({order[i]})]
  ELSE <<scope>>
DaysInRange(a, b) ==
  LET at(day) == CHOOSE i \in DOMAIN WeekOrder : WeekOrder[i] = day
  IN  {WeekOrder[i] : i \in Min({at(a), at(b)})..Max({at(a), at(b)})}

PatchActiveLayer(dict, scope, Patch(_)) ==
  LET at == Where(dict.staticExc, LAMBDA l : l.scope = scope)
      patched(l) == Layer(scope, Patch(l.window))
  IN  CASE scope.kind = "main" -> [dict EXCEPT !.main = {patched(l) : l \in @}]
        [] scope.kind = "date" ->
             [dict EXCEPT !.staticExc =
                IF at = {} THEN Append(@, Layer(scope, Patch(Opened(SeedWindow(dict)))))
                ELSE [i \in DOMAIN @ |-> IF i \in at THEN patched(@[i]) ELSE @[i]]]
        [] OTHER ->
             [dict EXCEPT !.exc = FoldLeft(LAMBDA exc, s : PatchOneDowLayer(exc, SeedWindow(dict), s, Patch),
                                           @, ScopesOf(scope))]

LayerDiffers(a, b) ==
  \/ a.window.mode # b.window.mode
  \/ a.window.mode # "off" /\ a.window # b.window

\* What a save would send: the layers that are new or differ, and the scopes
\* that are gone.
DiffChanges(base, dict) ==
  LET changed(l) == \A b \in FindLayer(base, l.scope) : LayerDiffers(l, b)
      gone == {b.scope : b \in LayersOf(base)} \ {l.scope : l \in LayersOf(dict)}
  IN  [upserts |-> SelectSeq(LayersBottomToTop(dict), changed), cancels |-> gone]
PendingExists(base, dict) == DiffChanges(base, dict) # [upserts |-> <<>>, cancels |-> {}]

\* The body of a rule: an opening within the day, and at most a minute less
\* than a day of duration.
LayerToPutBody(layer) ==
  [scope |-> layer.scope, mode |-> layer.window.mode,
   open |-> layer.window.start % Day,
   duration |-> Min({Max({layer.window.end - layer.window.start, 1}), Day - 1})]

(***************************************************************************)
(* The ribbon: its ends move in steps, within today and tomorrow, and are  *)
(* at most a day apart.                                                    *)
(***************************************************************************)
Snap == 5
MaxOpen == Day - Snap
Horizon == 2 * Day
Clamp(n, lo, hi) == Min({hi, Max({lo, n})})
SnapMin(n) == ((n + Snap \div 2) \div Snap) * Snap

DragStart(w, to) ==
  [w EXCEPT !.start = Clamp(SnapMin(to), Max({0, w.end - Day}), Min({w.end - Snap, MaxOpen}))]
DragEnd(w, to) ==
  [w EXCEPT !.end = Clamp(SnapMin(to), w.start + Snap, Min({Horizon, w.start + Day}))]
DragRange(w, to) ==
  LET span == w.end - w.start
      start == Clamp(SnapMin(to), 0, Min({MaxOpen, Horizon - span}))
  IN  [w EXCEPT !.start = start, !.end = start + span]

\* The hours of a market, widened on both sides; none if they do not fit.
TemplateToAxisMins(hours, pad) ==
  LET start == SnapMin(hours.open - pad * 60)
      end == SnapMin(hours.close + pad * 60)
  IN  IF end - start \in 60..Day /\ start \in 0..(Day - 1) /\ end <= Horizon
        THEN {[start |-> start, end |-> end]} ELSE {}
=============================================================================
