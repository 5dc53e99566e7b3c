--------------------------- MODULE ScheduleEditor ---------------------------
(***************************************************************************)
(* The editor of a connection's schedule: a draft of layers over the rules *)
(* it was opened on, the confirmation of what will change, the batch sent  *)
(* to the server, and the rules that arrive meanwhile because another      *)
(* operator saved his.  The server closes the live rules a new one covers  *)
(* and gives every rule of a batch the same moment.                        *)
(***************************************************************************)
EXTENDS ConnectionSchedule

CONSTANTS StartRules,  \* Sets of live rules the page may start with
          OtherRules,  \* Rules another operator may set
          Presets,     \* Of a market and a kind of day: its hours, or none
          ClickDays,   \* Days of the week that are clicked
          Dates,       \* Dates that are clicked
          DragTo,      \* Minutes an end of the ribbon is dragged to
          MaxSpanDays, \* Longest range of dates
          ChartPad,    \* Days shown on both sides of a single date
          Probes,      \* Minutes of a day that are looked at
          Shifts,      \* Hours a market may be widened by
          Budgets,     \* Bounds: clicks, picks of dates, and saves
          MaxAsks      \* Bound: reads under way

VARIABLES server, clock,  \* Live rules; the moment of the next batch
          rules, asks,    \* The page's rules; reads of the schedule under way
          batch,          \* The batch under way: a set of at most one
          base,           \* The rules the draft was started from, and as layers
          panel, draft,   \* The open editor; what it holds
          budget          \* What is left of the bound

editorVars == <<server, clock, rules, asks, batch, base, panel, draft, budget>>
netVars == <<server, clock, rules, asks, batch>>

BaseOf(list) == [rules |-> ToSet(list), dict |-> DictFromRules(list)]
Pending == PendingExists(base.dict, draft.layers)

(***************************************************************************)
(* The draft.                                                              *)
(***************************************************************************)
NoCal == [open |-> FALSE, start |-> {}, end |-> {}, painting |-> FALSE]
MemoryOf(dict) ==
  [s \in {l.scope : l \in LayersOf(dict)} |-> (The(FindLayer(dict, s))).window]
Remember(d, scope, window) == [d EXCEPT !.memory = (scope :> window) @@ @]
RememberAll(d, layers) ==
  [d EXCEPT !.memory = FoldSet(LAMBDA l, memory : (l.scope :> l.window) @@ memory, @, layers)]

ActiveScope(d) ==
  CASE d.main -> MainScope
    [] d.date # {} -> The(d.date)
    [] OTHER -> DowScope(d.days)
HasActiveLayer(d) ==
  IF d.main THEN d.layers.main # {} ELSE d.date # {} \/ d.days # {}
OnDays(d, days) == ~d.main /\ d.date = {} /\ d.days = days

DayTypeOf(days) == IF days # {} /\ days \subseteq Weekend THEN "weekend" ELSE "weekday"
DayType(d) ==
  CASE d.date # {} -> DayTypeOf({DowOf((The(d.date)).from)})
    [] d.main -> "weekday"
    [] OTHER -> DayTypeOf(d.days)
\* The window a market's hours make of a kind of day, widened by a shift.
TemplateWindow(template, dayType, shift) ==
  UNION {TemplateToAxisMins(h, n) : h \in UNION {Presets[t][dayType] : t \in template}, n \in shift}

\* What the editor starts with: the main layer, the group, or the first days.
FirstLayer(dict) ==
  CASE dict.main # {} -> dict.main
    [] FindGroupExc(dict) # {} -> FindGroupExc(dict)
    [] dict.exc # <<>> -> {Head(dict.exc)}
    [] OTHER -> {}
FreshDraft(dict) ==
  LET first == FirstLayer(dict)
  IN  [layers |-> dict, memory |-> MemoryOf(dict), undo |-> <<>>,
       main |-> dict.main # {},
       days |-> IF dict.main # {} THEN Weekdays
                ELSE UNION {l.scope.days : l \in first},
       date |-> {},
       window |-> IF first = {} THEN DefaultWindow ELSE (The(first)).window,
       template |-> {"futures"}, shift |-> {1},
       aggregate |-> dict # EmptyDict, cal |-> NoCal, anchor |-> {}]

(***************************************************************************)
(* Choosing what to edit.                                                  *)
(***************************************************************************)
Load(d, layer) == [d EXCEPT !.window = layer.window]
SelectMain(d) == [d EXCEPT !.aggregate = FALSE, !.date = {}, !.main = TRUE]
SelectDays(d, days) ==
  [d EXCEPT !.aggregate = FALSE, !.date = {}, !.main = FALSE, !.days = days]
SelectDates(d, range) ==
  [d EXCEPT !.aggregate = FALSE, !.main = FALSE, !.date = {range}]
SelectLayer(d, layer) ==
  Load(CASE layer.scope.kind = "main" -> SelectMain(d)
         [] layer.scope.kind = "date" -> SelectDates(d, layer.scope)
         [] OTHER -> SelectDays(d, layer.scope.days), layer)

ActivateMainScope(d) ==
  LET window == IF MainScope \in DOMAIN d.memory THEN d.memory[MainScope]
                ELSE SeedWindow(d.layers)
      main == IF d.layers.main # {} THEN The(d.layers.main) ELSE Layer(MainScope, window)
  IN  Load(SelectMain([d EXCEPT !.layers.main = {main}]), main)

ToggleMain(d) ==
  IF d.layers.main # {} /\ d.main /\ d.date = {} /\ ~d.aggregate
    THEN [SelectDays(Remember(d, MainScope, d.window), {}) EXCEPT !.layers.main = {}]
  ELSE ActivateMainScope(d)

\* The window a layer gets on its first click: its own, the one it had, the
\* hours of the market, or that of the main layer.
WindowFor(d, scope, existing, days) ==
  LET hours == TemplateWindow(d.template, DayTypeOf(days), d.shift)
      seed == SeedWindow(d.layers)
  IN  CASE existing # {} -> (The(existing)).window
        [] scope \in DOMAIN d.memory -> d.memory[scope]
        [] hours # {} -> [mode |-> seed.mode, start |-> (The(hours)).start, end |-> (The(hours)).end]
        [] OTHER -> seed

\* A chip of days: the chosen one is taken off, any other is put on top.
ToggleDays(d, days) ==
  LET scope == DowScope(days)
      existing == FindLayer(d.layers, scope)
      layer == Layer(scope, WindowFor(d, scope, existing, days))
  IN  IF existing # {} /\ OnDays(d, days)
        THEN SelectDays([Remember(d, scope, d.window) EXCEPT !.layers = RemoveExcById(@, scope)], {})
      ELSE Load(SelectDays([Remember(d, scope, layer.window) EXCEPT
                              !.layers = PromoteExc(@, layer)], days), layer)

\* A day joins the chosen ones and takes the window of the editor; of the
\* draft its layers of days and its memory change.
Join(d, day) ==
  LET scope == DowScope({day})
      solidary(w) == d.window
  IN  IF FindLayer(d.layers, scope) = {}
        THEN [Remember(d, scope, d.window) EXCEPT !.layers = PromoteExc(@, Layer(scope, d.window))]
      ELSE [d EXCEPT !.layers = PatchActiveLayer(@, scope, solidary)]
AddDay(d, day) ==
  LET chosen == IF OnDays(d, d.days) /\ ~IsGroup(d.days) THEN d.days ELSE {}
  IN  CASE chosen = {day} -> [d EXCEPT !.aggregate = FALSE, !.date = {}]
        [] day \in chosen -> SelectDays(d, chosen \ {day})
        [] OTHER -> SelectDays(Join(d, day), chosen \cup {day})
SelectDayRange(d, from, to) ==
  LET days == DaysInRange(from, to)
      joined == FoldLeft(Join, d, DaysInOrder(days))
  IN  SelectDays([d EXCEPT !.layers.exc = joined.layers.exc, !.memory = joined.memory], days)

DayClick(d, day, key) ==
  LET anchor == IF d.anchor = {} THEN day ELSE The(d.anchor)
  IN  CASE key = "shift" -> [SelectDayRange(d, anchor, day) EXCEPT !.anchor = {anchor}]
        [] key = "ctrl" -> [AddDay(d, day) EXCEPT !.anchor = {day}]
        [] OTHER -> [ToggleDays(d, {day}) EXCEPT !.anchor = {day}]

\* A day of the chart picks the layer that has its way there.
ChartDates(d) ==
  LET span == UnionStaticComponentRange(d.layers.staticExc, The(d.date))
      pad == IF span.from = span.to THEN ChartPad ELSE 0
  IN  (span.from - pad)..(span.to + pad)
ChartLayers(d) ==
  IF d.date # {} THEN UNION {ResolveLayerForDate(d.layers, t) : t \in ChartDates(d)}
  ELSE UNION {ResolveLayerForDow(d.layers, w) : w \in 0..6}

(***************************************************************************)
(* The calendar of exceptions.                                             *)
(***************************************************************************)
CalRange(cal) ==
  DateScope(The(cal.start), IF cal.end = {} THEN The(cal.start) ELSE The(cal.end))
CalExisting(d) ==
  IF d.cal.start = {} \/ d.cal.painting THEN {} ELSE FindLayer(d.layers, CalRange(d.cal))
ClearSelection(d) == [d EXCEPT !.cal = [NoCal EXCEPT !.open = d.cal.open]]
CloseCalendar(d) == [d EXCEPT !.cal = NoCal]

\* A date picks the top layer on it, or starts, or ends a new range.
CalPick(d, date, ctrl) ==
  LET cal == d.cal
      top == TopOf(d.layers.staticExc, LAMBDA l : CoversDate(l.scope, date), {})
      middle == cal.start # {} /\ cal.end = {}
      lo == Min(cal.start \cup {date})
      hi == Max(cal.start \cup {date})
  IN  [d EXCEPT !.cal =
        IF ~ctrl /\ ~cal.painting /\ ~middle /\ top # {}
          THEN [cal EXCEPT !.start = {(The(top)).scope.from}, !.end = {(The(top)).scope.to},
                           !.painting = FALSE]
        ELSE IF ~middle THEN [cal EXCEPT !.start = {date}, !.end = {}, !.painting = TRUE]
        ELSE [cal EXCEPT !.start = {lo}, !.end = {Min({hi, lo + MaxSpanDays - 1})},
                         !.painting = FALSE]]

\* To the layer of the range, which is made when it was painted or is new.
ChooseDateScope(d) ==
  LET range == CalRange(d.cal)
      existing == FindLayer(d.layers, range)
      create == CalExisting(d) = {}
      window == IF create /\ range \notin DOMAIN d.memory
                     /\ TemplateWindow(d.template, DayTypeOf({DowOf(range.from)}), d.shift) = {}
                     /\ existing # {}
                  THEN (The(existing)).window
                ELSE WindowFor(d, range, IF create THEN {} ELSE existing, {DowOf(range.from)})
      layer == Layer(range, window)
      made == IF create THEN [Remember(d, range, window) EXCEPT !.layers = CreateStaticExc(@, layer)]
              ELSE d
  IN  CloseCalendar(Load(SelectDates(made, range), layer))

\* Without its layer the editor falls back to the main one.
Orphaned(d) ==
  IF d.layers.main # {} THEN Load([d EXCEPT !.date = {}, !.main = TRUE], The(d.layers.main))
  ELSE [d EXCEPT !.date = {}, !.main = FALSE, !.days = {}]
CancelSelected(d) ==
  LET layer == The(CalExisting(d))
      gone == [Remember(d, layer.scope, layer.window) EXCEPT
                 !.undo = Append(@, layer), !.layers = RemoveExcById(@, layer.scope)]
  IN  ClearSelection(IF d.date = {layer.scope} THEN Orphaned(gone) ELSE gone)
RestoreLast(d) ==
  LET layer == Last(d.undo)
  IN  [d EXCEPT !.undo = Front(@),
                !.layers.staticExc = IF FindLayer(d.layers, layer.scope) # {} THEN @
                                     ELSE Append(@, layer)]
ClearStatic(d) ==
  LET gone == [RememberAll(d, ToSet(d.layers.staticExc)) EXCEPT
                 !.layers.staticExc = <<>>, !.undo = <<>>]
  IN  IF d.date # {} THEN Orphaned(gone) ELSE gone
DoClearAll(d) ==
  [SelectDays(RememberAll(d, LayersOf(d.layers)), {}) EXCEPT
     !.layers = EmptyDict, !.window = DefaultWindow]

(***************************************************************************)
(* The window of what is chosen.                                           *)
(***************************************************************************)
RememberActive(d, window) ==
  [d EXCEPT !.memory =
     FoldLeft(LAMBDA memory, s : (s :> window) @@ memory, @, ScopesOf(ActiveScope(d)))]
SetWindow(d, s, e) ==
  LET start == Max({0, Min({s, MaxOpen})})
      end == Min({Max({start + Snap, e}), start + Day, Horizon})
      moved == [mode |-> "window", start |-> start, end |-> end]
      patch(w) == moved
  IN  IF ~HasActiveLayer(d) THEN d
      ELSE [RememberActive(d, moved) EXCEPT
              !.window.start = start, !.window.end = end,
              !.layers = PatchActiveLayer(@, ActiveScope(d), patch)]
SetScopeMode(d, mode) ==
  LET patch(w) == [w EXCEPT !.mode = mode]
  IN  [RememberActive(d, patch(d.window)) EXCEPT
         !.window.mode = mode, !.layers = PatchActiveLayer(@, ActiveScope(d), patch)]

\* Without a shift a market only pulls the ends that lie within its hours.
Pulled(w, axis) ==
  LET s == IF w.start > axis.start /\ w.start < axis.end /\ w.end - axis.start <= Day
             THEN axis.start ELSE w.start
      e == IF w.end > axis.start /\ w.end < axis.end /\ axis.end - s <= Day
             THEN axis.end ELSE w.end
  IN  IF e <= s THEN axis ELSE [start |-> s, end |-> e]
TemplateAxis(d, t, shift) ==
  IF TemplateWindow({t}, DayType(d), {0}) = {} THEN {}
  ELSE IF shift = {} THEN {Pulled(d.window, a) : a \in TemplateWindow({t}, DayType(d), {0})}
  ELSE TemplateWindow({t}, DayType(d), shift)
ApplyTemplate(d, t, shift) ==
  LET to == The(TemplateAxis(d, t, shift))
  IN  SetWindow([d EXCEPT !.template = {t}, !.shift = shift], to.start, to.end)
OnWindowChange(d, w) ==
  LET axis == TemplateWindow(d.template, DayType(d), {0})
      leaves == \E a \in axis : w.start > a.start \/ w.end < a.end
  IN  [SetWindow(d, w.start, w.end) EXCEPT !.shift = {},
                                           !.template = IF leaves THEN {} ELSE @]
DurationOverflow(d) ==
  HasActiveLayer(d) /\ d.window.mode # "off" /\ d.window.end - d.window.start > Day

(***************************************************************************)
(* Reading.  The server lists the rules by kind, the newest first; a       *)
(* batch's own rules in any order.                                         *)
(***************************************************************************)
Listings(live) ==
  LET kind(r) == CASE r.scope.kind = "date" -> 0 [] r.scope.kind = "dow" -> 1 [] OTHER -> 2
      before(a, b) == kind(a) < kind(b) \/ (kind(a) = kind(b) /\ a.at > b.at)
  IN  {s \in SetToSeqs(live) : \A i, j \in DOMAIN s : i < j => ~before(s[j], s[i])}
\* A read that the server serves late is one that was asked late.
RefreshSchedule ==
  /\ Len(asks) < MaxAsks
  /\ \E list \in Listings(server') : asks' = Append(asks, list)

(***************************************************************************)
(* The panel.  A change of the main layer is asked about once, before      *)
(* anything else can be clicked.                                           *)
(***************************************************************************)
MainDiffers(dict) ==
  \E b \in base.dict.main, m \in dict.main : LayerDiffers(m, b)
\* Mutant: the warning does not depend on the layers of the draft.
WarnedOnEntry(p, d) ==
  IF (d.main # draft.main \/ p.editing # panel.editing \/ p.view # panel.view)
       /\ p.editing /\ p.view = "edit" /\ ~p.asked /\ MainDiffers(d.layers)
    THEN [p EXCEPT !.msg = "main"] ELSE p

Warned(p, d) ==
  LET noticed == \/ d.layers.main # draft.layers.main
                 \/ d.main # draft.main
                 \/ p.editing # panel.editing
                 \/ p.view # panel.view
  IN  IF noticed /\ p.editing /\ p.view = "edit" /\ ~p.asked /\ MainDiffers(d.layers)
        THEN [p EXCEPT !.msg = "main"] ELSE p

\* What a closed editor opens with; a save under way and a question stay.
FreshPanel(p, list) ==
  [p EXCEPT !.editing = list = <<>>, !.view = "edit", !.asked = FALSE,
            !.changed = FALSE]
Reinit(p, list) ==
  /\ panel' = FreshPanel(p, list)
  /\ base' = BaseOf(list)
  /\ draft' = [FreshDraft(base'.dict) EXCEPT !.anchor = draft.anchor]

Show(p) == panel' = Warned(p, draft) /\ UNCHANGED <<draft, base>>
Free == panel.open /\ panel.msg = "none"
Reachable == Free /\ ~draft.cal.open
Editing == Free /\ panel.editing /\ panel.view = "edit"
Ready == Editing /\ ~draft.cal.open
Edits(d) == /\ draft' = d
            /\ panel' = Warned(panel, d)
            /\ UNCHANGED <<netVars, base>>
Counted == budget.clicks > 0 /\ budget' = [budget EXCEPT !.clicks = @ - 1]
Saves == budget.saves > 0 /\ budget' = [budget EXCEPT !.saves = @ - 1]
\* The open calendar covers the panel: a click beside it only closes it.
Click(d) == Ready /\ Counted /\ Edits(d)

\* A draft that is kept is there on the next opening; any other is made anew
\* then, and is forgotten here.
Close(p, keep) ==
  /\ panel' = [p EXCEPT !.open = FALSE, !.preserve = keep]
  /\ IF keep THEN UNCHANGED <<draft, base>>
     ELSE /\ draft' = [FreshDraft(EmptyDict) EXCEPT !.anchor = draft.anchor]
          /\ base' = BaseOf(<<>>)

OpenPanel ==
  /\ ~panel.open
  /\ IF panel.preserve
       THEN /\ panel' = [panel EXCEPT !.open = TRUE, !.preserve = FALSE]
            /\ draft' = CloseCalendar(draft)
            /\ UNCHANGED base
     ELSE Reinit([panel EXCEPT !.open = TRUE], rules)
  /\ UNCHANGED <<netVars, budget>>
SoftClose == Free /\ Close(panel, TRUE) /\ UNCHANGED <<netVars, budget>>
HardClose == Reachable /\ Close(panel, FALSE) /\ UNCHANGED <<netVars, budget>>
Pencil ==
  /\ Reachable
  /\ LET p == IF panel.view = "confirm" THEN [panel EXCEPT !.view = "edit"]
              ELSE [panel EXCEPT !.editing = ~@]
         d == [draft EXCEPT !.aggregate = @ \/ ~p.editing]
     IN  draft' = d /\ panel' = Warned(p, d)
  /\ UNCHANGED <<netVars, base, budget>>

ClickOverview == Ready /\ Edits([draft EXCEPT !.aggregate = TRUE, !.date = {}]) /\ UNCHANGED budget
ClickMain == Click(ToggleMain(draft))
ClickGroup == \E days \in {Weekdays, Weekend} : Click(ToggleDays(draft, days))
ClickDay == \E day \in ClickDays, key \in {"none", "ctrl", "shift"} : Click(DayClick(draft, day, key))
ClickChart == \E layer \in ChartLayers(draft) : Click(SelectLayer(draft, layer))
Modifiable == ~draft.aggregate /\ HasActiveLayer(draft)
ClickMode == Modifiable /\ \E mode \in {"window", "off"} : Click(SetScopeMode(draft, mode))
ClickTemplate ==
  /\ Modifiable /\ draft.window.mode # "off"
  /\ \E t \in {t \in DOMAIN Presets : TemplateAxis(draft, t, draft.shift) # {}} :
       Click(ApplyTemplate(draft, t, draft.shift))
ClickShift ==
  /\ Modifiable /\ draft.window.mode # "off"
  /\ \E t \in draft.template : \E n \in {n \in Shifts : TemplateAxis(draft, t, {n}) # {}} :
       Click(ApplyTemplate(draft, t, {n}))
\* A drag that is under way goes on beneath the question it raised.
Drag ==
  /\ panel.open /\ panel.msg \in {"none", "main"} /\ panel.editing /\ panel.view = "edit"
  /\ ~draft.cal.open
  /\ Modifiable /\ draft.window.mode # "off" /\ Counted
  /\ \E to \in DragTo : \E part \in {DragStart(draft.window, to), DragEnd(draft.window, to),
                                   DragRange(draft.window, to)} :
       Edits(OnWindowChange(draft, part))

ClickCalendar ==
  /\ Editing
  /\ Edits(IF draft.cal.open THEN CloseCalendar(draft) ELSE [draft EXCEPT !.cal.open = TRUE])
  /\ UNCHANGED budget
Picks(d) == /\ Editing /\ draft.cal.open /\ Edits(d)
            /\ budget.picks > 0 /\ budget' = [budget EXCEPT !.picks = @ - 1]
InCalendar(d) == Editing /\ draft.cal.open /\ Counted /\ Edits(d)
ClickDate == \E date \in Dates, ctrl \in BOOLEAN : Picks(CalPick(draft, date, ctrl))
ClickNowhere == draft.cal.start # {} /\ Picks(ClearSelection(draft))
ClickGo == draft.cal.start # {} /\ InCalendar(ChooseDateScope(draft))
ClickCancelSelected == CalExisting(draft) # {} /\ InCalendar(CancelSelected(draft))
ClickRestore == draft.undo # <<>> /\ InCalendar(RestoreLast(draft))
ClickReset ==
  /\ Editing /\ draft.cal.open /\ Counted
  /\ IF draft.layers.staticExc = <<>> THEN Edits(ClearStatic(ClearSelection(draft)))
     ELSE /\ draft' = ClearSelection(draft)
          /\ panel' = [panel EXCEPT !.msg = "clearStatic"]
          /\ UNCHANGED <<netVars, base>>

(***************************************************************************)
(* Questions and their answers.                                            *)
(***************************************************************************)
Ask(msg) == /\ Ready
            /\ panel' = [panel EXCEPT !.msg = msg]
            /\ UNCHANGED <<netVars, base, draft, budget>>
ClickClear == draft.layers # EmptyDict /\ Ask("clear")
ClickApprove ==
  /\ ~DurationOverflow(draft)
  /\ IF Pending
       THEN /\ Ready
            /\ panel' = [panel EXCEPT !.view = "confirm"]
            /\ UNCHANGED <<netVars, base, draft, budget>>
     ELSE Ask("info")

\* The draft becomes what the page knows; without a main layer the window of
\* the editor stays as it is.
ResetDraftToBase ==
  LET dict == DictFromRules(rules)
      fresh == FreshDraft(dict)
  IN  /\ base' = BaseOf(rules)
      /\ draft' = [draft EXCEPT
                     !.layers = dict, !.memory = fresh.memory, !.date = {}, !.aggregate = FALSE,
                     !.main = fresh.main,
                     !.days = IF fresh.main THEN Weekdays ELSE {},
                     !.window = IF fresh.main THEN fresh.window ELSE @]
ClickRefresh ==
  IF Pending THEN Ask("refresh")
  ELSE /\ Ready
       /\ ResetDraftToBase /\ panel' = [panel EXCEPT !.changed = FALSE]
       /\ UNCHANGED <<server, clock, rules, batch, budget>> /\ RefreshSchedule
ClickBanner ==
  /\ Reachable /\ panel.view = "edit" /\ panel.changed
  /\ panel' = [panel EXCEPT !.changed = FALSE]
  /\ \/ ResetDraftToBase
     \/ UNCHANGED <<base, draft>>
  /\ UNCHANGED <<netVars, budget>>

Answered == panel' = [panel EXCEPT !.msg = "none"]
ConfirmMain ==
  /\ panel.open /\ panel.msg = "main"
  /\ panel' = [panel EXCEPT !.msg = "none", !.asked = TRUE]
  /\ UNCHANGED <<netVars, base, draft, budget>>

\* Mutant: the layer goes back, the editor keeps the refused window.
LayerGoesBack(d) == [RememberAll(d, base.dict.main) EXCEPT !.layers.main = base.dict.main]

\* The main layer goes back to what it was, and with it the editor on it.
MainGoesBack(d) ==
  LET back == [RememberAll(d, base.dict.main) EXCEPT !.layers.main = base.dict.main]
  IN  IF d.main THEN Load(back, The(base.dict.main)) ELSE back
CancelMain ==
  /\ panel.open /\ panel.msg = "main"
  /\ Answered /\ draft' = MainGoesBack(draft)
  /\ UNCHANGED <<netVars, base, budget>>
ConfirmClear ==
  /\ panel.open /\ panel.msg \in {"clear", "clearStatic"}
  /\ Answered
  /\ draft' = CloseCalendar(IF panel.msg = "clear" THEN DoClearAll(draft) ELSE ClearStatic(draft))
  /\ UNCHANGED <<netVars, base, budget>>
ConfirmRefresh ==
  /\ panel.open /\ panel.msg = "refresh"
  /\ ResetDraftToBase /\ panel' = [panel EXCEPT !.msg = "none", !.changed = FALSE]
  /\ UNCHANGED <<server, clock, rules, batch, budget>> /\ RefreshSchedule
CloseMessage ==
  /\ panel.open /\ panel.msg \in {"info", "clear", "clearStatic", "refresh"}
  /\ Answered /\ draft' = CloseCalendar(draft)
  /\ UNCHANGED <<netVars, base, budget>>

Question ==
  \/ ClickClear \/ ClickApprove \/ ClickRefresh \/ ClickBanner \/ ConfirmMain \/ CancelMain
  \/ ConfirmClear \/ ConfirmRefresh \/ CloseMessage

(***************************************************************************)
(* Saving.  The batch names the rules that go by what the draft was        *)
(* started from.                                                           *)
(***************************************************************************)
ClickBack == Free /\ panel.view = "confirm" /\ ~panel.committing
             /\ Show([panel EXCEPT !.view = "edit"]) /\ UNCHANGED <<netVars, budget>>
Commit ==
  /\ Free /\ panel.view = "confirm" /\ ~panel.committing /\ Saves
  /\ panel' = [panel EXCEPT !.committing = TRUE]
  /\ LET changes == DiffChanges(base.dict, draft.layers)
     IN  batch' = {[upserts |-> [i \in DOMAIN changes.upserts |-> LayerToPutBody(changes.upserts[i])],
                    cancels |-> {r \in base.rules : r.scope \in changes.cancels},
                    step |-> "sent"]}
  /\ UNCHANGED <<server, clock, rules, asks, base, draft>>

\* What the server takes: a scope that is whole, and a window that opens within the day
\* and is shorter than one.
Valid(rule) ==
  /\ rule.scope.kind \in {"main", "dow", "date"} /\ rule.mode \in {"window", "off"}
  /\ rule.scope.kind = "main" => rule.scope = MainScope
  /\ rule.scope.kind = "dow" => rule.scope.days \in (SUBSET (0..6)) \ {{}}
  /\ rule.scope.kind = "date" => rule.scope.from <= rule.scope.to
  /\ rule.mode = "window" => rule.open \in 0..(Day - 1) /\ rule.duration \in 1..(Day - 1)

\* What a new rule covers is closed with it, whatever its window.
Within(old, new) ==
  /\ old.kind = new.kind
  /\ old.days \subseteq new.days
  /\ old.from >= new.from /\ old.to <= new.to
NewRule(body, now) ==
  [scope |-> body.scope, mode |-> body.mode, open |-> body.open, duration |-> body.duration, at |-> now]
ApplyUpsert(live, rule) == {r \in live : ~Within(r.scope, rule.scope)} \cup {rule}
\* One after the other: a later rule also closes the earlier ones of its batch.
ApplyBatch(live, upserts, cancels, now) ==
  LET new == [i \in DOMAIN upserts |-> NewRule(upserts[i], now)]
      stays(r, i) == \A j \in DOMAIN new : j > i => ~Within(r.scope, new[j].scope)
  IN  ({r \in live : stays(r, 0)} \cup {new[i] : i \in {k \in DOMAIN new : stays(new[k], k)}}) \ cancels

ServerApplies ==
  \E b \in batch :
    /\ b.step = "sent"
    /\ \A i \in DOMAIN b.upserts : Valid(b.upserts[i])
    /\ server' = ApplyBatch(server, b.upserts, b.cancels, clock)
    /\ clock' = clock + 1
    /\ batch' = {[b EXCEPT !.step = "applied"]}
    /\ UNCHANGED <<rules, asks, base, panel, draft, budget>>
BatchSaved ==
  /\ \E b \in batch : b.step = "applied"
  /\ batch' = {}
  /\ Close([panel EXCEPT !.committing = FALSE], FALSE)
  /\ UNCHANGED <<server, clock, rules, budget>>
  /\ RefreshSchedule
\* Refused, or the connection broke before or after the server applied it.
BatchFails ==
  /\ batch # {} /\ batch' = {}
  /\ panel' = [panel EXCEPT !.committing = FALSE]
  /\ UNCHANGED <<server, clock, rules, base, draft, budget>>
  /\ RefreshSchedule

OtherOperatorSaves ==
  /\ Saves
  /\ \E r \in {r \in OtherRules : Valid(r)} : server' = ApplyUpsert(server, NewRule(r, clock))
  /\ clock' = clock + 1
  /\ UNCHANGED <<rules, asks, batch, base, panel, draft>>
\* The list of connections was refreshed, or the schedule was switched on.
PageReads ==
  UNCHANGED <<server, clock, rules, batch, base, panel, draft, budget>> /\ RefreshSchedule
\* Mutant: what arrives is taken, whatever the operator has not saved.
NothingIsAtStake == panel.editing /\ draft.layers = EmptyDict

DraftIsAtStake == panel.editing /\ Pending
RulesArrive ==
  \E i \in DOMAIN asks : LET list == asks[i] IN
    /\ asks' = RemoveAt(asks, i) /\ rules' = list
    /\ CASE ~panel.open \/ ToSet(list) = base.rules -> UNCHANGED <<panel, draft, base>>
         [] OTHER -> IF DraftIsAtStake
                       THEN panel' = [panel EXCEPT !.changed = TRUE] /\ UNCHANGED <<draft, base>>
                     ELSE Reinit(panel, list)
    /\ UNCHANGED <<server, clock, batch, budget>>
ReadFails ==
  \E i \in DOMAIN asks : /\ asks' = RemoveAt(asks, i)
                         /\ UNCHANGED <<server, clock, rules, batch, base, panel, draft, budget>>

(***************************************************************************)
(* The whole.                                                              *)
(***************************************************************************)
Init ==
  /\ server \in StartRules /\ rules \in Listings(server)
  /\ clock = 1 + Max({0} \cup {r.at : r \in server})
  /\ asks = <<>> /\ batch = {} /\ base = BaseOf(<<>>) /\ budget \in Budgets
  /\ draft = FreshDraft(EmptyDict)
  /\ panel = [open |-> FALSE, preserve |-> FALSE, editing |-> FALSE,
              view |-> "edit", changed |-> FALSE, committing |-> FALSE,
              msg |-> "none", asked |-> FALSE]

Choose == ClickOverview \/ ClickMain \/ ClickGroup \/ ClickDay \/ ClickChart
Modify == ClickMode \/ ClickTemplate \/ ClickShift \/ Drag
Calendar ==
  \/ ClickCalendar \/ ClickDate \/ ClickNowhere \/ ClickGo \/ ClickCancelSelected
  \/ ClickRestore \/ ClickReset
Net ==
  \/ Commit \/ ClickBack \/ ServerApplies \/ BatchSaved \/ BatchFails
  \/ OtherOperatorSaves \/ PageReads \/ RulesArrive \/ ReadFails

Next == OpenPanel \/ SoftClose \/ HardClose \/ Pencil \/ Choose \/ Modify \/ Calendar \/ Question \/ Net
Spec == Init /\ [][Next]_editorVars

(***************************************************************************)
(* Properties.                                                             *)
(***************************************************************************)
ActiveLayers ==
  UNION {FindLayer(draft.layers, s) : s \in ToSet(ScopesOf(ActiveScope(draft)))}
\* Layers of several days that are no group: the server takes such rules, and
\* the editor, which never makes one, shows them without a board.
Boardless ==
  {l \in ToSet(draft.layers.exc) : ~IsGroup(l.scope.days) /\ ~IsSingle(l.scope.days)}
\* The days of a group may also be chosen one by one, and those of a boardless
\* layer are edited one by one: see the README.
OneByOne ==
  \/ /\ IsGroup(draft.days)
     /\ \A day \in draft.days : FindLayer(draft.layers, DowScope({day})) # {}
  \/ Boardless # {}

\* While a layer is being edited the ribbon and the mode show the window that
\* the layer has in the draft, whatever chose it, changed it, took it away,
\* brought it back or replaced it.
EditorShowsActiveLayer ==
  panel.open /\ panel.editing /\ ~draft.aggregate /\ ~OneByOne
    => \A l \in ActiveLayers : l.window = draft.window

\* Nothing that would change the main layer stands for confirmation unless
\* the operator was asked about the main layer since the editor was opened.
MainChangeIsAsked ==
  panel.view = "confirm" /\ MainDiffers(draft.layers) => panel.asked

\* While the operator edits and has something unsaved, nothing that comes
\* from the server takes it from him, unless his save succeeds: the draft and
\* what it is compared with change by his own clicks only.
NetKeepsUnsaved ==
  panel.open /\ panel'.open /\ panel.editing /\ Pending
    /\ (server' # server \/ rules' # rules \/ batch' # batch)
    => draft' = draft /\ base' = base
UnsavedKept == [][NetKeepsUnsaved]_editorVars

\* The topmost board under a day of the chart is the layer that has its way
\* on that day, for the days of the week and for the dates.  Only a layer of
\* several days that are no group, which gets no board, may have its way
\* unseen, and never on a day that has a layer of its own.
TopOfBoardWins ==
  LET groups == {l \in ToSet(draft.layers.exc) : IsGroup(l.scope.days)}
      unseen(dow) == IF FindLayer(draft.layers, DowScope({dow})) = {}
                       THEN {{l} : l \in Boardless} ELSE {}
      top(slots) == IF slots = <<>> THEN {} ELSE {Last(slots)}
  IN  Cardinality(groups) <= 1 =>
        /\ \A dow \in 0..6 :
             ResolveLayerForDow(draft.layers, dow)
               \in {top(RegularBoardSlots(draft.layers, dow))} \cup unseen(dow)
        /\ \A date \in Dates :
             LET dated == StaticBoardSlots(draft.layers, date) IN
             ResolveLayerForDate(draft.layers, date)
               \in {top(RegularBoardSlots(draft.layers, DowOf(date)) \o dated)}
                     \cup (IF dated = <<>> THEN unseen(DowOf(date)) ELSE {})

\* In the column of a day a minute is painted idle exactly when the indicator
\* says that the connection is not due then, and as a window exactly when it
\* says it is; of every list of rules that arrives.
PaintedAsDue(list) ==
  list # <<>> =>
    \A date \in Dates :
      LET column == [date |-> date, left |-> 0, width |-> Day]
          voids == BuildScheduleMaskSegs(list, {column})
          windows == BuildScheduleDesiredSegs(list, {column})
          painted(segs, m) == \E s \in segs : m >= s.shown.from /\ m < s.shown.to
      IN  \A m \in {date * Day + p : p \in Probes} :
            /\ painted(voids, m) <=> ~IsConnectedNow(list, m)
            /\ painted(windows, m) <=> IsConnectedNow(list, m)
NewRulesPaintedAsDue == rules' # rules => PaintedAsDue(rules')
IdleIsNotConnected == [][NewRulesPaintedAsDue]_editorVars
=============================================================================
