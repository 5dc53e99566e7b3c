-------------------------------- MODULE Desk --------------------------------
(***************************************************************************)
(* The desk of the client: the editor of schedules, the timeline and its   *)
(* ribbons, the connections, the catalogue and its sets.  They share no    *)
(* state in what is modelled of them, so a behaviour plays on one screen,  *)
(* which is chosen at the start; the variables of the other screens rest.  *)
(* Where two screens use the same name for a variable or a constant, the   *)
(* name here says whose it is.                                             *)
(***************************************************************************)
EXTENDS Integers, Sequences, FiniteSets

CONSTANTS
  Screens,           \* the screens that are looked at
  \* the editor of a schedule
  StartRules, OtherRules, Presets, ClickDays, Dates, DragTo, MaxSpanDays, ChartPad, Probes, Shifts,
  ScheduleBudgets, MaxAsks,
  \* the axis of the timeline
  UnitDays, Today, OldViews, TimeFrames, PickDates, Exchanges, ClickedDays, Minutes, Hours, Extents,
  Flags, DayTurns, MaxClicks,
  \* the refresh of the ribbons, over the same calendar
  RibbonFrames, Windows, Contexts, Connections, RefreshBudgets,
  \* the ribbon of a link
  RibbonCells, Slop, ChangeBudgets,
  \* the connections
  Ids, DeskBudgets,
  \* the catalogue of instruments
  OptionsOf, CatalogueBudgets,
  \* the sets of instruments
  Baskets, TypeOf, BasketBudgets

VARIABLES
  screen,            \* the screen of this behaviour
  \* the editor of a schedule
  scheduleServer, scheduleClock, rules, scheduleAsks, batch, base, panel, scheduleDraft, scheduleBudget,
  \* the axis of the timeline
  today, view, axisStored, axis, hoursAsk, extentAsk, picker, axisHeard, behind, axisClicks,
  \* the refresh of the ribbons
  frame, window, context, source, connection, extentAsked, down, due, pass, lightDue, light, layers,
  layersMissed, refreshBudget,
  \* the ribbon of a link
  now, ribbonLink, host, ribbonRows, journal, moved, shown, incidents, ribbonOutage, crash, owed,
  happened, ribbonLeft,
  \* the connections
  deskServer, deskWire, online, deskRows, flash, requests, form, unlisted, spent,
  \* the catalogue of instruments
  chips, query, scope, selected, list, fetching, open, loaded, leaves, treeAsks, busy, recs,
  treeStored, treeLink, recording, treeMissed, rest,
  \* the sets of instruments
  sets, baskets, editor, basketDraft, match, available, calls, basketLeft

scheduleVars == <<scheduleServer, scheduleClock, rules, scheduleAsks, batch, base, panel, scheduleDraft,
  scheduleBudget>>
axisVars == <<today, view, axisStored, axis, hoursAsk, extentAsk, picker, axisHeard, behind, axisClicks>>
refreshVars == <<frame, window, context, source, connection, extentAsked, down, due, pass, lightDue,
  light, layers, layersMissed, refreshBudget>>
ribbonVars == <<now, ribbonLink, host, ribbonRows, journal, moved, shown, incidents, ribbonOutage,
  crash, owed, happened, ribbonLeft>>
deskVars == <<deskServer, deskWire, online, deskRows, flash, requests, form, unlisted, spent>>
treeVars == <<chips, query, scope, selected, list, fetching, open, loaded, leaves, treeAsks, busy, recs,
  treeStored, treeLink, recording, treeMissed, rest>>
setsVars == <<sets, baskets, editor, basketDraft, match, available, calls, basketLeft>>
screenVars == <<screen, scheduleVars, axisVars, refreshVars, ribbonVars, deskVars, treeVars, setsVars>>

(***************************************************************************)
(* The screens.  The refresh and the connections come with what is proved  *)
(* of them, so that it can be cited of the desk.                           *)
(***************************************************************************)
Schedule == INSTANCE ScheduleEditor
  WITH Budgets <- ScheduleBudgets, server <- scheduleServer, clock <- scheduleClock,
       asks <- scheduleAsks, draft <- scheduleDraft, budget <- scheduleBudget
Axis == INSTANCE TimelineAxis
  WITH Frames <- TimeFrames, stored <- axisStored, heard <- axisHeard, clicks <- axisClicks
Refresh == INSTANCE RibbonRefresh_proofs
  WITH Frames <- RibbonFrames, Budgets <- RefreshBudgets, missed <- layersMissed, budget <- refreshBudget
Ribbon == INSTANCE LinkRibbon
  WITH Horizon <- RibbonCells, link <- ribbonLink, rows <- ribbonRows, outage <- ribbonOutage, left <- ribbonLeft
Panel == INSTANCE Connections_proofs
  WITH server <- deskServer, wire <- deskWire, rows <- deskRows
Tree == INSTANCE InstrumentTree
  WITH asks <- treeAsks, stored <- treeStored, link <- treeLink, missed <- treeMissed
Sets == INSTANCE BasketEditor
  WITH draft <- basketDraft, left <- basketLeft

\* The store holds rules the server took; days and minutes are looked at.
ASSUME RulesAssumption ==
  \A live \in StartRules : IsFiniteSet(live) /\ \A r \in live : Schedule!Valid(r) /\ r.at \in Int
ASSUME ProbesAssumption == Dates \subseteq Int /\ Probes \subseteq 0..(Schedule!Day - 1)
\* The switches of the ribbon, and the views the browser may have kept.
ASSUME FlagsAssumption == Axis!Incidents \cup {"showWorkGaps"} \subseteq Flags
ASSUME ViewsAssumption == \A v \in OldViews : Axis!IsView(v) /\ Axis!IsHorizon(v)
\* Dates are numbers, a month has some days, a time frame counts something, and the hours
\* of a day that are set or known lie within it.
ASSUME AxisAssumption ==
  /\ Today \in Int /\ PickDates \subseteq Int
  /\ \A unit \in {"M", "Q", "Y"} : UnitDays[unit] \in Nat
  /\ \A f \in TimeFrames : f.unit \in {"D", "W", "M", "Q", "Y"} /\ f.count \in Nat \ {0}
  /\ Minutes \subseteq 0..Axis!MinutesOfDay
  /\ \A hours \in Hours : \A h \in hours :
       h.start \in 0..Axis!MinutesOfDay /\ h.end \in 0..Axis!MinutesOfDay
  /\ \A x \in DOMAIN Extents : Extents[x].from \in Int /\ Extents[x].to \in Int

(***************************************************************************)
(* One screen plays, the others rest.                                      *)
(***************************************************************************)
Idle == "idle"
ScheduleRests ==
  /\ scheduleServer = Idle /\ scheduleClock = Idle /\ rules = Idle /\ scheduleAsks = Idle /\ batch = Idle
  /\ base = Idle /\ panel = Idle /\ scheduleDraft = Idle /\ scheduleBudget = Idle
AxisRests ==
  /\ today = Idle /\ view = Idle /\ axisStored = Idle /\ axis = Idle /\ hoursAsk = Idle
  /\ extentAsk = Idle /\ picker = Idle /\ axisHeard = Idle /\ behind = Idle /\ axisClicks = Idle
RefreshRests ==
  /\ frame = Idle /\ window = Idle /\ context = Idle /\ source = Idle /\ connection = Idle
  /\ extentAsked = Idle /\ down = Idle /\ due = Idle /\ pass = Idle /\ lightDue = Idle /\ light = Idle
  /\ layers = Idle /\ layersMissed = Idle /\ refreshBudget = Idle
RibbonRests ==
  /\ now = Idle /\ ribbonLink = Idle /\ host = Idle /\ ribbonRows = Idle /\ journal = Idle
  /\ moved = Idle /\ shown = Idle /\ incidents = Idle /\ ribbonOutage = Idle /\ crash = Idle
  /\ owed = Idle /\ happened = Idle /\ ribbonLeft = Idle
DeskRests ==
  /\ deskServer = Idle /\ deskWire = Idle /\ online = Idle /\ deskRows = Idle /\ flash = Idle
  /\ requests = Idle /\ form = Idle /\ unlisted = Idle /\ spent = Idle
TreeRests ==
  /\ chips = Idle /\ query = Idle /\ scope = Idle /\ selected = Idle /\ list = Idle /\ fetching = Idle
  /\ open = Idle /\ loaded = Idle /\ leaves = Idle /\ treeAsks = Idle /\ busy = Idle /\ recs = Idle
  /\ treeStored = Idle /\ treeLink = Idle /\ recording = Idle /\ treeMissed = Idle
  /\ rest = Idle
SetsRests ==
  /\ sets = Idle /\ baskets = Idle /\ editor = Idle /\ basketDraft = Idle /\ match = Idle
  /\ available = Idle /\ calls = Idle /\ basketLeft = Idle

Init ==
  /\ screen \in Screens
  /\ IF screen = "schedule" THEN Schedule!Init ELSE ScheduleRests
  /\ IF screen = "axis" THEN Axis!Init ELSE AxisRests
  /\ IF screen = "refresh" THEN Refresh!Init ELSE RefreshRests
  /\ IF screen = "ribbon" THEN Ribbon!Init ELSE RibbonRests
  /\ IF screen = "desk" THEN Panel!Init ELSE DeskRests
  /\ IF screen = "tree" THEN Tree!Init ELSE TreeRests
  /\ IF screen = "sets" THEN Sets!Init ELSE SetsRests

Next ==
  /\ UNCHANGED screen
  /\ IF screen = "schedule" THEN Schedule!Next ELSE UNCHANGED scheduleVars
  /\ IF screen = "axis" THEN Axis!Next ELSE UNCHANGED axisVars
  /\ IF screen = "refresh" THEN Refresh!Next ELSE UNCHANGED refreshVars
  /\ IF screen = "ribbon" THEN Ribbon!Next ELSE UNCHANGED ribbonVars
  /\ IF screen = "desk" THEN Panel!Next ELSE UNCHANGED deskVars
  /\ IF screen = "tree" THEN Tree!Next ELSE UNCHANGED treeVars
  /\ IF screen = "sets" THEN Sets!Next ELSE UNCHANGED setsVars

Spec == Init /\ [][Next]_screenVars

-----------------------------------------------------------------------------
\* The ribbon shows the layer that is edited.
EditorShowsActiveLayer == screen = "schedule" => Schedule!EditorShowsActiveLayer
\* A change of the main layer is asked about.
MainChangeIsAsked == screen = "schedule" => Schedule!MainChangeIsAsked
\* The topmost board is the layer in force.
TopOfBoardWins == screen = "schedule" => Schedule!TopOfBoardWins
\* Painted idle is exactly what is not due.
IdleIsNotConnected == [][screen = "schedule" => Schedule!NewRulesPaintedAsDue]_screenVars
\* The server takes nothing unsaved from the operator.
UnsavedKept == [][screen = "schedule" => Schedule!NetKeepsUnsaved]_screenVars
\* The axis shows the chosen days and hours, and the cursor tells the time drawn under it.
AxisIsTrue == screen = "axis" => (Axis!AxisIsChosen /\ Axis!CursorIsTrue /\ Axis!ReloadKeepsView)
\* At rest every layer belongs to what is shown.
RestIsCurrent == screen = "refresh" => Refresh!RestIsCurrent
\* The ribbon shows what happened to the link.
RibbonIsTrue == screen = "ribbon" => Ribbon!RibbonIsTrue
\* No row stays busy or red for good.
NothingHangs == screen = "desk" => Panel!NothingHangs
\* The tree is loaded where it is open, and its query follows its chips.
TreeIsServed == screen = "tree" => Tree!TreeIsServed
\* Preview and fields belong to the set being edited.
EditorIsTrue == screen = "sets" => Sets!EditorIsTrue
\* Options opened or recorded while the link is live are loaded through it first.
OptionsAreEnsured == screen = "tree" => Tree!OptionsAreEnsured
=============================================================================
