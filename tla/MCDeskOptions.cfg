CONSTANTS
  Screens = {"tree"}
  StartRules <- MCStartRules
  OtherRules <- MCOtherRules
  Presets <- MCPresets
  ClickDays = {6, 0}
  Dates = {4, 5}
  DragTo = {300}
  MaxSpanDays = 2
  ChartPad = 1
  Probes = {0, 59, 60, 600, 1439}
  Shifts = {0, 1}
  ScheduleBudgets <- MCScheduleBudgets
  MaxAsks = 1
  UnitDays <- Months
  Today = 705
  OldViews <- MCOldViews
  TimeFrames <- MCTimeFrames
  PickDates = {699, 702}
  Exchanges = {"MOEX", "CME"}
  ClickedDays = {5, 6}
  Minutes = {0, 1439}
  Hours <- MCHours
  Extents <- MCExtents
  Flags <- Switches
  DayTurns = 1
  MaxClicks = 2
  RibbonFrames <- MCRibbonFrames
  Windows = {"w1", "w2"}
  Contexts <- MCContexts
  Connections = {1, 2}
  RefreshBudgets <- MCRefreshBudgets
  RibbonCells = 4
  Slop = 1
  ChangeBudgets <- MCChangeBudgets
  Ids = {"c1", "c2"}
  DeskBudgets <- MCDeskBudgets
  OptionsOf <- MCOptionsOf
  CatalogueBudgets <- MCCatalogueBudgets
  Baskets = {"b1", "b2"}
  TypeOf <- MCTypeOf
  BasketBudgets <- MCBasketBudgets
SPECIFICATION Spec
INVARIANT OptionsAreEnsured
CHECK_DEADLOCK FALSE
