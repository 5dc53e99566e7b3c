CONSTANTS
  Screens = {"feed", "dock"}
  Links = {"link", "other"}
  Requests = {"r1", "r2"}
  Limit = 3
  Channel = 1
  Backlog = 3
  Incidents = 1
  MaxGets = 1
  Scenes <- MCScenes
  Day = 4
  TransportKeys = {"outage"}
  ConnectionKeys = {"link"}
  Threads <- MCThreads
  Deleted = {}
  OldMarks <- MCOldMarks
  OldStores <- MCOldStores
  Options <- MCOptions
  ConnectionIds = {1, 2}
  Queries = {"q"}
  CustomDays = {0, 1}
  ClockTimes = {1, 3}
  Offsets = {0, 3}
  Instants <- MCInstants
  MaxClicks = 3
SPECIFICATION Spec
INVARIANTS
  NothingMissed
  OrphansAreProbed
  NoAlertUnderClose
  CollapseKeepsThreads
  HiddenIsTrue
  NoChipFiltersNothing
  ReloadKeeps
  GroupingHidesNothing
PROPERTIES
  ReadStays
  HeaderMarkFlips
CHECK_DEADLOCK FALSE
