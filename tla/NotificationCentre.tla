------------------------- MODULE NotificationCentre -------------------------
(***************************************************************************)
(* The notification centre of the client: the feed and, over a fixed feed, *)
(* the dock that filters and marks it.  The two share no state in what is  *)
(* modelled of them, so a behaviour plays on one of the two screens, which *)
(* is chosen at the start; the other screen's variables rest.  Where both  *)
(* use the same name for a variable, the name here says whose it is.       *)
(***************************************************************************)
EXTENDS Integers, Sequences, FiniteSets

CONSTANTS
  Screens,           \* the screens that are looked at
  \* the feed
  Links, Requests, Limit, Channel, Backlog, Incidents, MaxGets, Scenes,
  \* the dock
  Day, TransportKeys, ConnectionKeys, Threads, Deleted, OldMarks, OldStores, Options, ConnectionIds,
  Queries, CustomDays, ClockTimes, Offsets, Instants, MaxClicks

VARIABLES
  screen,            \* the screen of this behaviour
  \* the feed of notifications
  issued, journal, gone, feedWire, queue, feedAsks, hideAsks, posts, raw, readIds, collapse, hidden, probing,
  aged, feedOutage, localId, stamps, scene, drops, reloads, hides, feedMarks, excused, feedHeard,
  forsaken, oks, crossed,
  \* the dock
  dockFilter, active, menu, group, dockMarks, dockStored, dockClicks

feedVars == <<issued, journal, gone, feedWire, queue, feedAsks, hideAsks, posts, raw, readIds, collapse, hidden,
  probing, aged, feedOutage, localId, stamps, scene, drops, reloads, hides, feedMarks, excused,
  feedHeard, forsaken, oks, crossed>>
dockVars == <<dockFilter, active, menu, group, dockMarks, dockStored, dockClicks>>
screenVars == <<screen, feedVars, dockVars>>

(***************************************************************************)
(* The screens.                                                            *)
(***************************************************************************)
Feed == INSTANCE NotificationFeed
  WITH wire <- feedWire, asks <- feedAsks, outage <- feedOutage,
       marks <- feedMarks, heard <- feedHeard
Dock == INSTANCE NotificationDock
  WITH marks <- dockMarks, stored <- dockStored, clicks <- dockClicks

(***************************************************************************)
(* What the constants are.                                                 *)
(***************************************************************************)
\* The ring, the socket's channel and the answer to a request hold something.
ASSUME FeedAssumption ==
  Limit \in Nat \ {0} /\ Channel \in Nat \ {0} /\ Backlog \in Nat \ {0} /\ Incidents \in Nat \ {0}
\* The journal a scene begins with is a list of link incidents.
ASSUME ScenesAssumption == \A s \in Scenes : s.journal \in Seq(Links)
\* Links and failed requests have correlation ids of their own.
ASSUME CorrsAssumption == Links \cap Requests = {} /\ Feed!None \notin Links \cup Requests
ASSUME DayAssumption == Day \in Nat \ {0}
ASSUME TimesAssumption ==
  Instants \subseteq Int /\ Offsets \subseteq Int /\ CustomDays \subseteq Int /\ ClockTimes \subseteq 0..Day
\* Connections, layers and period have menus of their own.
ASSUME OptionsAssumption == DOMAIN Options \subseteq Dock!Keys \ {"connection", "layers", "range"}
ASSUME StoresAssumption == \A s \in OldStores : Dock!IsStore(s)
ASSUME ThreadsAssumption == \A t \in Threads : Dock!IsThread(t)
ASSUME MarksAssumption ==
  \A m \in OldMarks, t \in Threads : {t.uid} \cup Dock!EntryIdsOf(t) \subseteq DOMAIN m

(***************************************************************************)
(* One screen plays, the others rest.                                      *)
(***************************************************************************)
Idle == "idle"
FeedRests ==
  /\ issued = Idle /\ journal = Idle /\ gone = Idle /\ feedWire = Idle /\ queue = Idle /\ feedAsks = Idle
  /\ hideAsks = Idle /\ posts = Idle /\ raw = Idle /\ readIds = Idle /\ collapse = Idle /\ hidden = Idle
  /\ probing = Idle /\ aged = Idle /\ feedOutage = Idle /\ localId = Idle /\ scene = Idle
  /\ stamps = Idle /\ drops = Idle /\ reloads = Idle /\ hides = Idle /\ feedMarks = Idle
  /\ excused = Idle /\ feedHeard = Idle /\ forsaken = Idle /\ oks = Idle /\ crossed = Idle
DockRests ==
  /\ dockFilter = Idle /\ active = Idle /\ menu = Idle /\ group = Idle /\ dockMarks = Idle
  /\ dockStored = Idle /\ dockClicks = Idle

Init ==
  /\ screen \in Screens
  /\ IF screen = "feed" THEN Feed!Init ELSE FeedRests
  /\ IF screen = "dock" THEN Dock!Init ELSE DockRests

Next ==
  /\ UNCHANGED screen
  /\ IF screen = "feed" THEN Feed!Next ELSE UNCHANGED feedVars
  /\ IF screen = "dock" THEN Dock!Next ELSE UNCHANGED dockVars

Spec == Init /\ [][Next]_screenVars

-----------------------------------------------------------------------------
\* The feed misses no atom of the host once its requests are answered.
NothingMissed == screen = "feed" => Feed!NothingMissed
\* A lone 500 is probed, or closed.
OrphansAreProbed == screen = "feed" => Feed!OrphansAreProbed
\* No alert counts that a later close answers.
NoAlertUnderClose == screen = "feed" => Feed!NoAlertUnderClose
\* Collapsing the ticks of a phase keeps the threads.
CollapseKeepsThreads == screen = "feed" => Feed!CollapseKeepsThreads
\* Hidden are incidents the journal hides, and the newest of them all.
HiddenIsTrue == screen = "feed" => Feed!HiddenIsTrue
\* What was read stays read.
ReadStays == [][screen = "feed" => Feed!ReadKept]_screenVars
\* A filter without a chip filters nothing, and a period is whole days of the feed's zone.
NoChipFiltersNothing == screen = "dock" => (Dock!NoChipFiltersNothing /\ Dock!RangeIsByCalendar)
\* A reload brings back the dock as it was left.
ReloadKeeps == screen = "dock" => Dock!ReloadKeeps
\* Grouping hides nothing.
GroupingHidesNothing == screen = "dock" => Dock!GroupingHidesNothing
\* A click on the mark of a header flips it.
HeaderMarkFlips == [][screen = "dock" => Dock!HeaderFlips]_screenVars
=============================================================================
