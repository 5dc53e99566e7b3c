------------------------------- MODULE MCDesk -------------------------------
(***************************************************************************)
(* The desk on small instances of its screens.                             *)
(***************************************************************************)
EXTENDS Desk

(***************************************************************************)
(* The editor of a schedule, over rules of every kind.                     *)
(***************************************************************************)
Layering == INSTANCE ScheduleLayers
Rule(to, mode, from, duration, at) ==
  [scope |-> to, mode |-> mode, open |-> from, duration |-> duration, at |-> at]
MainRule == Rule(Layering!MainScope, "window", 360, 1140, 1)
EveryKind ==
  {MainRule, Rule(Layering!DowScope(Layering!Weekdays), "window", 420, 1080, 2),
   Rule(Layering!DateScope(4, 5), "off", 0, 0, 2), Rule(Layering!DateScope(5, 5), "window", 600, 60, 3)}
SeveralDays == {Rule(Layering!DowScope({5, 6}), "window", 480, 600, 2)}
MCStartRules == {EveryKind, SeveralDays}
MCOtherRules == {Rule(Layering!DowScope({6}), "off", 0, 0, 0)}
MCPresets == [t \in {"futures"} |-> [weekday |-> {[open |-> 540, close |-> 1430]}, weekend |-> {}]]
MCScheduleBudgets ==
  {[clicks |-> 2, picks |-> 1, saves |-> 0], [clicks |-> 1, picks |-> 2, saves |-> 0],
   [clicks |-> 1, picks |-> 0, saves |-> 1]}

(***************************************************************************)
(* The axis and the refresh of the ribbons.  A month is 9 days long, a     *)
(* quarter three months, a year four quarters.                             *)
(***************************************************************************)
Months == [M |-> 9, Q |-> 27, Y |-> 108]
Days == INSTANCE SessionAxis WITH UnitDays <- Months
Latest(unit, count) == [kind |-> "sessions", unit |-> unit, count |-> count]
Switches == {"showWorkGaps", "showBreakIncidents", "showCrashIncidents", "showRuler"}
Off == [k \in Switches |-> FALSE]
Startup == [weekdays |-> Days!AllWeekdays, fullDay |-> FALSE, session |-> Days!Mode("session")]
MCOldViews ==
  {[frame |-> Latest("D", 1), dPlus |-> FALSE, filter |-> Startup, exchanges |-> {},
    flags |-> [Off EXCEPT !["showBreakIncidents"] = TRUE]],
   [frame |-> Latest("W", 1), dPlus |-> TRUE, exchanges |-> {"MOEX"},
    filter |-> [Startup EXCEPT !.session = Days!Mode("smart"), !.weekdays = 1..5, !.fullDay = TRUE],
    flags |-> [k \in Switches |-> TRUE]]}
MCTimeFrames == {[unit |-> "D", count |-> 3], [unit |-> "W", count |-> 1], [unit |-> "M", count |-> 1]}
MCHours == {{}, {[start |-> 420, end |-> 1440]}}
MCExtents == [known |-> [from |-> 600000, to |-> 1200000]]

MCRibbonFrames == {Latest("D", 1), [kind |-> "all"]}
MCContexts ==
  {[instruments |-> {}, source |-> "s1", connection |-> 1],
   [instruments |-> {"i"}, source |-> "s1", connection |-> 1],
   [instruments |-> {"i"}, source |-> "s1", connection |-> 2]}
MCRefreshBudgets ==
  {[moves |-> 2, drops |-> 0, lights |-> 0, fails |-> 0],
   [moves |-> 1, drops |-> 0, lights |-> 1, fails |-> 0],
   [moves |-> 1, drops |-> 1, lights |-> 0, fails |-> 1]}

(***************************************************************************)
(* The ribbon of one link over four instants, the desk with two            *)
(* connections, the tree of two series and the sets over two instruments.  *)
(***************************************************************************)
Changes(n, crashes, cuts, reports) ==
  [changes |-> n, crashes |-> crashes, cuts |-> cuts, reports |-> reports]
MCChangeBudgets == {Changes(3, 1, 0, 0), Changes(1, 0, 1, 0), Changes(1, 1, 0, 1), Changes(4, 0, 0, 0)}

Uses(k, m, u, f, x) == [clicks |-> k, moves |-> m, cuts |-> u, forms |-> f, failures |-> x]
MCDeskBudgets == {Uses(2, 1, 0, 0, 1), Uses(1, 1, 1, 0, 1), Uses(0, 0, 0, 2, 1)}

MCOptionsOf == [s1 |-> {"o1"}, s2 |-> {"o2"}]
Visits(k, f, r, m) == [clicks |-> k, failures |-> f, reloads |-> r, moves |-> m]
MCCatalogueBudgets == {Visits(4, 0, 1, 0), Visits(3, 1, 0, 1), Visits(2, 0, 2, 0)}

MCTypeOf == [g1 |-> "FUT", g2 |-> "OPT"]
Edits(k, f, m) == [clicks |-> k, failures |-> f, moves |-> m]
MCBasketBudgets == {Edits(4, 0, 0), Edits(3, 0, 1), Edits(2, 1, 0)}
=============================================================================
