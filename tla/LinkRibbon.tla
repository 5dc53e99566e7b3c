----------------------------- MODULE LinkRibbon -----------------------------
(***************************************************************************)
(* The ribbon of one connection against what happened to its link.  The    *)
(* host writes the rows of link_liveness and the journal; the browser      *)
(* draws its last answers, and while it cannot reach the host the crash it *)
(* suspects.  At most one change of the link falls on an instant.          *)
(***************************************************************************)
EXTENDS RibbonGeometry

CONSTANTS
  Horizon,       \* bound: cells of time
  Slop,          \* cells a drawn crash may differ from the suspected one
  ChangeBudgets  \* bounds: changes of the link, crashes of the host, losses of
                 \* the socket alone, crashes another browser reports

VARIABLES
  now,           \* the present instant
  link,          \* "idle", "live", "broken" or, since a crash, "lost"
  host,          \* the host runs
  rows,          \* link_liveness, in the order of from_ts
  journal,       \* episodes of the connection: [type, from, to]
  moved,         \* something has changed at this instant
  shown,         \* link$: [intervals, gaps] as the browser has them
  incidents,     \* link$.incidents
  outage,        \* outageStart of the browser, or Never
  crash,         \* crashOptimistic: at most one [from, to]
  owed,          \* outages reported and not yet journalled
  happened,      \* ghost: the link in each cell gone by
  left           \* what is left of the bounds

linkVars ==
  <<now, link, host, rows, journal, moved, shown, incidents, outage, crash, owed, happened, left>>
server == <<link, host, rows, journal>>
client == <<shown, incidents, outage, crash>>

Spend(k) == left[k] > 0 /\ left' = [left EXCEPT ![k] = @ - 1]
Once == ~moved /\ moved' = TRUE
OpenRow == <<[from |-> now, to |-> now, open |-> TRUE, reason |-> NoReason]>>
Marker(reason) == <<[from |-> now, to |-> now, open |-> FALSE, reason |-> reason]>>
Closed(reason) ==
  [i \in DOMAIN rows |-> IF rows[i].open THEN [rows[i] EXCEPT !.open = FALSE, !.reason = reason] ELSE rows[i]]
Ended(entries) == {IF e.to = Never THEN [e EXCEPT !.to = now] ELSE e : e \in entries}

(***************************************************************************)
(* The link and the host.                                                  *)
(***************************************************************************)
\* Heartbeats of a live link reach the present.
Tick ==
  /\ now < Horizon
  /\ now' = now + 1
  /\ moved' = FALSE
  /\ happened' = Append(happened, link)
  /\ rows' = [i \in DOMAIN rows |-> IF rows[i].open /\ host /\ link = "live"
                                      THEN [rows[i] EXCEPT !.to = now + 1] ELSE rows[i]]
  /\ UNCHANGED <<link, host, journal, client, owed, left>>

Change(to, newRows, newJournal) ==
  /\ host
  /\ Once
  /\ Spend("changes")
  /\ link' = to
  /\ rows' = newRows
  /\ journal' = newJournal
  /\ UNCHANGED <<now, host, client, owed, happened>>

Connect == link \in {"idle", "lost"} /\ Change("live", rows \o OpenRow, journal)
Break(reason) ==
  /\ link = "live"
  /\ Change("broken", Closed(reason), journal \cup {[type |-> "break", from |-> now, to |-> Never]})
GoesDown == link = "broken" /\ Change("broken", rows \o Marker("server_down"), journal)
Recover == link = "broken" /\ Change("live", rows \o OpenRow, Ended(journal))
Disconnect ==
  \/ link = "live" /\ Change("idle", Closed("disconnected"), journal)
  \/ link = "broken" /\ Change("idle", rows \o Marker("disconnected"), Ended(journal))

HostDown ==
  /\ host
  /\ Once
  /\ Spend("crashes")
  /\ host' = FALSE
  /\ link' = IF link = "live" THEN "lost" ELSE link
  /\ UNCHANGED <<now, rows, journal, client, owed, happened>>

\* Mutant: the rows the crash left open stay open.
OpenRowsStay ==
  /\ ~host
  /\ Once
  /\ host' = TRUE
  /\ UNCHANGED <<now, link, rows, journal, client, owed, happened, left>>

HostUp ==
  /\ ~host
  /\ Once
  /\ host' = TRUE
  /\ rows' = Closed("interrupted")
  /\ UNCHANGED <<now, link, journal, client, owed, happened, left>>

\* The reported outage of a connection that is wanted; another browser may have seen one.
CrashJournalled ==
  /\ host
  /\ \E e \in owed :
       /\ owed' = owed \ {e}
       /\ journal' = journal \cup {[type |-> "crash", from |-> e.from, to |-> e.to]}
  /\ UNCHANGED <<now, link, host, rows, moved, client, happened, left>>
OtherBrowserReports ==
  /\ host
  /\ Spend("reports")
  /\ \E from, to \in 0..now : from < to /\ journal' = journal \cup {[type |-> "crash", from |-> from, to |-> to]}
  /\ UNCHANGED <<now, link, host, rows, moved, client, owed, happened>>

(***************************************************************************)
(* The browser.                                                            *)
(***************************************************************************)
OnBackendDrop ==
  /\ outage = Never
  /\ IF host THEN Spend("cuts") ELSE UNCHANGED left
  /\ outage' = now
  /\ crash' = {[from |-> now, to |-> Never]}
  /\ shown' = ApplyCrashOptimistic(shown, [from |-> now, to |-> Never])
  /\ UNCHANGED <<now, server, moved, incidents, owed, happened>>

\* The socket is back and has held; an outage of no length is not reported.
ResolveOutage ==
  LET episode == [from |-> outage, to |-> now]
  IN  /\ outage # Never
      /\ host
      /\ now > outage
      /\ outage' = Never
      /\ crash' = {episode}
      /\ shown' = ApplyCrashOptimistic(shown, episode)
      /\ owed' = owed \cup {episode}
      /\ UNCHANGED <<now, server, moved, incidents, happened, left>>

\* No question while the crash is open; a closed one is laid over the answer until the
\* server has drawn it.
FetchLink ==
  LET answer == Answer(rows)
      drawn == \E c \in crash : LinkHasCrashGap(answer, c, Slop)
  IN  /\ host
      /\ \A c \in crash : c.to # Never
      /\ crash' = IF drawn THEN {} ELSE crash
      /\ shown' = IF crash = {} \/ drawn THEN answer
                  ELSE ApplyCrashOptimistic(answer, CHOOSE c \in crash : TRUE)
      /\ UNCHANGED <<now, server, moved, incidents, outage, owed, happened, left>>

FetchConnectionIncidents ==
  /\ host
  /\ incidents' = journal
  /\ crash' = {c \in crash : ~JournalHasOverlappingCrash(journal, c, now)}
  /\ UNCHANGED <<now, server, moved, shown, outage, owed, happened, left>>

Nothing == [intervals |-> {}, gaps |-> {}]
Init ==
  /\ now = 0
  /\ link = "idle"
  /\ host = TRUE
  /\ rows = <<>>
  /\ journal = {}
  /\ moved = FALSE
  /\ shown = Nothing
  /\ incidents = {}
  /\ outage = Never
  /\ crash = {}
  /\ owed = {}
  /\ happened = <<>>
  /\ left \in ChangeBudgets

Next ==
  \/ Tick
  \/ Connect
  \/ \E reason \in {"degraded", "server_down"} : Break(reason)
  \/ GoesDown
  \/ Recover
  \/ Disconnect
  \/ HostDown
  \/ HostUp
  \/ CrashJournalled
  \/ OtherBrowserReports
  \/ OnBackendDrop
  \/ ResolveOutage
  \/ FetchLink
  \/ FetchConnectionIncidents

Spec == Init /\ [][Next]_linkVars

-----------------------------------------------------------------------------
\* While the browser cannot reach the host, its ribbon is red from the drop on, whatever
\* is refreshed meanwhile, unless the journal it shows knows of a crash in that time.
RedWhileDown ==
  (outage # Never /\ ~JournalHasOverlappingCrash(incidents, [from |-> outage, to |-> Never], now)) =>
     \A t \in outage..(now - 1) : Painted(shown, incidents, FALSE, now, t) = "red"

\* While the host runs, a ribbon that holds its present answers and no suspicion shows what happened
\* to the link: live blue, off grey, broken yellow, a journalled crash red, and time
\* lost to a crash never as live or off; from the gaps, all lost time red.  (Before the
\* first row there is nothing to show.)
PaintedAsHappened ==
  (host /\ shown = Answer(rows) /\ incidents = journal /\ crash = {}) =>
     \A t \in 0..(now - 1) :
        LET was == happened[t + 1]
            top(workGaps) == Painted(shown, incidents, workGaps, now, t)
            early == \A i \in DOMAIN rows : rows[i].from > t
        IN  early \/
            /\ top(TRUE) = [live |-> "blue", idle |-> "grey", broken |-> "yellow", lost |-> "red"][was]
            /\ IF Bodies(journal, "crash", now, t) THEN top(FALSE) = "red"
               ELSE top(FALSE) \in [live |-> {"blue"}, idle |-> {"grey"}, broken |-> {"yellow"},
                                    lost |-> {"red", "blank"}][was]
RibbonIsTrue == RedWhileDown /\ PaintedAsHappened
=============================================================================
