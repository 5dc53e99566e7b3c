--------------------------- MODULE FeedProjection ---------------------------
(***************************************************************************)
(* The pure half of the notification centre: how the flat audit of atoms   *)
(* becomes the feed (phase ticks folded into one row) and the feed becomes *)
(* containers, singles and threads.  An atom is a record                   *)
(*   [id, ts, severity, status, code, corr, data]                          *)
(* whose data holds the keys the projection reads; None is a key that is   *)
(* absent.  Ids and time stamps are numbers.                               *)
(***************************************************************************)
EXTENDS Integers, Sequences, SequencesExt, FiniteSets

None == "none"

\* The data of an atom that carries none of the keys.
NoData == [sender |-> None, hint |-> None, kind |-> None, groupKind |-> None,
           outcome |-> None, reason |-> None]

IncidentOpenCodes ==
  {"connection.lost", "backend.unavailable", "connection.auto_error"}
RecoveringCodes ==
  {"connection.recovering", "backend.recovering", "connection.reconnecting"}
TerminalCloseCodes ==
  {"connection.recovered", "backend.recovered", "connection.incident_closed"}

\* The codes that end in `.progress` and those that contain `recovering`, with one of a
\* client's own for all that nobody has thought of.
ProgressCodes == {"backend.unavailable.progress", "client.progress"}
NamedRecovering == {"connection.recovering", "backend.recovering", "client.recovering"}

ResolveStatus(e) == IF e.status = None THEN "active" ELSE e.status

IsAlert(e) == e.severity \in {"error", "critical"}

\* The whitelist of phase ticks; the rest of the atoms stay discrete.
IsI2PhaseTick(e) ==
  \/ e.code \in {"connection.recovering", "connection.connecting", "connection.connect_failed"}
  \/ e.code \in ProgressCodes
  \/ e.code = "connection.reconnecting" /\ e.data.sender # "user"

I2PhaseKey(e) == <<e.corr, e.code, ResolveStatus(e)>>

\* A stable sort: Above is a strict order, ties keep their places.  An entry has the
\* place after those before it (spelt out, as Only is, to be reasoned about).
StableSort(s, Above(_, _)) ==
  LET Before(i, j) == \/ Above(s[i], s[j])
                      \/ ~Above(s[j], s[i]) /\ i < j
      places == {<<i, Cardinality({j \in DOMAIN s : Before(j, i)}) + 1>> : i \in DOMAIN s}
  IN  [k \in DOMAIN s |-> s[(CHOOSE p \in places : p[2] = k)[1]]]

\* The entries that pass a test, in their order.
Only(s, Test(_)) ==
  LET at == {i \in DOMAIN s : Test(s[i])}
  IN  [k \in 1..Cardinality(at) |-> s[CHOOSE i \in at : Cardinality(at \cap 1..i) = k]]

SortNewestFirst(s) == StableSort(s, LAMBDA a, b : a.ts > b.ts)

\* Mutant: the row keeps the time of its oldest tick.
CollapseAtOldest(s) ==
  LET newestFirst == SortNewestFirst(s)
      Folds(e) == e.corr # None /\ IsI2PhaseTick(e)
      Ticks(e) == {i \in DOMAIN newestFirst :
                     Folds(newestFirst[i]) /\ I2PhaseKey(newestFirst[i]) = I2PhaseKey(e)}
  IN  Only(newestFirst, LAMBDA e : Folds(e) => e.id = newestFirst[Max(Ticks(e))].id)

\* One row for each phase of a thread: the oldest tick's row and place, the
\* newest tick's text and time.
CollapsePhaseTicks(s) ==
  LET newestFirst == SortNewestFirst(s)
      Folds(e) == e.corr # None /\ IsI2PhaseTick(e)
      Ticks(e) == {i \in DOMAIN newestFirst :
                     Folds(newestFirst[i]) /\ I2PhaseKey(newestFirst[i]) = I2PhaseKey(e)}
      rows == Only(newestFirst, LAMBDA e : Folds(e) => e.id = newestFirst[Max(Ticks(e))].id)
      Folded(e) == LET newest == newestFirst[Min(Ticks(e))]
                   IN  [e EXCEPT !.ts = newest.ts, !.data = newest.data]
  IN  [i \in DOMAIN rows |-> IF Folds(rows[i]) THEN Folded(rows[i]) ELSE rows[i]]

(***************************************************************************)
(* A thread of the atoms of one correlation id, oldest first.              *)
(***************************************************************************)

SeverityStackRank(s) ==
  CASE s = "ok" -> 4 [] s = "critical" -> 3 [] s = "error" -> 2
    [] s = "warning" -> 1 [] OTHER -> 0

SortOldestFirst(s) ==
  StableSort(s, LAMBDA a, b :
    \/ a.ts < b.ts
    \/ /\ a.ts = b.ts
       /\ LET ra == SeverityStackRank(a.severity)
              rb == SeverityStackRank(b.severity)
          IN  ra < rb \/ (ra = rb /\ a.id < b.id))

IsTerminalClose(e) == ResolveStatus(e) = "resolved" \/ e.code \in TerminalCloseCodes
IsRecoveringEntry(e) ==
  \/ e.code \in RecoveringCodes
  \/ ResolveStatus(e) = "underway" /\ e.code \in NamedRecovering
IsOpenLikeEntry(e) == e.code \in IncidentOpenCodes \/ ResolveStatus(e) = "active"

\* A close is final wherever it stands; otherwise the newest leading entry.
DeriveThreadStatus(oldestFirst) ==
  LET leading == {i \in DOMAIN oldestFirst :
                    IsRecoveringEntry(oldestFirst[i]) \/ IsOpenLikeEntry(oldestFirst[i])}
  IN  IF \E i \in DOMAIN oldestFirst : IsTerminalClose(oldestFirst[i])
        THEN "resolved"
      ELSE IF leading # {} /\ IsRecoveringEntry(oldestFirst[Max(leading)])
        THEN "recovering"
      ELSE "active"

\* The last close of a thread, as a set of at most one entry.
FindTerminalClose(oldestFirst) ==
  LET closes == {i \in DOMAIN oldestFirst : IsTerminalClose(oldestFirst[i])}
  IN  IF closes = {} THEN {} ELSE {oldestFirst[Max(closes)]}

\* The last value of a data key in a thread, and the first.
LastOf(s, Key(_)) ==
  LET has == {i \in DOMAIN s : Key(s[i]) # None}
  IN  IF has = {} THEN None ELSE Key(s[Max(has)])
FirstOf(s, Key(_)) ==
  LET has == {i \in DOMAIN s : Key(s[i]) # None}
  IN  IF has = {} THEN None ELSE Key(s[Min(has)])

\* Called for a resolved thread only, so there is a terminal close.
DeriveCloseOutcome(oldestFirst) ==
  LET t == CHOOSE e \in FindTerminalClose(oldestFirst) : TRUE
  IN  CASE t.data.outcome # None -> t.data.outcome
        [] t.data.outcome = None /\ t.code \in {"connection.recovered", "backend.recovered"}
             -> "recovered"
        [] t.data.outcome = None /\ t.code = "connection.incident_closed"
             -> IF t.data.reason \in {"manual_off", "manual", "abandoned_manual"}
                  THEN "abandoned_manual" ELSE "abandoned_schedule"
        [] OTHER -> LastOf(oldestFirst, LAMBDA e : e.data.outcome)

\* Whether some entry of the thread has one of the codes.
SomeCode(s, codes) == \E i \in DOMAIN s : s[i].code \in codes

DeriveThreadKind(oldestFirst) ==
  LET hint == FirstOf(oldestFirst, LAMBDA e : e.data.hint)
  IN  CASE hint # None -> hint
        [] hint = None /\ (\/ SomeCode(oldestFirst, IncidentOpenCodes)
                           \/ \E i \in DOMAIN oldestFirst :
                                oldestFirst[i].data.kind = "crash") -> "incident"
        [] OTHER -> "group"

DeriveIncidentKind(oldestFirst) ==
  LET said == FirstOf(oldestFirst, LAMBDA e : e.data.kind)
      crash == {"backend.unavailable", "backend.recovering", "backend.recovered"}
      break == {"connection.lost", "connection.recovering", "connection.reconnecting",
                "connection.recovered", "connection.incident_closed",
                "connection.auto_error"}
  IN  CASE said # None -> said
        [] said = None /\ SomeCode(oldestFirst, crash) -> "crash"
        [] said = None /\ ~SomeCode(oldestFirst, crash)
             /\ SomeCode(oldestFirst, break) -> "break"
        [] OTHER -> None

DeriveGroupKind(oldestFirst) ==
  LET said == FirstOf(oldestFirst, LAMBDA e : e.data.groupKind)
  IN  IF said = None THEN "action" ELSE said

BuildThread(corr, group) ==
  LET ordered == SortOldestFirst(group)
      status == DeriveThreadStatus(ordered)
      kind == DeriveThreadKind(ordered)
  IN  [itemKind |-> "thread", uid |-> corr, notifications |-> ordered,
       threadKind |-> kind,
       incidentKind |-> IF kind = "incident" THEN DeriveIncidentKind(ordered) ELSE None,
       groupKind |-> IF kind = "group" THEN DeriveGroupKind(ordered) ELSE None,
       threadStatus |-> status,
       openedAt |-> Head(ordered).ts,
       closes |-> {e.ts : e \in FindTerminalClose(ordered)},
       lastActivityAt |-> Last(ordered).ts,
       closeOutcome |-> IF status = "resolved" THEN DeriveCloseOutcome(ordered) ELSE None]

ToSingle(e) == [itemKind |-> "single", uid |-> e.id, lastActivityAt |-> e.ts, event |-> e]

Corrs(events) == {events[i].corr : i \in DOMAIN events} \ {None}
ThreadOf(events, c) == BuildThread(c, Only(events, LAMBDA e : e.corr = c))

(***************************************************************************)
(* The order of the feed at equal times: a single above a thread, except   *)
(* that a resolved incident rises above it.                                *)
(***************************************************************************)
Rises(t) == t.threadStatus = "resolved" /\ t.threadKind = "incident"
SingleVsThread(a, b) ==
  \/ a.itemKind = "single" /\ b.itemKind = "thread" /\ ~Rises(b)
  \/ b.itemKind = "single" /\ a.itemKind = "thread" /\ Rises(a)

\* Singles and threads, the latest activity first.
ProjectThreads(events) ==
  LET singles == SelectSeq(events, LAMBDA e : e.corr = None)
      threads == SetToSeq(Corrs(events))
      items == [i \in DOMAIN singles |-> ToSingle(singles[i])]
               \o [i \in DOMAIN threads |-> ThreadOf(events, threads[i])]
  IN  StableSort(items, LAMBDA a, b :
        \/ a.lastActivityAt > b.lastActivityAt
        \/ a.lastActivityAt = b.lastActivityAt /\ SingleVsThread(a, b))

(***************************************************************************)
(* What the bus answers about the feed it shows.                           *)
(***************************************************************************)

\* The newest row of a correlation id decides; None when it has no row.
StatusOf(display, corr) ==
  LET rows == {i \in DOMAIN display : display[i].corr = corr}
  IN  IF rows = {} THEN None ELSE ResolveStatus(display[Min(rows)])

GroupKey(e) == IF e.corr = None THEN <<"id", e.id>> ELSE <<"corr", e.corr>>

\* The unread alerts: of each group its newest row, unless it is resolved.
UnreadAlerts(display, readIds) ==
  {display[i] : i \in {j \in DOMAIN display :
      /\ \A k \in 1..(j - 1) : GroupKey(display[k]) # GroupKey(display[j])
      /\ ResolveStatus(display[j]) # "resolved"
      /\ IsAlert(display[j])
      /\ display[j].id \notin readIds}}
=============================================================================
