-------------------------- MODULE NotificationFeed --------------------------
(***************************************************************************)
(* One admin page's notification feed: the host issues atoms and sends     *)
(* them to the page's socket through a bounded channel that drops its      *)
(* oldest entry; the page merges the socket, the backlog it asks for at    *)
(* start, at every open of the socket and at every restored incident, and  *)
(* its own atoms into one ring; it hides the incidents the journal has     *)
(* soft-deleted, and it closes the thread of a lone 500 when a health      *)
(* probe is answered.                                                      *)
(*                                                                         *)
(* An atom is stamped before it is issued, by the host, by a caller or by  *)
(* the clock of the page, so a stamp may be older than those of atoms that *)
(* were issued before; no two stamps are equal, and a stamp stands for the *)
(* atom's id as well.  A 500 that comes while the page shows an outage is  *)
(* not modelled here (see HostOutage); nothing is told of an outage but    *)
(* the page's local row.                                                   *)
(***************************************************************************)
EXTENDS FeedProjection, FiniteSets

CONSTANTS Links,       \* correlation ids of link incidents
          Requests,    \* correlation ids of requests that fail with a 500
          Limit,       \* atoms the page's ring holds
          Channel,     \* events the socket's channel holds
          Backlog,     \* atoms a request for the backlog returns
          Incidents,   \* incidents a request for the journal's returns
          MaxGets,     \* requests under way at once
          Scenes       \* bounds of a behaviour: the correlation ids that take
                       \* part, the incidents the journal begins with, how late
                       \* a stamp may be and how many atoms, drops, reloads,
                       \* changes of the deleted set and marks it has

VARIABLES
  issued,     \* the host's buffer, in the order of issue
  journal,    \* the incidents of the journal, in the order of opening
  gone,       \* those it holds as soft-deleted
  wire,       \* the page's socket: "down", "open" (not yet served), "served"
  queue,      \* the events in the socket's channel
  asks,       \* per request slot: the backlog, <<>>, <<"asked">> or <<"rows", n>>
  hideAsks,   \* per request slot: the deleted set, <<>>, <<"asked">> or <<"rows", S>>
  posts,      \* atoms of the page on their way to the host
  raw,        \* the page's ring, newest first
  readIds, collapse, hidden,
  probing,    \* healthProbeInFlight
  aged,       \* requests whose 500 is older than the adopt window
  outage,     \* outageStart is set
  localId,    \* the id of the local row of an outage, 0 without one
  stamps,     \* the stamps of the atoms there have been
  scene, drops, reloads, hides, marks,   \* the scene and what it used up
  excused,    \* ghost: atoms an overflow, a failed request or the gap before service lost
  heard,      \* ghost: 500s this page took from its socket
  forsaken,   \* ghost: 500s whose probe failed or was answered in an outage
  oks,        \* ghost: the atoms that closed a 500
  crossed     \* ghost: an answer with the deleted set met a change of it

host == <<issued, journal, gone>>
net == <<wire, queue, asks, hideAsks, posts>>
page == <<raw, readIds, collapse, hidden, probing, aged, outage, localId>>
bounds == <<stamps, scene, drops, reloads, hides, marks>>
ghosts == <<excused, heard, forsaken, oks, crossed>>
vars == <<host, net, page, bounds, ghosts>>

Slots == 1..MaxGets
Atom(t, code, severity, status, corr, data) ==
  [id |-> t, ts |-> t, severity |-> severity, status |-> status,
   code |-> code, corr |-> corr, data |-> data]
AtomEvent(a) == [kind |-> "notification", atom |-> a]
HideEvent(c, deleted) == [kind |-> "visibility", corr |-> c, deleted |-> deleted]
Ids(s) == {s[i].id : i \in DOMAIN s}

\* The stamps an atom may get: the next one, or a late one that nobody has.
Top == Max(stamps \cup {0})
Fresh == {t \in (Top - scene.late)..(Top + 2) : t > 0 /\ t \notin stamps \cup {Top + 1}}
Room == Cardinality(stamps) < scene.atoms

\* So many atoms are newer that the ring may hold none as old as this.
Pushed(t) == Cardinality({u \in stamps : u > t}) >= Limit

\* The incidents that an answer of the journal holds, and what it may say is hidden.
Newest == {journal[i] : i \in {j \in DOMAIN journal : Len(journal) - j < Incidents}}
IsHidden(S) == S \subseteq gone /\ gone \cap Newest \subseteq S

\* What the dock shows of a ring.
Display(r, folded) == IF folded THEN CollapsePhaseTicks(r) ELSE r
display == Display(raw, collapse)

Init ==
  /\ scene \in Scenes
  /\ issued = <<>> /\ journal = scene.journal /\ gone = {} /\ wire = "down" /\ queue = <<>>
  /\ asks = [s \in Slots |-> IF s = 1 THEN <<"asked">> ELSE <<>>]
  /\ hideAsks = asks
  /\ posts = {} /\ raw = <<>> /\ readIds = {} /\ collapse = TRUE /\ hidden = {}
  /\ probing = FALSE /\ aged = {} /\ outage = FALSE /\ localId = 0
  /\ stamps = {} /\ drops = 0 /\ reloads = 0 /\ hides = 0 /\ marks = 0
  /\ excused = {} /\ heard = {} /\ forsaken = {} /\ oks = {} /\ crossed = FALSE

(***************************************************************************)
(* The bus.                                                                *)
(***************************************************************************)

\* slice(0, limit)
Ring(s) == SubSeq(s, 1, IF Len(s) < Limit THEN Len(s) ELSE Limit)

\* Mutant: the additions go on top, whatever their time.
AddOnTop(r, a) == IF a.id \in Ids(r) THEN r ELSE Ring(<<a>> \o r)

\* publish: an atom with a known id replaces it, a new one is added; the ring
\* keeps the newest.
Published(r, a) ==
  LET combined == IF a.id \in Ids(r)
                    THEN [i \in DOMAIN r |-> IF r[i].id = a.id THEN a ELSE r[i]]
                    ELSE <<a>> \o r
  IN  Ring(SortNewestFirst(combined))

\* Mutant: the marks follow the rows that are shown.
PrunedByDisplay(r, ids) == ids \cap Ids(Display(r, collapse))

\* A mark lives as long as its atom is in the ring.
PruneReadIds(r, ids) == ids \cap Ids(r)

\* emitDisplay: every change of the ring or of the setting ends with it.
Emit(r, ids) ==
  /\ raw' = r
  /\ readIds' = PruneReadIds(r, ids)

\* Mutant: the open of the socket asks for nothing.
AskNothing == UNCHANGED <<asks, hideAsks>>

\* Mutant: it asks for the backlog only.
AskBacklogOnly ==
  \E s \in Slots : /\ asks[s] = <<>>
                    /\ asks' = [asks EXCEPT ![s] = <<"asked">>]
                    /\ UNCHANGED hideAsks

\* refreshNotifications: the backlog and the deleted set, in one free slot.
RefreshNotifications ==
  \E s \in Slots :
    /\ asks[s] = <<>> /\ hideAsks[s] = <<>>
    /\ \A t \in 1..(s - 1) : asks[t] # <<>> \/ hideAsks[t] # <<>>
    /\ asks' = [asks EXCEPT ![s] = <<"asked">>]
    /\ hideAsks' = [hideAsks EXCEPT ![s] = <<"asked">>]

(***************************************************************************)
(* The host.                                                               *)
(***************************************************************************)

\* The channel of the page's socket takes an event; a full one drops its oldest.
\* Unheard is the event that never comes: the one dropped, or the one sent
\* after the answers and before the host registered the socket.
Send(e) ==
  LET all == Append(queue, e)
      full == Len(all) > Channel
      pending == IF e.kind = "notification" THEN asks ELSE hideAsks
      answered == \A s \in Slots : pending[s] # <<"asked">>
      unheard == CASE wire = "served" /\ full -> {Head(all)}
                   [] wire = "open" /\ answered -> {e}
                   [] OTHER -> {}
  IN  /\ queue' = IF wire # "served" THEN queue ELSE IF full THEN Tail(all) ELSE all
      /\ excused' = excused \cup {d.atom.id : d \in {u \in unheard : u.kind = "notification"}}
      /\ crossed' = (crossed \/ \E d \in unheard : d.kind = "visibility")

\* An atom gets into the buffer and goes out to the page.
Issue(a) == issued' = Append(issued, a) /\ Send(AtomEvent(a))

Of(c) == {i \in DOMAIN issued : issued[i].corr = c}
\* A link incident: lost, ticks of the reconnection, recovered; what is over may be
\* announced again.  Its first atom opens it in the journal.
IssueLink(c) ==
  /\ Room
  /\ \E t \in Fresh :
       LET link == [NoData EXCEPT !.hint = "incident", !.kind = "break"]
       IN  /\ stamps' = stamps \cup {t}
           /\ \/ Issue(Atom(t, "connection.lost", "warning", "active", c, link))
              \/ /\ c \in ToSet(journal)
                 /\ \/ Issue(Atom(t, "connection.reconnecting", "error", "underway", c,
                                  [link EXCEPT !.sender = "auto"]))
                    \/ Issue(Atom(t, "connection.recovered", "ok", "resolved", c,
                                  [link EXCEPT !.outcome = "recovered"]))
  /\ journal' = IF c \in ToSet(journal) THEN journal ELSE Append(journal, c)
  /\ UNCHANGED <<gone, wire, asks, hideAsks, posts, page, scene, drops, reloads, hides, marks,
                 heard, forsaken, oks>>

\* A request fails; no page shows an outage.
IssueFatal(c) ==
  /\ Room /\ ~outage
  /\ Of(c) = {}
  /\ \E t \in Fresh : /\ stamps' = stamps \cup {t}
                      /\ Issue(Atom(t, "ohs.unhandled", "critical", None, c, NoData))
  /\ UNCHANGED <<journal, gone, wire, asks, hideAsks, posts, page, scene, drops, reloads, hides, marks,
                 heard, forsaken, oks>>

\* Someone deletes or restores an incident of the journal.
ChangeGone(c) ==
  /\ c \in ToSet(journal)
  /\ hides < scene.hides
  /\ hides' = hides + 1
  /\ gone' = IF c \in gone THEN gone \ {c} ELSE gone \cup {c}
  /\ Send(HideEvent(c, c \notin gone))
  /\ UNCHANGED <<issued, journal, wire, asks, hideAsks, posts, page, stamps, scene,
                 drops, reloads, marks, heard, forsaken, oks>>

\* The host answers a request for the backlog or for the deleted set: those deleted
\* of the newest incidents.
AnswerBacklog(s) ==
  /\ asks[s] = <<"asked">>
  /\ asks' = [asks EXCEPT ![s] = <<"rows", Len(issued)>>]
  /\ UNCHANGED <<host, wire, queue, hideAsks, posts, page, bounds, ghosts>>
AnswerDeleted(s) ==
  /\ hideAsks[s] = <<"asked">>
  /\ hideAsks' = [hideAsks EXCEPT ![s] = <<"rows", gone \cap Newest>>]
  /\ UNCHANGED <<host, wire, queue, asks, posts, page, bounds, ghosts>>

\* The host takes an atom the page posted: it issues it again under its id.
PostArrives(a) ==
  /\ a \in posts
  /\ posts' = posts \ {a}
  /\ Issue(a)
  /\ UNCHANGED <<journal, gone, wire, asks, hideAsks, page, bounds, heard, forsaken, oks>>
PostFails(a) ==
  /\ a \in posts
  /\ posts' = posts \ {a}
  /\ UNCHANGED <<host, wire, queue, asks, hideAsks, page, bounds, ghosts>>

(***************************************************************************)
(* The page takes answers.                                                 *)
(***************************************************************************)

\* hydrateServerBacklog: the rows one by one, oldest first.
TakeBacklog(s) ==
  /\ asks[s] # <<>> /\ asks[s] # <<"asked">>
  /\ asks' = [asks EXCEPT ![s] = <<>>]
  /\ LET n == asks[s][2]
         rows == SubSeq(issued, IF n > Backlog THEN n - Backlog + 1 ELSE 1, n)
     IN  Emit(FoldLeft(Published, raw, rows), readIds)
  /\ UNCHANGED <<host, wire, queue, hideAsks, posts, collapse, hidden, probing, aged,
                 outage, localId, bounds, ghosts>>

\* syncSoftDeletedCorrs: the answer replaces the set.
TakeDeleted(s) ==
  /\ hideAsks[s] # <<>> /\ hideAsks[s] # <<"asked">>
  /\ hideAsks' = [hideAsks EXCEPT ![s] = <<>>]
  /\ hidden' = hideAsks[s][2]
  /\ crossed' = (crossed \/ ~IsHidden(hideAsks[s][2]))
  /\ UNCHANGED <<host, wire, queue, asks, posts, raw, readIds, collapse, probing, aged,
                 outage, localId, bounds, excused, heard, forsaken, oks>>

\* A request of refreshNotifications fails: it is only logged.
AskFails(s) ==
  /\ \/ /\ asks[s] # <<>>
        /\ asks' = [asks EXCEPT ![s] = <<>>]
        /\ excused' = excused \cup Ids(issued)
        /\ UNCHANGED <<hideAsks, crossed>>
     \/ /\ hideAsks[s] # <<>>
        /\ hideAsks' = [hideAsks EXCEPT ![s] = <<>>]
        /\ crossed' = TRUE
        /\ UNCHANGED <<asks, excused>>
  /\ UNCHANGED <<host, wire, queue, posts, page, bounds, heard, forsaken, oks>>

(***************************************************************************)
(* The page takes the socket's events.                                     *)
(***************************************************************************)

IsFatal(a) == a.code = "ohs.unhandled" /\ a.severity = "critical"

\* onServerNotification, no outage shown with a 500: publish; a 500 is probed,
\* unless a probe is on its way.
TakeAtom ==
  /\ wire = "served" /\ queue # <<>> /\ Head(queue).kind = "notification"
  /\ queue' = Tail(queue)
  /\ LET a == Head(queue).atom
     IN  /\ Emit(Published(raw, a), readIds)
         /\ probing' = (probing \/ IsFatal(a))
         /\ heard' = IF IsFatal(a) THEN heard \cup {a.corr} ELSE heard
  /\ UNCHANGED <<host, wire, asks, hideAsks, posts, collapse, hidden, aged, outage,
                 localId, bounds, excused, forsaken, oks, crossed>>

\* incidentVisibilityChanged: a restored incident asks for the backlog again.
TakeVisibility ==
  /\ wire = "served" /\ queue # <<>> /\ Head(queue).kind = "visibility"
  /\ queue' = Tail(queue)
  /\ LET e == Head(queue)
     IN  IF e.deleted
           THEN hidden' = hidden \cup {e.corr} /\ UNCHANGED <<asks, hideAsks>>
           ELSE hidden' = hidden \ {e.corr} /\ RefreshNotifications
  /\ UNCHANGED <<host, wire, posts, raw, readIds, collapse, probing, aged, outage,
                 localId, bounds, ghosts>>

\* The socket opens: the page catches up.
Open ==
  /\ wire = "down"
  /\ wire' = "open"
  /\ RefreshNotifications
  /\ UNCHANGED <<host, queue, posts, page, bounds, ghosts>>

\* The host registers the socket it accepted: from now on it gets events.
Serve ==
  /\ wire = "open"
  /\ wire' = "served"
  /\ UNCHANGED <<host, queue, asks, hideAsks, posts, page, bounds, ghosts>>

\* The socket is lost with what its channel holds: the page shows its own row,
\* one for the outage.
Drop ==
  /\ wire # "down" /\ drops < scene.drops /\ Room
  /\ drops' = drops + 1
  /\ wire' = "down" /\ queue' = <<>>
  /\ outage' = TRUE
  /\ IF localId # 0
       THEN UNCHANGED <<raw, readIds, localId, stamps>>
       ELSE \E t \in Fresh :
              /\ stamps' = stamps \cup {t}
              /\ localId' = t
              /\ Emit(Published(raw, Atom(t, "host.unreachable", "critical", None, None, NoData)),
                      readIds)
  /\ UNCHANGED <<host, asks, hideAsks, posts, collapse, hidden, probing, aged, scene, reloads,
                 hides, marks, ghosts>>

\* The outage is over: the page takes its own row away.
Settled ==
  /\ outage /\ wire # "down"
  /\ outage' = FALSE /\ localId' = 0
  /\ Emit(Only(raw, LAMBDA e : e.id # localId), readIds)
  /\ UNCHANGED <<host, net, collapse, hidden, probing, aged, bounds, ghosts>>

(***************************************************************************)
(* The probe of a lone 500.                                                *)
(***************************************************************************)

\* The 500s whose thread no ok has closed, within the adopt window.
RecentOrphans ==
  {c \in {display[i].corr : i \in {j \in DOMAIN display : IsFatal(display[j])}} :
     c \notin aged /\ StatusOf(display, c) # "resolved"}

\* Mutant: the ok goes to the last 500 only.
LastOrphan == {c \in RecentOrphans :
                 \A d \in RecentOrphans : ThreadOf(raw, d).openedAt <= ThreadOf(raw, c).openedAt}

\* closeRecentOrphanUnhandledWithHealthOk: the threads the probe's answer closes.
Closing == RecentOrphans

\* An ok under a 500's correlation id, on the page and on its way to the host.
HealthOk(c, t) ==
  Atom(t, "backend.healthcheck.ok", "ok", "resolved", c, [NoData EXCEPT !.sender = "client"])

\* The probe is answered: unless an outage began, every recent 500 is closed.
ProbeOk ==
  /\ probing /\ wire # "down"
  /\ probing' = FALSE
  /\ IF outage
       THEN /\ forsaken' = forsaken \cup RecentOrphans
            /\ UNCHANGED <<raw, readIds, posts, stamps, oks>>
       ELSE \E first \in Fresh :
              LET order == SetToSeq(Closing)
                  made == [i \in DOMAIN order |-> HealthOk(order[i], first + 2 * (i - 1))]
              IN  /\ Ids(made) \cap stamps = {}
                  /\ stamps' = stamps \cup Ids(made) /\ Cardinality(stamps') <= scene.atoms
                  /\ posts' = posts \cup ToSet(made)
                  /\ oks' = oks \cup ToSet(made)
                  /\ Emit(FoldLeft(Published, raw, made), readIds)
                  /\ UNCHANGED forsaken
  /\ UNCHANGED <<host, wire, queue, asks, hideAsks, collapse, hidden, aged, outage,
                 localId, scene, drops, reloads, hides, marks, excused, heard, crossed>>

\* The host does not answer: an outage may follow, nothing probes again.
ProbeFails ==
  /\ probing
  /\ probing' = FALSE
  /\ forsaken' = forsaken \cup RecentOrphans
  /\ UNCHANGED <<host, net, raw, readIds, collapse, hidden, aged, outage, localId, bounds,
                 excused, heard, oks, crossed>>

\* The adopt window of a 500 passes.
Age(c) ==
  /\ c \notin aged /\ Of(c) # {}
  /\ aged' = aged \cup {c}
  /\ UNCHANGED <<host, net, raw, readIds, collapse, hidden, probing, outage, localId,
                 bounds, ghosts>>

(***************************************************************************)
(* The operator at the dock.                                               *)
(***************************************************************************)

MarkRead(id) ==
  /\ id \in Ids(display) \ readIds
  /\ marks < scene.marks /\ marks' = marks + 1
  /\ Emit(raw, readIds \cup {id})
  /\ UNCHANGED <<host, net, collapse, hidden, probing, aged, outage, localId, stamps, scene,
                 drops, reloads, hides, ghosts>>

MarkAllRead ==
  /\ ~(Ids(display) \subseteq readIds)
  /\ marks < scene.marks /\ marks' = marks + 1
  /\ Emit(raw, readIds \cup Ids(display))
  /\ UNCHANGED <<host, net, collapse, hidden, probing, aged, outage, localId, stamps, scene,
                 drops, reloads, hides, ghosts>>

SetCollapsePhaseTicks ==
  /\ marks < scene.marks /\ marks' = marks + 1
  /\ collapse' = ~collapse
  /\ Emit(raw, readIds)
  /\ UNCHANGED <<host, net, hidden, probing, aged, outage, localId, stamps, scene,
                 drops, reloads, hides, ghosts>>

\* The page is loaded again: its memory is gone, the hidden set too.
Reload ==
  /\ reloads < scene.reloads
  /\ reloads' = reloads + 1
  /\ raw' = <<>> /\ readIds' = {} /\ hidden' = {} /\ collapse' = collapse
  /\ probing' = FALSE /\ outage' = FALSE /\ localId' = 0
  /\ wire' = "down" /\ queue' = <<>>
  /\ asks' = [s \in Slots |-> IF s = 1 THEN <<"asked">> ELSE <<>>]
  /\ hideAsks' = asks'
  /\ heard' = {}
  /\ UNCHANGED <<host, posts, aged, stamps, scene, drops, hides, marks, excused, forsaken, oks, crossed>>

Next ==
  \/ \E c \in Links \cap scene.cast : IssueLink(c) \/ ChangeGone(c)
  \/ \E c \in Requests \cap scene.cast : IssueFatal(c) \/ Age(c)
  \/ \E s \in Slots : AnswerBacklog(s) \/ AnswerDeleted(s) \/ TakeBacklog(s)
                      \/ TakeDeleted(s) \/ AskFails(s)
  \/ \E a \in posts : PostArrives(a) \/ PostFails(a)
  \/ TakeAtom \/ TakeVisibility \/ Open \/ Serve \/ Drop \/ Settled
  \/ ProbeOk \/ ProbeFails
  \/ \E id \in Ids(display) : MarkRead(id)
  \/ MarkAllRead \/ SetCollapsePhaseTicks \/ Reload

Spec == Init /\ [][Next]_vars

(***************************************************************************)
(* Properties.                                                             *)
(***************************************************************************)

\* With the socket served, every atom the host issued is on the page or still
\* coming, in the channel or with a backlog, unless the channel or a request
\* lost it or newer atoms pushed it out of the ring or the backlog.
NothingMissed ==
  wire = "served" =>
    \A i \in DOMAIN issued :
      LET a == issued[i]
      IN  \/ a.id \in Ids(raw)
          \/ AtomEvent(a) \in ToSet(queue)
          \/ \E s \in Slots : asks[s] = <<"asked">> \/ (asks[s] # <<>> /\ asks[s][2] >= i)
          \/ a.id \in excused
          \/ Len(issued) - i >= Backlog
          \/ Pushed(a.ts)

\* A 500 that came over the socket is being probed, or an ok closes its thread,
\* whatever their stamps, or its window passed, or its probe failed or was answered
\* within an outage, or so many newer atoms came that the ring may have pushed out
\* the 500 before it came back with a backlog, or its ok.
OrphansAreProbed ==
  \A c \in RecentOrphans \cap heard :
    \/ probing \/ c \in forsaken
    \/ ThreadOf(raw, c).threadStatus = "resolved"
    \/ \E a \in ToSet(raw) : IsFatal(a) /\ a.corr = c /\ Pushed(a.ts)
    \/ \E a \in oks : a.corr = c /\ Pushed(a.ts)

\* The badge of unread alerts counts no alert that a later close of its thread
\* answers, in whatever order and however late its atoms came and whatever ticks
\* are folded; what is announced again after the close may count.
NoAlertUnderClose ==
  \A e \in UnreadAlerts(display, readIds), a \in ToSet(raw) :
    e.corr # None /\ a.corr = e.corr /\ ResolveStatus(a) = "resolved" => a.ts <= e.ts

\* Folding the ticks leaves the threads as they are: status, kinds, close and
\* last activity.
CollapseKeepsThreads ==
  LET folded == CollapsePhaseTicks(raw)
      Kept(t) == <<t.uid, t.threadStatus, t.threadKind, t.incidentKind, t.groupKind,
                   t.closes, t.closeOutcome, t.lastActivityAt>>
  IN  \A c \in Corrs(raw) : Kept(ThreadOf(raw, c)) = Kept(ThreadOf(folded, c))

\* With nothing about deleted incidents on its way, the page hides only incidents the
\* journal deleted, and all of them that an answer of the journal would hold, unless
\* an answer crossed a change.  An incident older than those may be shown again.
HiddenIsTrue ==
  (/\ wire = "served" /\ ~crossed
   /\ \A i \in DOMAIN queue : queue[i].kind # "visibility"
   /\ \A s \in Slots : hideAsks[s] = <<>>)
  => IsHidden(hidden)

\* What was read stays read while its atom is in the ring, but for a reload.
ReadKept == reloads' = reloads => readIds \cap Ids(raw') \subseteq readIds'
ReadStays == [][ReadKept]_vars
=============================================================================
