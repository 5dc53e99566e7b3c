----------------------------- MODULE HostOutage -----------------------------
(***************************************************************************)
(* An outage of the host as the web clients see, survive and report it.    *)
(* OhsStore in every open page notices the lost socket, masks the          *)
(* switches, asks the restarted host to hold its connectors                *)
(* (POST /recovery/hold), waits until the host is stable again and reports *)
(* the interval (POST /recovery/outage); what is still to be reported lies *)
(* in memory and in localStorage, which all pages share.  The host merges  *)
(* the reports of several pages in HostOutageCoordinator and journals one  *)
(* crash per episode in HostOutageConnectionEmitter, which works on the    *)
(* token of the request: when the page's socket is lost, it may stop at    *)
(* any of its calls.                                                       *)
(*                                                                         *)
(* The grace before a drop counts (BACKEND_OUTAGE_GRACE_MS) is 0 in the    *)
(* code, so a drop is announced in the step that sees it.  Timers fire at  *)
(* any moment.  The clock counts the drops that pages have seen.           *)
(***************************************************************************)
EXTENDS Naturals, FiniteSets

CONSTANTS Clients,      \* open pages of the administration
          Troubles,     \* adverse events the environment may produce
          MaxTrouble,   \* bound: pages hit by an adverse event in a behaviour
          MergeWindow   \* reports closer than this belong to one episode

\* unlisted: the connections cannot be listed, or none of them is enabled.
Kinds == {"crash", "cut", "fatal", "reload", "unlisted", "storeFails"}

ASSUME OutageAssumption ==
    /\ IsFiniteSet(Clients)
    /\ Troubles \subseteq Kinds
    /\ MaxTrouble \in Nat
    /\ MergeWindow \in Nat

Never == 0        \* no moment: the clock starts at 1
Nothing == [from |-> Never, to |-> Never]

VARIABLES
    now,      \* the clock
    spent,    \* adverse events so far
    up,       \* the host's process runs
    episode,  \* HostOutageCoordinator._current: OpenedAt
    seed,     \* the report that began it
    partOf,   \* <<t, e>>: the report of t counts in the episode begun by e
    told,     \* episodes whose crash the hub has announced
    active,   \* crash rows in the journal that are open, by their seed
    rows,     \* crash rows that are resolved
    skipped,  \* episodes that the host has given up to write
    displaced,\* outages that a page has forgotten before they were answered
    page,     \* the state of OhsStore in every page
    slot,     \* localStorage: the pending report
    posts     \* POST /recovery/outage in flight

journal == <<told, active, rows, skipped>>
taken == <<seed, partOf>>
host == <<up, episode, taken, journal>>
vars == <<now, spent, host, displaced, page, slot, posts>>

Moments == Nat
\* Where a report is that begins an episode: merged into it, its connections
\* listed, its crash opened.
AtHost == {"merged", "listed", "opened"}
Reports == [from : Moments, to : Moments]
Pages ==
    [sock : {"open", "cut", "closed"},   \* cut: lost, not yet noticed
     had : BOOLEAN,          \* hadConnection: the socket was open once
     phase : {"none", "open", "warning"},
     from : Moments,         \* outageStart
     warned : BOOLEAN,       \* ~outageNeedsWarnBeforeOk
     held : BOOLEAN,         \* outageHeldSignaled
     asking : {"no", "sent", "dead"},   \* outageHoldInFlight, and its request
     retry : BOOLEAN,        \* outageHoldTimer runs
     probes : Nat,           \* GET /connections of armOutageSettle in flight
     settle : BOOLEAN,       \* outageSettleTimer runs
     stale : Nat,            \* settle timers whose handle was overwritten
     cool : BOOLEAN,         \* outageRecoverTimer runs
     single : BOOLEAN,       \* the local "host unreachable" row is shown
     pend : Reports]         \* pendingOutageReport

TypeOK ==
    /\ now \in Nat \ {0} /\ spent \in 0 .. MaxTrouble
    /\ up \in BOOLEAN
    /\ episode \in Moments /\ seed \in Moments
    /\ partOf \subseteq Moments \X Moments
    /\ told \subseteq Moments /\ active \subseteq Moments /\ rows \subseteq Moments
    /\ skipped \subseteq Moments /\ displaced \subseteq Moments
    /\ page \in [Clients -> Pages]
    /\ slot \in Reports
    /\ posts \subseteq [of : Clients, heard : BOOLEAN, report : Reports,
                        stage : {"sent", "dead", "ok"} \cup AtHost]

\* What a page has in memory to report, its requests in flight included.
Memory(c) ==
    ({page[c].from, page[c].pend.from}
        \cup {r.report.from : r \in {q \in posts : q.of = c /\ q.heard}}) \ {Never}
Forgets(c, answered) == displaced' = displaced \cup (Memory(c) \ (Memory(c)' \cup answered))

Fresh == [sock |-> "closed", had |-> FALSE, phase |-> "none", from |-> Never,
          warned |-> TRUE, held |-> FALSE, asking |-> "no", retry |-> FALSE,
          probes |-> 0, settle |-> FALSE, stale |-> 0, cool |-> FALSE,
          single |-> FALSE, pend |-> Nothing]

Init ==
    /\ now = 1 /\ spent = 0
    /\ up = TRUE /\ episode = Never /\ seed = Never /\ partOf = {}
    /\ told = {} /\ active = {} /\ rows = {} /\ skipped = {} /\ displaced = {}
    /\ page = [c \in Clients |-> [Fresh EXCEPT !.sock = "open", !.had = TRUE]]
    /\ slot = Nothing /\ posts = {}

\* A crash cuts every page off and counts once for each.
Cost(kind) == IF kind = "crash" THEN Cardinality(Clients) ELSE 1

Trouble(kind) ==
    /\ kind \in Troubles
    /\ spent + Cost(kind) <= MaxTrouble
    /\ spent' = spent + Cost(kind)

-----------------------------------------------------------------------------
\* The methods of OhsStore, as functions of a page's state.

\* signalHoldRecovery: one request at a time, until one is answered.
SignalHoldRecovery(p) ==
    IF ~p.held /\ p.from # Never /\ p.asking = "no"
      THEN [p EXCEPT !.asking = IF up THEN "sent" ELSE "dead"]
      ELSE p

\* startOutageProgress: the switches are masked, the hold is asked for.
StartOutageProgress(p) ==
    SignalHoldRecovery([p EXCEPT !.phase = "open", !.retry = @ \/ ~p.held])

\* onBackendDrop: the first drop begins an outage and announces it, a drop
\* in the warning phase takes it back, every other one is ignored.
OnBackendDrop(p) ==
    IF p.from = Never
      THEN StartOutageProgress([p EXCEPT !.from = now, !.warned = FALSE,
                                         !.single = TRUE,
                                         !.pend = [from |-> now, to |-> Never]])
    ELSE IF p.phase = "warning"
      THEN StartOutageProgress([p EXCEPT !.settle = FALSE, !.warned = FALSE])
    ELSE p

\* armOutageSettle: the running timer is cleared, a probe is sent.
ArmOutageSettle(p) == [p EXCEPT !.settle = FALSE, !.probes = @ + 1]

\* onBackendReachable while an outage is in memory.
OnBackendReachable(p) ==
    LET q == SignalHoldRecovery([p EXCEPT !.cool = FALSE]) IN
    ArmOutageSettle(IF p.phase = "warning" THEN q
                    ELSE [q EXCEPT !.phase = "warning", !.warned = TRUE])

\* clearOutageTimers and the reset of resolveOutage; the report is queued.
ResolveOutage(p) ==
    [p EXCEPT !.phase = "none", !.from = Never, !.warned = TRUE, !.held = FALSE,
              !.asking = "no", !.retry = FALSE, !.settle = FALSE, !.cool = FALSE,
              !.single = FALSE, !.pend = [from |-> p.from, to |-> now]]

\* The request of reportHostOutageEpisode.
PostOf(c, report) ==
    {[of |-> c, heard |-> TRUE, report |-> report,
      stage |-> IF up THEN "sent" ELSE "dead"]}

\* flushPendingOutageReport: what memory or localStorage still has to report;
\* an open interval is closed now, if the caller allows that.
Pending(p) == IF p.pend # Nothing THEN p.pend ELSE slot
Flush(c, p, closeOpen) ==
    LET due == Pending(p)
        whole == [due EXCEPT !.to = IF @ = Never THEN now ELSE @] IN
    IF due = Nothing \/ (due.to = Never /\ ~closeOpen)
      THEN /\ page' = [page EXCEPT ![c] = [p EXCEPT !.pend = due]]
           /\ UNCHANGED <<slot, posts>>
      ELSE /\ page' = [page EXCEPT ![c] = [p EXCEPT !.pend = whole]]
           /\ slot' = whole
           /\ posts' = posts \cup PostOf(c, whole)

\* setOutagePhase: the switches of the page take no clicks.
Masked(p) == p.phase = "open"

Becomes(c, q) == page' = [page EXCEPT ![c] = q]

-----------------------------------------------------------------------------
\* The environment: the host dies and starts, networks fail, pages reload.

Crash ==
    /\ up
    /\ Trouble("crash")
    /\ up' = FALSE /\ episode' = Never /\ seed' = Never
    /\ page' = [c \in Clients |->
                  [page[c] EXCEPT !.sock = IF @ = "open" THEN "cut" ELSE @,
                                  !.asking = IF @ = "sent" THEN "dead" ELSE @]]
    /\ posts' = {IF r.stage \in {"sent"} \cup AtHost THEN [r EXCEPT !.stage = "dead"]
                 ELSE r : r \in posts}
    /\ UNCHANGED <<now, partOf, journal, displaced, slot>>

Boot ==
    /\ ~up
    /\ up' = TRUE
    /\ UNCHANGED <<now, spent, episode, taken, journal, displaced, page, slot, posts>>

Cut(c) ==
    /\ page[c].sock = "open"
    /\ Trouble("cut")
    /\ page' = [page EXCEPT ![c].sock = "cut"]
    /\ UNCHANGED <<now, host, displaced, slot, posts>>

\* The page is loaded anew: memory is gone, localStorage is not, the requests
\* under way are aborted; start() sends a report that is complete.
Reload(c) ==
    /\ Trouble("reload")
    /\ page' = [page EXCEPT ![c] = [Fresh EXCEPT !.pend = slot]]
    /\ posts' = {IF r.of = c THEN [r EXCEPT !.heard = FALSE] ELSE r : r \in posts}
                  \cup (IF slot.to = Never THEN {} ELSE PostOf(c, slot))
    /\ Forgets(c, {})
    /\ UNCHANGED <<now, host, slot>>

-----------------------------------------------------------------------------
\* A page's socket and timers.

\* closeObserver: the close of a socket that was open once, and of every
\* further attempt that fails.
Drop(c) ==
    LET p == page[c]
        q == OnBackendDrop([p EXCEPT !.sock = "closed"]) IN
    /\ p.had
    /\ p.sock = "cut" \/ (p.sock = "closed" /\ p.phase = "warning")
    /\ Becomes(c, q)
    /\ IF p.from = Never
         THEN now' = now + 1 /\ slot' = q.pend
         ELSE UNCHANGED <<now, slot>>
    /\ UNCHANGED <<spent, host, posts>>
    /\ Forgets(c, {})

\* The backlog is read: a crash in it takes the local row away (D5).
Refreshed(p) == [p EXCEPT !.single = @ /\ told = {}]

\* openObserver: the backlog is read again and the outage moves on.
Reopen(c) ==
    LET p == Refreshed([page[c] EXCEPT !.sock = "open", !.had = TRUE]) IN
    /\ up
    /\ page[c].sock = "closed"
    /\ IF p.from = Never
         THEN Flush(c, p, TRUE)
         ELSE Becomes(c, OnBackendReachable(p)) /\ UNCHANGED <<slot, posts>>
    /\ UNCHANGED <<now, spent, host, displaced>>

HoldTick(c) ==
    LET p == page[c] IN
    /\ p.retry
    /\ Becomes(c, IF p.held \/ p.from = Never THEN [p EXCEPT !.retry = FALSE]
                  ELSE SignalHoldRecovery(p))
    /\ UNCHANGED <<now, spent, host, displaced, slot, posts>>

\* Mutant: the timer is started by the answer and by its end.
ProbeAnsweredTwice(c) ==
    /\ page[c].phase = "warning"
    /\ page' = [page EXCEPT ![c].probes = @ - 1, ![c].settle = TRUE]
    /\ UNCHANGED <<now, spent, host, displaced, slot, posts>>

\* Answered or failed, the probe starts the settle timer; a timer that runs
\* already loses its handle.
ProbeAnswered(c) ==
    /\ page[c].probes > 0
    /\ page' = [page EXCEPT ![c].probes = @ - 1, ![c].settle = TRUE,
                            ![c].stale = IF page[c].settle THEN @ + 1 ELSE @]
    /\ UNCHANGED <<now, spent, host, displaced, slot, posts>>

\* The settle timer ends the outage and sends the report, unless the host
\* has failed again.
SettleFires(c) ==
    /\ page[c].settle \/ page[c].stale > 0
    /\ LET p == IF page[c].settle THEN [page[c] EXCEPT !.settle = FALSE]
                ELSE [page[c] EXCEPT !.stale = @ - 1]
           q == ResolveOutage(p) IN
       IF p.from = Never \/ p.phase # "warning"
         THEN page' = [page EXCEPT ![c] = p] /\ UNCHANGED <<slot, posts>>
       ELSE IF ~p.warned
         THEN Becomes(c, OnBackendReachable(p)) /\ UNCHANGED <<slot, posts>>
         ELSE /\ page' = [page EXCEPT ![c] = q]
              /\ slot' = q.pend
              /\ posts' = posts \cup PostOf(c, q.pend)
    /\ Forgets(c, {})
    /\ UNCHANGED <<now, spent, host>>

\* armOutageRecoveryAfterUnstable: no further 500 within the cool-down.
CoolFires(c) ==
    LET p == [page[c] EXCEPT !.cool = FALSE] IN
    /\ page[c].cool
    /\ Becomes(c, IF p.from = Never \/ p.phase # "open" THEN p
                  ELSE OnBackendReachable(p))
    /\ UNCHANGED <<now, spent, host, displaced, slot, posts>>

\* Mutant: nothing waits for the 500s to end.
FatalWithoutCoolDown(c) ==
    LET p == page[c] IN
    /\ up /\ p.sock = "open" /\ p.phase # "none"
    /\ Trouble("fatal")
    /\ Becomes(c, StartOutageProgress([p EXCEPT !.settle = FALSE, !.warned = FALSE]))
    /\ UNCHANGED <<now, host, displaced, slot, posts>>

\* onServerNotification: an unhandled 500 while the outage is shown takes the
\* page back to the open phase.
Fatal(c) ==
    LET p == page[c] IN
    /\ up /\ p.sock = "open" /\ p.phase # "none"
    /\ Trouble("fatal")
    /\ Becomes(c, [StartOutageProgress([SignalHoldRecovery(p) EXCEPT
                      !.settle = FALSE, !.warned = FALSE]) EXCEPT !.cool = TRUE])
    /\ UNCHANGED <<now, host, displaced, slot, posts>>

-----------------------------------------------------------------------------
\* Requests on their way.

\* POST /recovery/hold and its answer.
HoldOk(c) ==
    /\ up /\ page[c].asking = "sent"
    /\ page' = [page EXCEPT ![c].asking = "no", ![c].held = TRUE, ![c].retry = FALSE]
    /\ UNCHANGED <<now, spent, host, displaced, slot, posts>>

HoldFails(c) ==
    /\ page[c].asking = "dead" \/ (page[c].asking = "sent" /\ page[c].sock # "open")
    /\ page' = [page EXCEPT ![c].asking = "no", ![c].retry = TRUE]
    /\ UNCHANGED <<now, spent, host, displaced, slot, posts>>

\* HostOutageCoordinator.Report: merge into the current episode or begin a
\* new one.  A page always sends both ends of the interval.
Merges(r) ==
    /\ episode # Never
    /\ r.from <= episode + MergeWindow
    /\ episode <= r.from + MergeWindow

\* The reports in the episode that t began, before t was reported again.
Counts(t) == {q[1] : q \in {x \in partOf : x[2] = t}}

PostMerged(r) ==
    /\ up /\ r.stage = "sent"
    /\ episode' = IF ~Merges(r.report) \/ r.report.from < episode THEN r.report.from
                  ELSE episode
    /\ seed' = IF Merges(r.report) THEN seed ELSE r.report.from
    /\ partOf' = partOf \cup {<<t, seed'>> : t \in {r.report.from} \cup Counts(r.report.from)}
    /\ posts' = (posts \ {r}) \cup
                  {[r EXCEPT !.stage = IF Merges(r.report) THEN "ok" ELSE "merged"]}
    /\ UNCHANGED <<now, spent, up, journal, displaced, page, slot>>

Moves(r, stage) == posts' = (posts \ {r}) \cup {[r EXCEPT !.stage = stage]}
GivesUp(r) == skipped' = skipped \cup {r.report.from}

\* A call of the host fails by itself, or for the request's aborted token.
Fails(kind, r) == IF r.heard THEN Trouble(kind) ELSE UNCHANGED spent

\* HostOutageConnectionEmitter.ApplyAsync of a new episode: the connections
\* are listed; without any that is enabled nothing is written ...
PostLists(r) ==
    /\ up /\ r.stage = "merged"
    /\ \/ /\ Moves(r, "listed")
          /\ UNCHANGED <<spent, skipped>>
       \/ /\ Fails("unlisted", r)
          /\ GivesUp(r)
          /\ Moves(r, "ok")
    /\ UNCHANGED <<now, up, episode, taken, told, active, rows, displaced, page, slot>>

\* hub.Ingest: a page that hears of the crash takes its local row away.
Announces(r) ==
    /\ told' = told \cup {r.report.from}
    /\ page' = [c \in Clients |-> [page[c] EXCEPT !.single = @ /\ page[c].sock # "open"]]

\* ... EmitOpen announces the crash and opens its row ...
PostOpens(r) ==
    /\ up /\ r.stage = "listed"
    /\ Announces(r)
    /\ \/ active' = active \cup ({r.report.from} \ rows) /\ UNCHANGED spent
       \/ Fails("storeFails", r) /\ UNCHANGED active
    /\ Moves(r, "opened")
    /\ UNCHANGED <<now, up, episode, taken, rows, skipped, displaced, slot>>

\* Mutant: the outage is announced as over, and its row stays open.
PostForgetsClose(r) ==
    /\ up /\ r.stage = "opened"
    /\ Announces(r)
    /\ Moves(r, "ok")
    /\ UNCHANGED <<now, spent, up, episode, taken, active, rows, skipped, displaced, slot>>

\* ... and EmitClose resolves the row, or inserts it resolved.
PostCloses(r) ==
    /\ up /\ r.stage = "opened"
    /\ Announces(r)
    /\ \/ /\ active' = active \ {r.report.from}
          /\ rows' = rows \cup {r.report.from}
          /\ UNCHANGED <<spent, skipped>>
       \/ /\ Fails("storeFails", r)
          /\ GivesUp(r)
          /\ UNCHANGED <<active, rows>>
    /\ Moves(r, "ok")
    /\ UNCHANGED <<now, up, episode, taken, displaced, slot>>

\* The answer clears the pending report, whichever it is by now.
PostOk(r) ==
    /\ r.stage = "ok"
    /\ posts' = posts \ {r}
    /\ IF r.heard
         THEN /\ slot' = Nothing
              /\ page' = [page EXCEPT ![r.of] = Refreshed([@ EXCEPT !.pend = Nothing])]
         ELSE UNCHANGED <<slot, page>>
    /\ UNCHANGED <<now, spent, host>>
    /\ Forgets(r.of, {r.report.from})

Unheard(r) == r.stage = "dead" \/ page[r.of].sock # "open"

\* The page learns nothing and keeps the report; a request that has reached
\* the host goes on there, aborted.
PostFails(r) ==
    /\ Unheard(r)
    /\ r.stage \in AtHost => r.heard
    /\ posts' = (posts \ {r}) \cup
                  {q \in {[r EXCEPT !.heard = FALSE]} : r.stage \in AtHost}
    /\ page' = IF r.heard THEN [page EXCEPT ![r.of].pend = r.report] ELSE page
    /\ UNCHANGED <<now, spent, host, slot>>
    /\ Forgets(r.of, {})

-----------------------------------------------------------------------------
OfPage(c) ==
    \/ Drop(c) \/ Reopen(c) \/ HoldTick(c)
    \/ ProbeAnswered(c) \/ SettleFires(c) \/ CoolFires(c)
OfRequests ==
    \/ \E c \in Clients : HoldOk(c) \/ HoldFails(c)
    \/ \E r \in posts :
         PostMerged(r) \/ PostLists(r) \/ PostOpens(r) \/ PostCloses(r) \/ PostOk(r) \/ PostFails(r)

Next ==
    \/ Crash \/ Boot
    \/ \E c \in Clients : Cut(c) \/ Reload(c) \/ Fatal(c) \/ OfPage(c)
    \/ OfRequests

Spec == Init /\ [][Next]_vars

\* Timers fire, requests end, sockets reconnect, the host is started again.
Fairness ==
    /\ WF_vars(Boot)
    /\ \A c \in Clients :
         /\ WF_vars(Drop(c)) /\ WF_vars(Reopen(c))
         /\ WF_vars(ProbeAnswered(c)) /\ WF_vars(SettleFires(c)) /\ WF_vars(CoolFires(c))
    /\ WF_vars(OfRequests)

FairSpec == Spec /\ Fairness
-----------------------------------------------------------------------------
\* No page stays in an outage for lack of a timer: while the switches are
\* masked over an open socket the cool-down runs, in the warning phase a
\* probe or a settle timer is under way, and a hold that has not been
\* confirmed is being asked for or will be retried.
NeverStuck ==
    \A c \in Clients : LET p == page[c] IN
        /\ Masked(p) /\ p.sock = "open" => p.cool
        /\ p.phase = "warning" => p.probes > 0 \/ p.settle \/ p.stale > 0
        /\ p.from # Never /\ ~p.held => p.asking # "no" \/ p.retry
        /\ p.phase = "none" <=> p.from = Never

\* Every outage comes to its end.  No page shows it or masks its switches, no
\* report waits in localStorage; every drop that a page saw was counted in an
\* episode that stands in the journal, resolved; and no crash row is left
\* open.  Excused are the episodes that the host gave up (no connection
\* listed, a call that failed or was aborted with its request), the outages
\* that a page forgot before they were answered (it was reloaded while
\* localStorage held another report or none; another outage or a late answer
\* took the report's place in memory), and those that it still has to report
\* because the failure reached it after its socket was back.  A row which the
\* host's death left open stays so if its report is then counted elsewhere.
Waits(t) == \E c \in Clients : t \in Memory(c)
Given(e) == e \in skipped \cup displaced \/ Waits(e)
Journalled(t) == \E q \in partOf : q[1] = t /\ (q[2] \in rows \/ Given(q[2]))
Quiet ==
    /\ \A c \in Clients : page[c].phase = "none" /\ ~page[c].single
    /\ slot = Nothing
    /\ \A t \in 1 .. (now - 1) : Given(t) \/ Journalled(t)
    /\ \A e \in active : Given(e) \/ \E q \in partOf : q[1] = e /\ q[2] # e
Settles == <>[]Quiet
=============================================================================
