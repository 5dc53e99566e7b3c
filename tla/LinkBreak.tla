----------------------------- MODULE LinkBreak -----------------------------
(***************************************************************************)
(* One connection's link break, from the moment the link is lost until it  *)
(* is recovered: ConnectionManager keeps the open break in memory (since,  *)
(* owner, corr), the notification hub keeps the open incident of the same  *)
(* subject, and the journal keeps its row.  Five threads work on them      *)
(* without a common lock:                                                  *)
(*   pump        handles the connector's link states, one at a time;       *)
(*   timer       confirms a Degraded link after DegradedConfirmDelay;      *)
(*   loop        hands the break to the supervisor when TRANSAQ has not    *)
(*               restored the link within the grace T;                     *)
(*   supervisor  adopts, closes and reconnects on every tick;              *)
(*   operator    the connect, disconnect and Auto requests.                *)
(*                                                                         *)
(* One step is the code between two awaits, but for the open break in      *)
(* memory: it is kept in several dictionaries, and each write to one of    *)
(* them is a step.  The hub and the journal appear here as the callers see *)
(* them (modules NotificationHub and IncidentJournal have them in full).   *)
(***************************************************************************)
EXTENDS Naturals, FiniteSets

CONSTANTS Troubles,    \* which adverse events the environment may produce
          Lonely,      \* those that only come as a behaviour's one event
          Races,       \* which of the code's unlocked windows are exercised
          MaxTrouble,  \* bound: adverse events in a behaviour
          MaxAttempts  \* connect attempts before Auto stops (5 in the code)

Kinds == {"degrade", "drop", "connectFails", "storeFails", "restart",
          "window", "operatorOff", "operatorOn"}

\* statement: threads interleave between statements that have no await
\* between them, so also inside an update of the open break;
\* join: the link may be lost while a connect request is still joining;
\* drop: the session may be dropped while the pump handles a state of the
\* link, or while another thread is dropping it.
Windows == {"statement", "join", "drop"}

ASSUME LinkAssumption ==
    /\ Troubles \subseteq Kinds
    /\ Lonely \subseteq Troubles
    /\ Races \subseteq Windows
    /\ MaxTrouble \in Nat \ {0}
    /\ MaxAttempts \in Nat \ {0}

Breaks == 1 .. MaxTrouble     \* correlation ids, in the order they are minted
None == 0                     \* no correlation id
Unknown == MaxTrouble + 1     \* NoteBreakClosed was given no correlation id

Threads == {"pump", "timer", "loop", "supervisor", "operator"}

VARIABLES
    line,     \* the last link state the connector's session has reported
    link,     \* _linkStates
    session,  \* _sessions has the connection
    status,   \* _status: "up" stands for waiting and active
    since,    \* _incidentSince has the connection: a break is open
    owner,    \* _incidentOwner
    corr,     \* _incidentCorr
    recent,   \* _recentBreakClose
    pending,  \* _degradedPending, with a timer running
    loop,     \* _transaqProgress: no entry, entry with a live task, with an ended one
    hub,      \* the hub's open incident of the subject
    minted,   \* the last correlation id the hub opened
    told,     \* told[c]: terminal notifications published for c
    row,      \* row[c]: the journal row of c
    lent,     \* rows whose owner column says transaq
    writing,  \* breaks whose INSERT is still in the background
    auto,     \* AutoEnabled
    desired,  \* the schedule wants a connection now
    fails,    \* _failCounts
    warned,   \* _restoreDeclinedEmitted
    saw,      \* what the tick has read before its first await: "up", "wanted"
    at,       \* at[t]: where thread t is
    mine,     \* mine[t]: the correlation id in t's local variable
    spent     \* adverse events so far

runtime == <<line, link, session, status>>
manager == <<since, owner, corr, recent>>
degraded == <<pending, loop>>
thread == <<hub, minted, told>>
journal == <<row, lent, writing>>
plan == <<auto, desired, fails, warned, saw>>
control == <<at, mine>>
vars == <<runtime, manager, degraded, thread, journal, plan, control, spent>>

States == {"Live", "Degraded", "Down"}    \* Error is handled as Down
IsConnected == status \in {"up", "degraded"}
OpenRows == {c \in Breaks : row[c] = "open"}
Newest(S) == IF S = {} THEN None ELSE CHOOSE c \in S : \A d \in S : d <= c
\* Mutant: the close that has just happened is not remembered.
RecentCloseIgnored(c) == FALSE
RecentClose(c) == recent \in {c, Unknown}

Init ==
    /\ line = "none" /\ link = "none" /\ session = FALSE /\ status = "down"
    /\ since = FALSE /\ owner = "none" /\ corr = None /\ recent = None
    /\ pending = FALSE /\ loop = "none"
    /\ hub = None /\ minted = None /\ told = [c \in Breaks |-> 0]
    /\ row = [c \in Breaks |-> "absent"] /\ lent = {} /\ writing = {}
    /\ auto = TRUE /\ desired = TRUE /\ fails = 0 /\ warned = {} /\ saw = {}
    /\ at = [t \in Threads |-> "idle"] /\ mine = [t \in Threads |-> None]
    /\ spent = 0

Trouble(kind) ==
    /\ kind \in Troubles /\ spent < MaxTrouble
    /\ IF kind \in Lonely THEN spent = 0 /\ spent' = MaxTrouble
       ELSE spent' = spent + 1

Goto(t, pc) == at' = [at EXCEPT ![t] = pc] /\ UNCHANGED mine
GotoWith(t, pc, c) == at' = [at EXCEPT ![t] = pc] /\ mine' = [mine EXCEPT ![t] = c]

-----------------------------------------------------------------------------
(* Fan-out of an open and of a resolve.                                    *)

\* ApplyOpen: the hub opens a new incident, whose row is inserted in the
\* background; a subject already open keeps its id, and its row is ensured.
Opened == IF hub = None THEN minted + 1 ELSE hub
FanOutOpen(lender) ==
    /\ hub' = Opened
    /\ IF hub = None
       THEN /\ minted' = Opened
            /\ writing' = writing \cup {Opened}
            /\ lent' = IF lender = "transaq" THEN lent \cup {Opened} ELSE lent
            /\ UNCHANGED row
       ELSE /\ row' = IF row[hub] = "absent" THEN [row EXCEPT ![hub] = "open"] ELSE row
            /\ UNCHANGED <<minted, writing, lent>>
    /\ UNCHANGED told

\* The hub resolves whatever is open on the subject; nothing open is a no-op.
HubResolve ==
    /\ told' = IF hub = None THEN told ELSE [told EXCEPT ![hub] = @ + 1]
    /\ hub' = None
    /\ UNCHANGED minted

\* Mutant: the journal is not told of the close.
JournalResolveLost(c) == UNCHANGED <<row, spent>>

\* RegisterBreakResolved: a missing row is inserted closed; a store exception
\* is swallowed and leaves the row as it was.
JournalResolve(c) ==
    \/ /\ row' = IF c = None THEN row ELSE [row EXCEPT ![c] = "closed"]
       /\ UNCHANGED spent
    \/ /\ Trouble("storeFails")
       /\ UNCHANGED row

\* RegisterBreakOpen, in the background: ON CONFLICT DO NOTHING.
WriteOpen(c) ==
    /\ c \in writing
    /\ writing' = writing \ {c}
    /\ \/ /\ row' = IF row[c] = "absent" THEN [row EXCEPT ![c] = "open"] ELSE row
          /\ UNCHANGED spent
       \/ Trouble("storeFails") /\ UNCHANGED row
    /\ UNCHANGED <<runtime, manager, degraded, thread, lent, plan, control>>

-----------------------------------------------------------------------------
(* The pump: HandleLinkState.                                              *)

Live ==
    /\ link' = "Live"
    /\ pending' = FALSE
    /\ Goto("pump", "close")
    /\ UNCHANGED <<status, loop, spent>>

Degraded ==
    /\ Trouble("degrade")
    /\ link' = "Degraded"
    /\ status' = "degraded"
    /\ pending' = IF since THEN pending ELSE TRUE
    /\ UNCHANGED <<loop, control>>

\* A pending Degraded is confirmed first; a link that was already down
\* opens nothing.
Down ==
    /\ Trouble("drop")
    /\ link' = "Down"
    /\ pending' = FALSE
    /\ Goto("pump", IF pending /\ ~since THEN "confirm"
                    ELSE IF link = "Down" THEN "idle" ELSE "lost")
    /\ UNCHANGED <<status, loop>>

Joining == {"joining", "joined", "closingJoined", "takeJoined", "takeOwnerJoined", "takeCorrJoined"}

\* A new session reports Live first; the connector never repeats a state.
Receive(s) ==
    /\ session /\ at["pump"] = "idle"
    /\ s # line /\ (line = "none" => s = "Live")
    /\ "join" \in Races \/ s = "Live" \/ \A t \in Threads : at[t] \notin Joining
    /\ line' = s
    /\ CASE s = "Live" -> Live [] s = "Degraded" -> Degraded [] s = "Down" -> Down
    /\ UNCHANGED <<session, manager, thread, journal, plan>>

\* What the pump does last: the status follows the link.
StatusFollows ==
    /\ at["pump"] \in {"up", "down"}
    /\ status' = at["pump"]
    /\ Goto("pump", "idle")
    /\ UNCHANGED <<line, link, session, manager, degraded, thread, journal, plan, spent>>

-----------------------------------------------------------------------------
(* Opening a break.                                                        *)

\* Mutant: the pending Degraded is not taken out when its delay is over.
TimerKeepsPending ==
    /\ at["timer"] = "idle" /\ pending
    /\ Goto("timer", IF link = "Degraded" /\ ~since THEN "confirm" ELSE "idle")
    /\ UNCHANGED <<runtime, manager, degraded, thread, journal, plan, spent>>

\* ConfirmDegradedAfterDelay: the delay is over.
TimerFires ==
    /\ at["timer"] = "idle" /\ pending
    /\ pending' = FALSE
    /\ Goto("timer", IF link = "Degraded" /\ ~since THEN "confirm" ELSE "idle")
    /\ UNCHANGED <<runtime, manager, loop, thread, journal, plan, spent>>

AfterConfirm(t) == IF t = "pump" THEN "lost" ELSE "idle"
\* What runs after t has seen a row adopted or reviewed.
AfterReview(t) == CASE t = "operator" -> "drop" [] t = "pump" -> "down" [] OTHER -> "idle"
\* ReviewHandover looks again unless the supervisor is about to connect.
AfterHandover(t) == IF desired /\ auto THEN AfterReview(t) ELSE "seek"

\* ConfirmDegradedIncident.  Already open: the progress of the owner goes on.
ConfirmKnown(t) ==
    /\ at[t] = "confirm" /\ since
    /\ Goto(t, IF loop # "none" THEN AfterConfirm(t) ELSE IF owner = "none" THEN "lend" ELSE "grace")
    /\ UNCHANGED <<runtime, manager, degraded, thread, journal, plan, spent>>

Lends(t) ==
    /\ at[t] = "lend"
    /\ owner' = "transaq"
    /\ Goto(t, "grace")
    /\ UNCHANGED <<runtime, since, corr, recent, degraded, thread, journal, plan, spent>>

Graces(t) ==
    /\ at[t] = "grace"
    /\ loop' = IF since /\ owner = "transaq" THEN "live" ELSE loop
    /\ Goto(t, AfterConfirm(t))
    /\ UNCHANGED <<runtime, manager, pending, thread, journal, plan, spent>>

\* The hub first; a subject already open is awaited ...
ConfirmOpens(t) ==
    /\ at[t] = "confirm" /\ ~since
    /\ FanOutOpen("transaq")
    /\ GotoWith(t, IF hub = None THEN "remember" ELSE "rememberLate", Opened)
    /\ UNCHANGED <<runtime, manager, degraded, plan, spent>>

\* ... then the memory, unless another thread has put a break there ...
Remembers(t) ==
    /\ at[t] \in {"remember", "rememberLate"}
    /\ since' = TRUE
    /\ IF since THEN GotoWith(t, AfterConfirm(t), None) ELSE Goto(t, "rememberOwner")
    /\ UNCHANGED <<runtime, owner, corr, recent, degraded, thread, journal, plan, spent>>

\* ... its owner, its id and TRANSAQ's grace, one after the other.
RemembersOwner(t) ==
    /\ at[t] = "rememberOwner"
    /\ owner' = "transaq"
    /\ Goto(t, "rememberCorr")
    /\ UNCHANGED <<runtime, since, corr, recent, degraded, thread, journal, plan, spent>>

RemembersCorr(t) ==
    /\ at[t] = "rememberCorr"
    /\ corr' = mine[t]
    /\ Goto(t, "rememberGrace")
    /\ UNCHANGED <<runtime, since, owner, recent, degraded, thread, journal, plan, spent>>

RemembersGrace(t) ==
    /\ at[t] = "rememberGrace"
    /\ loop' = "live"
    /\ GotoWith(t, AfterConfirm(t), None)
    /\ UNCHANGED <<runtime, manager, pending, thread, journal, plan, spent>>

\* OpenLinkLost and EnsureBreakIncidentOnConnectFailure: the memory first ...
TakesSince(t) ==
    /\ at[t] = "lost" /\ ~since
    /\ since' = TRUE
    /\ Goto(t, "open")
    /\ UNCHANGED <<runtime, owner, corr, recent, degraded, thread, journal, plan, spent>>

\* ... then the hub ...
LostOpens(t) ==
    /\ at[t] = "open"
    /\ FanOutOpen("supervisor")
    /\ GotoWith(t, IF hub = None THEN "own" ELSE "ownLate", Opened)
    /\ UNCHANGED <<runtime, manager, degraded, plan, spent>>

\* ... and the supervisor is the owner from the start.
Owns(t) ==
    /\ at[t] \in {"own", "ownLate"}
    /\ owner' = "supervisor"
    /\ Goto(t, "ownCorr")
    /\ UNCHANGED <<runtime, since, corr, recent, degraded, thread, journal, plan, spent>>

OwnsCorr(t) ==
    /\ at[t] = "ownCorr"
    /\ corr' = mine[t]
    /\ loop' = IF t = "pump" THEN "none" ELSE loop
    /\ GotoWith(t, IF t = "pump" THEN AfterHandover(t) ELSE "idle", None)
    /\ UNCHANGED <<runtime, since, owner, recent, pending, thread, journal, plan, spent>>

\* Mutant: a lost link starts a new grace for a break that is known.
LostAgainLends(t) ==
    /\ at[t] = "lost" /\ since
    /\ owner' = IF t = "pump" THEN "transaq" ELSE owner
    /\ loop' = IF t = "pump" THEN "live" ELSE loop
    /\ Goto(t, AfterReview(t))
    /\ UNCHANGED <<runtime, since, corr, recent, pending, thread, journal, plan, spent>>

\* The break is known: a lost link passes it to the supervisor; a failed
\* connect adds nothing.
LostAgain(t) ==
    /\ at[t] = "lost" /\ since
    /\ loop' = IF t = "pump" THEN "none" ELSE loop
    /\ Goto(t, IF t = "pump" THEN "handover" ELSE "idle")
    /\ UNCHANGED <<runtime, manager, pending, thread, journal, plan, spent>>

-----------------------------------------------------------------------------
(* The grace of TRANSAQ and the handover.                                  *)

GraceRuns == since /\ owner = "transaq" /\ link \in {"Degraded", "Down"}

\* RunTransaqRecoverProgress, at t >= T.
GraceOver ==
    /\ loop = "live" /\ at["loop"] = "idle" /\ GraceRuns
    /\ Goto("loop", "handover")
    /\ UNCHANGED <<runtime, manager, degraded, thread, journal, plan, spent>>

\* A tick that finds the break closed, passed on or the link back.
LoopEnds ==
    /\ loop = "live" /\ at["loop"] = "idle" /\ ~GraceRuns
    /\ loop' = "ended"
    /\ UNCHANGED <<runtime, manager, pending, thread, journal, plan, control, spent>>

\* TransferBreakOwnerToSupervisor.  A loop cancelled meanwhile stops at the
\* await that follows; the pump does not disconnect.
HandsOver(t) ==
    /\ at[t] = "handover"
    /\ owner' = "supervisor"
    /\ LET cancelled == t = "loop" /\ loop # "live" IN
       /\ lent' = IF cancelled \/ hub = None \/ row[hub] # "open" THEN lent ELSE lent \ {hub}
       /\ Goto(t, IF cancelled THEN "idle" ELSE IF t = "pump" THEN AfterHandover(t) ELSE "drop")
    /\ loop' = IF t = "loop" /\ loop = "live" THEN "ended" ELSE loop
    /\ UNCHANGED <<runtime, since, corr, recent, pending, thread, row, writing, plan, spent>>

-----------------------------------------------------------------------------
(* Disconnect and Connect.                                                 *)

\* Mutant: the status is left as it was.
DropsQuietly(t) ==
    /\ at[t] \in {"drop", "replace"}
    /\ session' = FALSE
    /\ Goto(t, IF at[t] = "drop" THEN "dropped" ELSE "replaced")
    /\ UNCHANGED <<line, link, status, manager, degraded, thread, journal, plan, spent>>

\* Disconnect shows the connection off and takes the session away ...
Drops(t) ==
    /\ at[t] \in {"drop", "replace"}
    /\ status' = "down"
    /\ session' = FALSE
    /\ Goto(t, IF at[t] = "drop" THEN "dropped" ELSE "replaced")
    /\ UNCHANGED <<line, link, manager, degraded, thread, journal, plan, spent>>

\* ... and after StopAsync, which waits for the pump but not for ever, forgets
\* the state of the link.
Dropped(t) ==
    /\ at[t] \in {"dropped", "replaced"}
    /\ link' = "none"
    /\ Goto(t, IF at[t] = "replaced" THEN "connecting"
               ELSE CASE t = "loop" -> AfterHandover(t)
                      [] t = "supervisor" /\ ~desired -> "review"
                      [] OTHER -> "idle")
    /\ UNCHANGED <<line, session, status, manager, degraded, thread, journal, plan, spent>>

\* Mutant: a session that has lost its link is not replaced.
EntersOnce(t) ==
    /\ at[t] = "enter"
    /\ Goto(t, IF session THEN "connected" ELSE "connecting")
    /\ UNCHANGED <<runtime, manager, degraded, thread, journal, plan, spent>>

\* A session that is up is left as it is, another one is replaced.
Enters(t) ==
    /\ at[t] = "enter"
    /\ Goto(t, IF ~session THEN "connecting" ELSE IF IsConnected THEN "connected" ELSE "replace")
    /\ UNCHANGED <<runtime, manager, degraded, thread, journal, plan, spent>>

\* The session is there before its pump starts.
Connects(t) ==
    /\ at[t] = "connecting"
    /\ session' = TRUE
    /\ line' = "none"
    /\ Goto(t, "joining")
    /\ UNCHANGED <<link, status, manager, degraded, thread, journal, plan, spent>>

Joins(t) ==
    /\ at[t] = "joining"
    /\ status' = "up"
    /\ Goto(t, "joined")
    /\ UNCHANGED <<line, link, session, manager, degraded, thread, journal, plan, spent>>

\* A request that found the break open leaves it to those who opened it.
ConnectFails(t) ==
    /\ at[t] = "connecting"
    /\ Trouble("connectFails")
    /\ fails' = IF t = "supervisor" THEN fails + 1 ELSE fails
    /\ GotoWith(t, IF mine[t] = None THEN "lost" ELSE "idle", None)
    /\ UNCHANGED <<runtime, manager, degraded, thread, journal, auto, desired, warned, saw>>

Connected(t) ==
    /\ at[t] = "connected"
    /\ fails' = IF t = "supervisor" THEN 0 ELSE fails
    /\ GotoWith(t, "idle", None)
    /\ UNCHANGED <<runtime, manager, degraded, thread, journal, auto, desired, warned, saw, spent>>

-----------------------------------------------------------------------------
(* Closing a break.                                                        *)

AfterClose(t) == IF at[t] \in Joining THEN "connected" ELSE IF t = "pump" THEN "up" ELSE "decide"

\* CloseBreak: notes the close, resolves in the hub and waits for the journal.
CloseBegins(t) ==
    /\ at[t] \in {"close", "joined"} /\ since
    /\ recent' = IF corr = None THEN Unknown ELSE corr
    /\ HubResolve
    /\ GotoWith(t, IF at[t] = "close" THEN "closing" ELSE "closingJoined",
                IF corr = None THEN hub ELSE corr)
    /\ UNCHANGED <<runtime, since, owner, corr, degraded, journal, plan, spent>>

\* TryTakeOpenBreak, after the journal: the grace ends ...
CloseEnds(t) ==
    /\ at[t] \in {"closing", "closingJoined"}
    /\ JournalResolve(mine[t])
    /\ loop' = "none"
    /\ GotoWith(t, IF at[t] = "closing" THEN "take" ELSE "takeJoined", None)
    /\ UNCHANGED <<runtime, manager, pending, thread, lent, writing, plan>>

\* ... and the break that is open now is taken away, with its owner and id.
Takes(t) ==
    /\ at[t] \in {"take", "takeJoined"}
    /\ since' = FALSE
    /\ Goto(t, IF ~since THEN AfterClose(t) ELSE IF at[t] = "take" THEN "takeOwner" ELSE "takeOwnerJoined")
    /\ UNCHANGED <<runtime, owner, corr, recent, degraded, thread, journal, plan, spent>>

TakesOwner(t) ==
    /\ at[t] \in {"takeOwner", "takeOwnerJoined"}
    /\ owner' = "none"
    /\ Goto(t, IF at[t] = "takeOwner" THEN "takeCorr" ELSE "takeCorrJoined")
    /\ UNCHANGED <<runtime, since, corr, recent, degraded, thread, journal, plan, spent>>

TakesCorr(t) ==
    /\ at[t] \in {"takeCorr", "takeCorrJoined"}
    /\ corr' = None
    /\ Goto(t, AfterClose(t))
    /\ UNCHANGED <<runtime, since, owner, recent, degraded, thread, journal, plan, spent>>

\* Nothing open in memory: Live still looks for an orphan, in the journal
\* and then in the hub; a connect does not.
NothingOpen(t) ==
    /\ at[t] \in {"close", "joined"} /\ ~since
    /\ LET found == IF OpenRows # {} THEN Newest(OpenRows) ELSE hub IN
       IF at[t] = "joined" \/ found = None
       THEN GotoWith(t, AfterClose(t), None)
       ELSE GotoWith(t, "orphan", found)
    /\ UNCHANGED <<runtime, manager, degraded, thread, journal, plan, spent>>

\* TryResolveOrphanOpenBreak, after the journal answered.
OrphanBegins(t) ==
    /\ at[t] = "orphan"
    /\ IF RecentClose(mine[t])
       THEN /\ GotoWith(t, AfterClose(t), None)
            /\ UNCHANGED <<recent, thread>>
       ELSE /\ recent' = mine[t]
            /\ HubResolve
            /\ Goto(t, "orphanEnd")
    /\ UNCHANGED <<runtime, since, owner, corr, degraded, journal, plan, spent>>

OrphanEnds(t) ==
    /\ at[t] = "orphanEnd"
    /\ JournalResolve(mine[t])
    /\ loop' = "none"
    /\ GotoWith(t, AfterClose(t), None)
    /\ UNCHANGED <<runtime, manager, pending, thread, lent, writing, plan>>

\* RecentBreakCloseTtl: sixty seconds, longer than any close is in flight.
ForgetsClose ==
    /\ recent # None
    /\ \A t \in Threads :
          at[t] \notin {"closing", "closingJoined", "take", "takeJoined", "orphan", "orphanEnd", "adopt", "staleEnd"}
    /\ recent' = None
    /\ UNCHANGED <<runtime, since, owner, corr, degraded, thread, journal, plan, control, spent>>

-----------------------------------------------------------------------------
(* The supervisor's tick: ReconcileOne.                                    *)

\* TryAdoptOpenBreakFromJournal reads the journal when memory has no break.
FindsRow(t, after) ==
    IF since \/ OpenRows = {} THEN Goto(t, after)
    ELSE GotoWith(t, "adopt", Newest(OpenRows))

AfterAdopt(t) == IF t = "supervisor" THEN "ensure" ELSE "review"

Tick ==
    /\ at["supervisor"] = "idle" /\ auto
    /\ saw' = (IF IsConnected THEN {"up"} ELSE {}) \cup (IF desired THEN {"wanted"} ELSE {})
    /\ FindsRow("supervisor", "ensure")
    /\ UNCHANGED <<runtime, manager, degraded, thread, journal, auto, desired, fails, warned, spent>>

Seeks(t) ==
    /\ at[t] = "seek"
    /\ FindsRow(t, "review")
    /\ UNCHANGED <<runtime, manager, degraded, thread, journal, plan, spent>>

\* An open row whose link is Live is stale and closed, otherwise adopted.
AdoptsNothing(t) ==
    /\ at[t] = "adopt"
    /\ RecentClose(mine[t]) \/ (link # "Live" /\ since)
    /\ GotoWith(t, AfterAdopt(t), None)
    /\ UNCHANGED <<runtime, manager, degraded, thread, journal, plan, spent>>

Adopts(t) ==
    /\ at[t] = "adopt" /\ ~RecentClose(mine[t]) /\ link # "Live" /\ ~since
    /\ since' = TRUE
    /\ Goto(t, "adoptOwner")
    /\ UNCHANGED <<runtime, owner, corr, recent, degraded, thread, journal, plan, spent>>

AdoptsOwner(t) ==
    /\ at[t] = "adoptOwner"
    /\ owner' = IF mine[t] \in lent THEN "transaq" ELSE "supervisor"
    /\ Goto(t, "adoptCorr")
    /\ UNCHANGED <<runtime, since, corr, recent, degraded, thread, journal, plan, spent>>

AdoptsCorr(t) ==
    /\ at[t] = "adoptCorr"
    /\ corr' = mine[t]
    /\ Goto(t, "adoptHub")
    /\ UNCHANGED <<runtime, since, owner, recent, degraded, thread, journal, plan, spent>>

\* The hub adopts the incident unless it has one open.
AdoptsHub(t) ==
    /\ at[t] = "adoptHub"
    /\ hub' = IF hub = None THEN mine[t] ELSE hub
    /\ GotoWith(t, AfterAdopt(t), None)
    /\ UNCHANGED <<runtime, manager, degraded, minted, told, journal, plan, spent>>

StaleBegins(t) ==
    /\ at[t] = "adopt" /\ ~RecentClose(mine[t]) /\ link = "Live"
    /\ LET open == IF hub = None THEN mine[t] ELSE hub IN told' = [told EXCEPT ![open] = @ + 1]
    /\ hub' = None
    /\ Goto(t, "staleEnd")
    /\ UNCHANGED <<runtime, manager, degraded, minted, journal, plan, spent>>

StaleEnds(t) ==
    /\ at[t] = "staleEnd"
    /\ JournalResolve(mine[t])
    /\ GotoWith(t, AfterAdopt(t), None)
    /\ UNCHANGED <<runtime, manager, degraded, thread, lent, writing, plan>>

\* Mutant: the state of the link is not looked at.
EnsuresAlways ==
    /\ at["supervisor"] = "ensure"
    /\ Goto("supervisor", "close")
    /\ UNCHANGED <<runtime, manager, degraded, thread, journal, plan, spent>>

\* EnsureBreakClosedIfLive.
Ensures ==
    /\ at["supervisor"] = "ensure"
    /\ Goto("supervisor", IF link = "Live" THEN "close" ELSE "decide")
    /\ UNCHANGED <<runtime, manager, degraded, thread, journal, plan, spent>>

Decides(saved) ==
    /\ at["supervisor"] = "decide"
    /\ fails' = IF saved THEN fails ELSE 0
    /\ saw' = {}
    /\ UNCHANGED <<runtime, manager, degraded, thread, journal, auto, desired, warned, spent>>

\* Out of the schedule's window: no retries, and no connection.
OutOfWindow ==
    /\ "wanted" \notin saw
    /\ Decides(FALSE)
    /\ Goto("supervisor", IF "up" \in saw THEN "drop" ELSE "review")

\* Connected, or TRANSAQ still has its grace: nothing to do before t >= T.
Waits ==
    /\ "wanted" \in saw /\ ("up" \in saw \/ owner = "transaq")
    /\ Decides("up" \notin saw)
    /\ Goto("supervisor", "idle")

\* TickRecovering: the backup of GraceOver.
BackupHandover ==
    /\ "wanted" \in saw /\ GraceRuns
    /\ Decides("up" \notin saw)
    /\ Goto("supervisor", "handover")

\* A tick connects while attempts are left.
Attempts ==
    /\ "wanted" \in saw /\ "up" \notin saw /\ owner # "transaq"
    /\ Decides(TRUE)
    /\ Goto("supervisor", IF fails >= MaxAttempts THEN "idle" ELSE "enter")

-----------------------------------------------------------------------------
(* The operator's turn: MarkAwaitOperator and NotifyOperatorHalt put the   *)
(* reminder into the open thread, for which the hub must know the break.   *)

\* HealOutOfWindowOpenBreaks, whether Auto is on or off.
Heals ==
    /\ at["supervisor"] = "idle" /\ ~desired /\ OpenRows # {}
    /\ Goto("supervisor", "review")
    /\ UNCHANGED <<runtime, manager, degraded, thread, journal, plan, spent>>

Reviews(t) ==
    /\ at[t] = "review"
    /\ LET found == IF corr \in OpenRows THEN corr ELSE Newest(OpenRows) IN
       GotoWith(t, IF found = None THEN AfterReview(t) ELSE "remind", found)
    /\ UNCHANGED <<runtime, manager, degraded, thread, journal, plan, spent>>

OperatorRepairs ==
    mine["operator"] # None
        /\ at["operator"] \in Joining \cup {"enter", "replace", "replaced", "connecting"}

\* Out of the window nothing is said while somebody connects, nor twice.
MayRemind(t) ==
    \/ t = "operator" \/ desired
    \/ ~session /\ ~IsConnected /\ ~OperatorRepairs /\ mine[t] \notin warned

Reminds(t) ==
    /\ at[t] = "remind"
    /\ hub' = IF MayRemind(t) /\ hub = None THEN mine[t] ELSE hub
    /\ warned' = IF t # "operator" /\ ~desired /\ MayRemind(t) THEN warned \cup {mine[t]} ELSE warned
    /\ GotoWith(t, AfterReview(t), None)
    /\ UNCHANGED <<runtime, manager, degraded, minted, told, journal, auto, desired, fails, saw, spent>>

-----------------------------------------------------------------------------
(* The operator, the schedule and the process.                             *)

\* POST connect.
OperatorConnects ==
    /\ at["operator"] = "idle"
    /\ Trouble("operatorOn")
    /\ GotoWith("operator", "enter", IF since THEN corr ELSE None)
    /\ UNCHANGED <<runtime, manager, degraded, thread, journal, plan>>

\* POST disconnect switches Auto off too; the break stays open.
OperatorDisconnects ==
    /\ at["operator"] = "idle"
    /\ Trouble("operatorOff")
    /\ auto' = FALSE
    /\ fails' = MaxAttempts
    /\ Goto("operator", "seek")
    /\ UNCHANGED <<runtime, manager, degraded, thread, journal, desired, warned, saw>>

\* PUT schedule settings: Auto on again.
AutoOn ==
    /\ ~auto /\ at["operator"] = "idle"
    /\ auto' = TRUE
    /\ fails' = 0
    /\ UNCHANGED <<runtime, manager, degraded, thread, journal, desired, warned, saw, control, spent>>

WindowMoves ==
    /\ IF desired THEN Trouble("window") ELSE UNCHANGED spent
    /\ desired' = ~desired
    /\ UNCHANGED <<runtime, manager, degraded, thread, journal, auto, fails, warned, saw, control>>

\* Only the journal and the settings survive a restart.
Restart ==
    /\ Trouble("restart")
    /\ line' = "none" /\ link' = "none" /\ session' = FALSE /\ status' = "down"
    /\ since' = FALSE /\ owner' = "none" /\ corr' = None /\ recent' = None
    /\ pending' = FALSE /\ loop' = "none"
    /\ hub' = None /\ writing' = {} /\ fails' = 0 /\ warned' = {} /\ saw' = {}
    /\ at' = [t \in Threads |-> "idle"] /\ mine' = [t \in Threads |-> None]
    /\ UNCHANGED <<minted, told, row, lent, auto, desired>>

Remembering(t) == Remembers(t) \/ RemembersOwner(t) \/ RemembersCorr(t) \/ RemembersGrace(t)
Confirming(t) == ConfirmKnown(t) \/ Lends(t) \/ Graces(t) \/ ConfirmOpens(t) \/ Remembering(t)
Losing(t) == TakesSince(t) \/ LostOpens(t) \/ Owns(t) \/ OwnsCorr(t) \/ LostAgain(t)
Connecting(t) == Enters(t) \/ Drops(t) \/ Dropped(t) \/ Connects(t) \/ Joins(t) \/ Connected(t)
Taking(t) == Takes(t) \/ TakesOwner(t) \/ TakesCorr(t)
ClosingStep(t) ==
    CloseBegins(t) \/ CloseEnds(t) \/ Taking(t) \/ NothingOpen(t) \/ OrphanBegins(t) \/ OrphanEnds(t)
Seeding(t) == Adopts(t) \/ AdoptsOwner(t) \/ AdoptsCorr(t) \/ AdoptsHub(t)
Adopting(t) == AdoptsNothing(t) \/ Seeding(t) \/ StaleBegins(t) \/ StaleEnds(t)
Reviewing(t) == Seeks(t) \/ Adopting(t) \/ Reviews(t) \/ Reminds(t)

PumpStep ==
    \/ Confirming("pump") \/ Losing("pump") \/ HandsOver("pump") \/ Reviewing("pump")
    \/ ClosingStep("pump") \/ StatusFollows
TimerStep == TimerFires \/ Confirming("timer")
LoopStep == GraceOver \/ LoopEnds \/ HandsOver("loop") \/ Drops("loop") \/ Dropped("loop") \/ Reviewing("loop")
SupervisorStep ==
    \/ Tick \/ Reviewing("supervisor") \/ Ensures \/ ClosingStep("supervisor")
    \/ OutOfWindow \/ Waits \/ BackupHandover \/ Attempts \/ Heals
    \/ HandsOver("supervisor") \/ Connecting("supervisor") \/ Losing("supervisor")
OperatorStep ==
    Reviewing("operator") \/ Connecting("operator") \/ ClosingStep("operator") \/ Losing("operator")
JournalStep == \E c \in Breaks : WriteOpen(c)

Environment ==
    \/ \E s \in States : Receive(s)
    \/ \E t \in {"supervisor", "operator"} : ConnectFails(t)
    \/ ForgetsClose
    \/ OperatorConnects \/ OperatorDisconnects \/ AutoOn \/ WindowMoves \/ Restart

\* Between two writes of one update of the open break: those before the owner
\* is written, and those after.
OwnerDue == {"lend", "rememberOwner", "adoptOwner", "takeOwner", "takeOwnerJoined"}
OwnerDone == {"grace", "rememberCorr", "rememberGrace", "ownCorr", "adoptCorr", "adoptHub",
              "takeCorr", "takeCorrJoined"}

\* Thread t is between two statements with no await between them.
Busy(t) ==
    \/ at[t] \in {"confirm", "remember", "open", "own", "take", "takeJoined"} \cup OwnerDue \cup OwnerDone
    \/ t = "supervisor" /\ at[t] = "close"

Dropping == {"handover", "drop", "dropped", "replace", "replaced"}
Alone(pc) == Cardinality({t \in Threads : pc[t] \in Dropping \/ (t = "pump" /\ pc[t] # "idle")}) <= 1

Next ==
    /\ PumpStep \/ TimerStep \/ LoopStep \/ SupervisorStep \/ OperatorStep \/ JournalStep \/ Environment
    /\ "statement" \in Races \/ \A t \in Threads : Busy(t) => at'[t] # at[t]
    /\ "drop" \in Races \/ Alone(at')

Spec == Init /\ [][Next]_vars

\* Every thread runs on, a new session reports its state, the grace and the
\* sixty seconds pass, and the tick that finds the grace over takes it.
Fairness ==
    /\ WF_vars(PumpStep) /\ WF_vars(TimerStep) /\ WF_vars(LoopStep)
    /\ WF_vars(SupervisorStep) /\ WF_vars(OperatorStep) /\ WF_vars(JournalStep)
    /\ WF_vars(line = "none" /\ Receive("Live"))
    /\ SF_vars(ForgetsClose) /\ SF_vars(BackupHandover)
FairSpec == Spec /\ Fairness

-----------------------------------------------------------------------------
\* The types of the variables.  One trouble opens at most one break, so the
\* correlation ids the hub mints stay within Breaks; the attempts of Auto stay
\* within the limit, save for the one that is under way when it is halted.
TypeOK ==
    /\ line \in States \cup {"none"} /\ link \in States \cup {"none"}
    /\ session \in BOOLEAN /\ status \in {"up", "degraded", "down"}
    /\ since \in BOOLEAN /\ owner \in {"none", "transaq", "supervisor"}
    /\ corr \in Breaks \cup {None} /\ recent \in Breaks \cup {None, Unknown}
    /\ pending \in BOOLEAN /\ loop \in {"none", "live", "ended"}
    /\ hub \in Breaks \cup {None} /\ minted \in Breaks \cup {None}
    /\ told \in [Breaks -> Nat]
    /\ row \in [Breaks -> {"absent", "open", "closed"}]
    /\ lent \subseteq Breaks /\ writing \subseteq Breaks
    /\ auto \in BOOLEAN /\ desired \in BOOLEAN /\ fails \in 0 .. MaxAttempts + 1
    /\ warned \subseteq Breaks /\ saw \subseteq {"up", "wanted"}
    /\ mine \in [Threads -> Breaks \cup {None}]
    /\ spent \in 0 .. MaxTrouble

\* A break is announced as recovered once, although the pump, the supervisor
\* and the operator's connect request may all close it, and although Live and
\* the tick also close what they find open in the journal or the hub
\* (TryResolveOrphanOpenBreak, ResolveStaleOpenBreak, IsRecentBreakClose).
RecoveredOnce == \A c \in Breaks : told[c] <= 1

\* A connection has one open break in the journal at a time: whoever finds the
\* link lost writes into the break that is already open.
OneOpenRow == Cardinality(OpenRows) <= 1

\* A break that was handed to the supervisor is not given back to TRANSAQ
\* while it stays in memory, whichever thread confirms, loses or adopts it
\* again.  A thread that has put the break there, or taken one away, and has
\* not written its owner yet is excused: in the window statement the handover
\* may come between the two writes and is then overwritten; outside of it
\* no other thread moves between them.
OneWay ==
    [][since /\ since' /\ owner = "supervisor" /\ (\A t \in Threads : at[t] \notin OwnerDue)
       => owner' = "supervisor"]_vars

\* Recovery is never announced while the session's last word on the link is
\* that it is lost: CloseIncident follows a Live link or a new session.
RecoveredIsUp == [][\A c \in Breaks : told'[c] > told[c] => line \notin {"Down", "Degraded"}]_vars

Wanted == auto /\ desired /\ fails < MaxAttempts
Settled == session /\ status = "up" /\ ~since /\ hub = None /\ OpenRows = {}

\* When the troubles end and Auto still wants the connection, it comes up and
\* memory, hub and journal agree for good that no break is open.
Converges == <>[]Wanted => <>[]Settled

\* Auto does not leave a connection without a session for ever: the supervisor
\* raises it after a forced disconnect.
Restores == (Wanted /\ ~session) ~> (session \/ ~Wanted)
=============================================================================
