-------------------------- MODULE HostOutage_proofs --------------------------
(***************************************************************************)
(* What holds of every page for every set of pages, every mix and number   *)
(* of adverse events and every merge window: it keeps its type, and it     *)
(* never stays in an outage for lack of a timer.  Each method of OhsStore  *)
(* has a lemma of its own, a page's actions are composed from them.        *)
(***************************************************************************)
EXTENDS HostOutage, FiniteSetTheorems, TLAPS

\* NeverStuck, of one page.
Alive(p) ==
  /\ p.phase = "open" /\ p.sock = "open" => p.cool
  /\ p.phase = "warning" => p.probes > 0 \/ p.settle \/ p.stale > 0
  /\ p.from # Never /\ ~p.held => p.asking # "no" \/ p.retry
  /\ p.phase = "none" <=> p.from = Never
Good(p) == p \in Pages /\ Alive(p)

Posts == [of : Clients, heard : BOOLEAN, report : Reports, 
          stage : {"sent", "dead", "ok"} \cup AtHost]
HostOK ==
  /\ now \in Nat \ {0} /\ spent \in 0 .. MaxTrouble
  /\ up \in BOOLEAN
  /\ episode \in Moments /\ seed \in Moments
  /\ partOf \subseteq Moments \X Moments
  /\ told \subseteq Moments /\ active \subseteq Moments /\ rows \subseteq Moments
  /\ skipped \subseteq Moments
PagesOK == page = [c \in Clients |-> page[c]] /\ \A c \in Clients : Good(page[c])
IInv == HostOK /\ PagesOK /\ slot \in Reports /\ posts \subseteq Posts

-----------------------------------------------------------------------------
LEMMA InvIsBoth == IInv /\ displaced \subseteq Moments <=> TypeOK /\ NeverStuck
  BY DEF IInv, HostOK, PagesOK, Good, Alive, TypeOK, NeverStuck, Posts, Masked

\* A page's step that leaves the other pages alone.
LEMMA OnePage ==
  ASSUME IInv, NEW c \in Clients, NEW q, Good(q), page' = [page EXCEPT ![c] = q],
         HostOK', slot' \in Reports, posts' \subseteq Posts
  PROVE  IInv'
  BY DEF IInv, PagesOK

-----------------------------------------------------------------------------
(***************************************************************************)
(* The methods of OhsStore.                                                *)
(***************************************************************************)
LEMMA Signal ==
  ASSUME TRUE, NEW p \in Pages
  PROVE  LET q == SignalHoldRecovery(p)
         IN  /\ q \in Pages
             /\ q.sock = p.sock /\ q.phase = p.phase /\ q.from = p.from /\ q.held = p.held
             /\ q.retry = p.retry /\ q.probes = p.probes /\ q.settle = p.settle
             /\ q.stale = p.stale /\ q.cool = p.cool /\ q.warned = p.warned
             /\ p.asking # "no" => q.asking # "no"
             /\ p.from # Never /\ ~p.held => q.asking # "no"
  BY DEF Pages, SignalHoldRecovery

LEMMA Start ==
  ASSUME NEW p \in Pages
  PROVE  LET q == StartOutageProgress(p)
         IN  /\ q \in Pages /\ q.phase = "open" /\ q.sock = p.sock /\ q.from = p.from
             /\ q.cool = p.cool /\ q.held = p.held /\ (~p.held => q.retry)
  <1> DEFINE r == [p EXCEPT !.phase = "open", !.retry = @ \/ ~p.held]
  <1>1. /\ r \in Pages /\ r.phase = "open" /\ r.sock = p.sock /\ r.from = p.from
        /\ r.cool = p.cool /\ r.held = p.held /\ (~p.held => r.retry)
    BY DEF Pages
  <1>2. StartOutageProgress(p) = SignalHoldRecovery(r)
    BY DEF StartOutageProgress
  <1> HIDE DEF r
  <1> QED
    BY <1>1, <1>2, Signal

LEMMA Armed ==
  ASSUME NEW p \in Pages
  PROVE  LET q == ArmOutageSettle(p)
         IN  /\ q \in Pages /\ q.from = p.from /\ q.phase = p.phase /\ q.held = p.held
             /\ q.asking = p.asking /\ q.retry = p.retry /\ q.probes > 0
  <1> DEFINE r == [p EXCEPT !.settle = FALSE]
  <1>1. /\ r \in Pages /\ r.from = p.from /\ r.phase = p.phase /\ r.held = p.held
        /\ r.asking = p.asking /\ r.retry = p.retry /\ r.probes \in Nat
    BY DEF Pages
  <1>2. ArmOutageSettle(p) = [r EXCEPT !.probes = r.probes + 1]
    BY DEF ArmOutageSettle, Pages
  <1> HIDE DEF r
  <1> QED
    BY <1>1, <1>2 DEF Pages

\* A page that is told that the host answers again gets a probe, whatever it shows.
LEMMA Reachable ==
  ASSUME NEW p, p \in Pages, p.from # Never,
         ~p.held => p.asking # "no" \/ p.retry
  PROVE  Good(OnBackendReachable(p))
  <1> DEFINE r == [p EXCEPT !.cool = FALSE]
             s == SignalHoldRecovery(r)
             w == [s EXCEPT !.phase = "warning", !.warned = TRUE]
             t == IF p.phase = "warning" THEN s ELSE w
  <1>1. /\ r \in Pages /\ r.from = p.from /\ r.held = p.held /\ r.phase = p.phase
        /\ r.asking = p.asking /\ r.retry = p.retry
    BY DEF Pages
  <1>2. OnBackendReachable(p) = ArmOutageSettle(t)
    BY DEF OnBackendReachable
  <1> HIDE DEF r
  <1>3. /\ s \in Pages /\ s.from = p.from /\ s.held = p.held /\ s.phase = p.phase
        /\ ~s.held => s.asking # "no" \/ s.retry
    BY <1>1, Signal
  <1> HIDE DEF s
  <1>4. /\ w \in Pages /\ w.from = s.from /\ w.phase = "warning" /\ w.held = s.held
        /\ w.asking = s.asking /\ w.retry = s.retry
    BY <1>3 DEF Pages
  <1> HIDE DEF w
  <1>5. /\ t \in Pages /\ t.from = p.from /\ t.phase = "warning"
        /\ ~t.held => t.asking # "no" \/ t.retry
    BY <1>3, <1>4
  <1> HIDE DEF t
  <1> QED
    BY <1>2, <1>5, Armed DEF Good, Alive

LEMMA Dropped ==
  ASSUME now \in Nat \ {0}, NEW p, Good(p), p.sock # "open"
  PROVE  Good(OnBackendDrop(p)) /\ OnBackendDrop(p).pend \in Reports
  <1> DEFINE first == [p EXCEPT !.from = now, !.warned = FALSE, !.single = TRUE,
                                !.pend = [from |-> now, to |-> Never]]
             again == [p EXCEPT !.settle = FALSE, !.warned = FALSE]
  <1>1. first \in Pages /\ first.from # Never /\ first.sock = p.sock
    BY DEF Good, Pages, Reports, Moments, Never
  <1>2. again \in Pages /\ again.from = p.from /\ again.sock = p.sock
    BY DEF Good, Pages
  <1>3. OnBackendDrop(p) = IF p.from = Never THEN StartOutageProgress(first)
                           ELSE IF p.phase = "warning" THEN StartOutageProgress(again) ELSE p
    BY DEF OnBackendDrop
  <1> HIDE DEF first, again
  <1>4. CASE p.from = Never
    BY <1>1, <1>3, <1>4, Start DEF Good, Alive, Pages
  <1>5. CASE p.from # Never /\ p.phase = "warning"
    BY <1>2, <1>3, <1>5, Start DEF Good, Alive, Pages
  <1>6. CASE p.from # Never /\ p.phase # "warning"
    BY <1>3, <1>6 DEF Good, Pages
  <1> QED
    BY <1>4, <1>5, <1>6

LEMMA Resolved ==
  ASSUME now \in Nat \ {0}, NEW p \in Pages
  PROVE  Good(ResolveOutage(p)) /\ ResolveOutage(p).pend \in Reports
  BY DEF ResolveOutage, Good, Alive, Pages, Reports, Moments, Never

LEMMA Sent ==
  ASSUME NEW c \in Clients, NEW report \in Reports, up \in BOOLEAN
  PROVE  PostOf(c, report) \subseteq Posts
  BY DEF PostOf, Posts

\* Reading the backlog touches the local row only, and so does queueing a report.
LEMMA RowOnly ==
  ASSUME NEW p, Good(p), NEW b \in BOOLEAN, NEW r \in Reports
  PROVE  Good([p EXCEPT !.single = b]) /\ Good([p EXCEPT !.pend = r])
  BY DEF Good, Alive, Pages
LEMMA RowGoes ==
  ASSUME NEW p, Good(p)
  PROVE  Good(Refreshed(p)) /\ Good([p EXCEPT !.single = @ /\ p.sock # "open"])
  BY DEF Good, Alive, Pages, Refreshed

LEMMA Flushed ==
  ASSUME IInv, NEW c \in Clients, NEW p, Good(p), NEW closeOpen, Flush(c, p, closeOpen),
         UNCHANGED <<now, spent, host>>
  PROVE  IInv'
  <1> DEFINE due == Pending(p)
             whole == [due EXCEPT !.to = IF @ = Never THEN now ELSE @]
  <1>1. due \in Reports
    BY DEF Pending, IInv, Good, Pages
  <1>2. whole \in Reports
    BY <1>1 DEF Reports, Moments, IInv, HostOK
  <1>3. \/ page' = [page EXCEPT ![c] = [p EXCEPT !.pend = due]] /\ UNCHANGED <<slot, posts>>
        \/ /\ page' = [page EXCEPT ![c] = [p EXCEPT !.pend = whole]]
           /\ slot' = whole
           /\ posts' = posts \cup PostOf(c, whole)
    BY DEF Flush
  <1> HIDE DEF due, whole
  <1>4. slot' \in Reports /\ posts' \subseteq Posts
    BY <1>2, <1>3, Sent DEF IInv, HostOK
  <1>5. HostOK'
    BY DEF IInv, HostOK, host, taken, journal
  <1>6. Good([p EXCEPT !.pend = due]) /\ Good([p EXCEPT !.pend = whole])
    BY <1>1, <1>2, RowOnly
  <1> QED
    BY <1>3, <1>4, <1>5, <1>6, OnePage

-----------------------------------------------------------------------------
(***************************************************************************)
(* The environment.                                                        *)
(***************************************************************************)
LEMMA TroubleOK ==
  ASSUME IInv, NEW kind, Trouble(kind)
  PROVE  spent' \in 0 .. MaxTrouble
  <1>1. Cost(kind) \in Nat
    BY OutageAssumption, FS_CardinalityType DEF Cost
  <1> QED
    BY OutageAssumption, <1>1 DEF IInv, HostOK, Trouble

LEMMA CrashKeeps == ASSUME IInv, Crash PROVE IInv'
  <1>1. spent' \in 0 .. MaxTrouble
    BY TroubleOK DEF Crash
  <1>2. HostOK'
    BY <1>1 DEF Crash, IInv, HostOK, Moments, Never, journal
  <1>3. ASSUME NEW c \in Clients PROVE Good(page'[c])
    <2> DEFINE p == page[c]
               q == [p EXCEPT !.sock = IF @ = "open" THEN "cut" ELSE @,
                              !.asking = IF @ = "sent" THEN "dead" ELSE @]
    <2>1. page'[c] = q
      BY <1>3 DEF Crash
    <2>2. Good(p)
      BY <1>3 DEF IInv, PagesOK
    <2> HIDE DEF p
    <2>3. Good(q)
      BY <2>2 DEF Good, Alive, Pages
    <2> QED
      BY <2>1, <2>3
  <1>4. PagesOK'
    <2>1. page' = [c \in Clients |-> page'[c]]
      BY DEF Crash
    <2> QED
      BY <2>1, <1>3 DEF PagesOK
  <1>5. posts' \subseteq Posts
    BY DEF Crash, IInv, Posts
  <1>6. slot' \in Reports
    BY DEF Crash, IInv
  <1> QED
    BY <1>2, <1>4, <1>5, <1>6 DEF IInv

LEMMA BootKeeps == ASSUME IInv, Boot PROVE IInv'
  BY DEF Boot, IInv, HostOK, PagesOK, taken, journal

LEMMA CutKeeps == ASSUME IInv, NEW c \in Clients, Cut(c) PROVE IInv'
  <1> DEFINE p == page[c]
             q == [p EXCEPT !.sock = "cut"]
  <1>1. Good(p)
    BY DEF IInv, PagesOK
  <1>2. page' = [page EXCEPT ![c] = q] /\ UNCHANGED <<now, host, slot, posts>>
    BY DEF Cut
  <1> HIDE DEF p
  <1>3. Good(q)
    BY <1>1 DEF Good, Alive, Pages
  <1>4. HostOK' /\ slot' \in Reports /\ posts' \subseteq Posts
    BY <1>2, TroubleOK DEF Cut, IInv, HostOK, host, taken, journal
  <1> HIDE DEF q
  <1> QED
    BY <1>2, <1>3, <1>4, OnePage

LEMMA ReloadKeeps == ASSUME IInv, NEW c \in Clients, Reload(c) PROVE IInv'
  <1> DEFINE q == [Fresh EXCEPT !.pend = slot]
  <1>1. page' = [page EXCEPT ![c] = q] /\ UNCHANGED <<now, host, slot>>
    BY DEF Reload
  <1>2. Good(q)
    BY DEF Fresh, Good, Alive, Pages, Nothing, Reports, Moments, Never, IInv
  <1>3. HostOK' /\ slot' \in Reports
    BY <1>1, TroubleOK DEF Reload, IInv, HostOK, host, taken, journal
  <1>4. posts' \subseteq Posts
    <2>1. {IF r.of = c THEN [r EXCEPT !.heard = FALSE] ELSE r : r \in posts} \subseteq Posts
      BY DEF IInv, Posts
    <2>2. slot.to # Never => PostOf(c, slot) \subseteq Posts
      BY Sent DEF IInv, HostOK
    <2> QED
      BY <2>1, <2>2 DEF Reload
  <1> HIDE DEF q
  <1> QED
    BY <1>1, <1>2, <1>3, <1>4, OnePage

-----------------------------------------------------------------------------
(***************************************************************************)
(* A page's socket and timers.                                             *)
(***************************************************************************)
LEMMA HostStands ==
  ASSUME IInv, UNCHANGED <<spent, host>>, now' \in Nat \ {0}
  PROVE  HostOK'
  BY DEF IInv, HostOK, host, taken, journal

LEMMA DropKeeps == ASSUME IInv, NEW c \in Clients, Drop(c) PROVE IInv'
  <1> DEFINE p == page[c]
             closed == [p EXCEPT !.sock = "closed"]
             q == OnBackendDrop(closed)
  <1>1. Good(p) /\ now \in Nat \ {0}
    BY DEF IInv, PagesOK, HostOK
  <1>2. /\ page' = [page EXCEPT ![c] = q]
        /\ (now' = now + 1 /\ slot' = q.pend) \/ UNCHANGED <<now, slot>>
        /\ UNCHANGED <<spent, host, posts>>
    BY DEF Drop, Becomes
  <1> HIDE DEF p
  <1>3. Good(closed) /\ closed.sock # "open"
    BY <1>1 DEF Good, Alive, Pages
  <1> HIDE DEF closed
  <1>4. Good(q) /\ q.pend \in Reports
    BY <1>1, <1>3, Dropped
  <1> HIDE DEF q
  <1>5. HostOK' /\ slot' \in Reports /\ posts' \subseteq Posts
    BY <1>1, <1>2, <1>4, HostStands DEF IInv
  <1> QED
    BY <1>2, <1>4, <1>5, OnePage

LEMMA ReopenKeeps == ASSUME IInv, NEW c \in Clients, Reopen(c) PROVE IInv'
  <1> DEFINE opened == [page[c] EXCEPT !.sock = "open", !.had = TRUE]
             p == Refreshed(opened)
  <1>1. Good(page[c]) /\ page[c].sock = "closed"
    BY DEF IInv, PagesOK, Reopen
  <1>2. IF p.from = Never THEN Flush(c, p, TRUE)
        ELSE page' = [page EXCEPT ![c] = OnBackendReachable(p)] /\ UNCHANGED <<slot, posts>>
    BY DEF Reopen, Becomes
  <1>3. UNCHANGED <<now, spent, host>>
    BY DEF Reopen
  <1>4. /\ opened \in Pages /\ opened.from = page[c].from /\ opened.phase = page[c].phase
        /\ opened.held = page[c].held /\ opened.asking = page[c].asking /\ opened.retry = page[c].retry
        /\ opened.single \in BOOLEAN
    BY <1>1 DEF Good, Pages
  <1> HIDE DEF opened
  <1>5. /\ p \in Pages /\ p.from = opened.from /\ p.phase = opened.phase
        /\ p.held = opened.held /\ p.asking = opened.asking /\ p.retry = opened.retry
    BY <1>4 DEF Refreshed, Pages
  <1> HIDE DEF p
  <1>6. CASE p.from = Never
    <2>1. Good(p)
      BY <1>1, <1>4, <1>5, <1>6 DEF Good, Alive
    <2> QED
      BY <1>2, <1>3, <1>6, <2>1, Flushed
  <1>7. CASE p.from # Never
    <2>1. Good(OnBackendReachable(p))
      BY <1>1, <1>4, <1>5, <1>7, Reachable DEF Good, Alive
    <2>2. HostOK' /\ slot' \in Reports /\ posts' \subseteq Posts
      BY <1>2, <1>3, <1>7, HostStands DEF IInv, HostOK
    <2> QED
      BY <1>2, <1>7, <2>1, <2>2, OnePage
  <1> QED
    BY <1>6, <1>7

LEMMA HoldTickKeeps == ASSUME IInv, NEW c \in Clients, HoldTick(c) PROVE IInv'
  <1> DEFINE p == page[c]
             q == IF p.held \/ p.from = Never THEN [p EXCEPT !.retry = FALSE] ELSE SignalHoldRecovery(p)
  <1>1. Good(p)
    BY DEF IInv, PagesOK
  <1>2. page' = [page EXCEPT ![c] = q] /\ UNCHANGED <<now, spent, host, slot, posts>>
    BY DEF HoldTick, Becomes
  <1> HIDE DEF p
  <1>3. CASE p.held \/ p.from = Never
    <2>1. Good([p EXCEPT !.retry = FALSE])
      BY <1>1, <1>3 DEF Good, Alive, Pages
    <2> QED
      BY <1>2, <1>3, <2>1, OnePage, HostStands DEF IInv, HostOK
  <1>4. CASE ~(p.held \/ p.from = Never)
    <2>1. Good(SignalHoldRecovery(p))
      BY <1>1, <1>4, Signal DEF Good, Alive
    <2> QED
      BY <1>2, <1>4, <2>1, OnePage, HostStands DEF IInv, HostOK
  <1> QED
    BY <1>3, <1>4

LEMMA ProbeKeeps == ASSUME IInv, NEW c \in Clients, ProbeAnswered(c) PROVE IInv'
  <1> DEFINE p == page[c]
             q == [p EXCEPT !.probes = p.probes - 1, !.settle = TRUE,
                            !.stale = IF p.settle THEN p.stale + 1 ELSE p.stale]
  <1>1. Good(p) /\ p.probes > 0
    BY DEF IInv, PagesOK, ProbeAnswered
  <1>2. page' = [page EXCEPT ![c] = q] /\ UNCHANGED <<now, spent, host, slot, posts>>
    BY DEF ProbeAnswered, IInv, PagesOK
  <1> HIDE DEF p
  <1>3. /\ p.probes - 1 \in Nat
        /\ (IF p.settle THEN p.stale + 1 ELSE p.stale) \in Nat
    BY <1>1 DEF Good, Pages
  <1>4. Good(q)
    BY <1>1, <1>3 DEF Good, Alive, Pages
  <1> HIDE DEF q
  <1> QED
    BY <1>2, <1>4, OnePage, HostStands DEF IInv, HostOK

LEMMA CoolKeeps == ASSUME IInv, NEW c \in Clients, CoolFires(c) PROVE IInv'
  <1> DEFINE p == [page[c] EXCEPT !.cool = FALSE]
             q == IF p.from = Never \/ p.phase # "open" THEN p ELSE OnBackendReachable(p)
  <1>1. Good(page[c])
    BY DEF IInv, PagesOK
  <1>2. page' = [page EXCEPT ![c] = q] /\ UNCHANGED <<now, spent, host, slot, posts>>
    BY DEF CoolFires, Becomes
  <1>3. /\ p \in Pages /\ p.from = page[c].from /\ p.phase = page[c].phase /\ p.sock = page[c].sock
        /\ p.held = page[c].held /\ p.asking = page[c].asking /\ p.retry = page[c].retry
        /\ p.probes = page[c].probes /\ p.settle = page[c].settle /\ p.stale = page[c].stale
    BY <1>1 DEF Good, Pages
  <1> HIDE DEF p
  <1>4. Good(q)
    <2>1. CASE p.from = Never \/ p.phase # "open"
      BY <1>1, <1>3, <2>1 DEF Good, Alive
    <2>2. CASE ~(p.from = Never \/ p.phase # "open")
      BY <1>1, <1>3, <2>2, Reachable DEF Good, Alive
    <2> QED
      BY <2>1, <2>2
  <1> HIDE DEF q
  <1> QED
    BY <1>2, <1>4, OnePage, HostStands DEF IInv, HostOK

\* The timer that fires may have been the last one: then the phase is over, or a probe follows.
LEMMA SettleKeeps == ASSUME IInv, NEW c \in Clients, SettleFires(c) PROVE IInv'
  <1> DEFINE p == IF page[c].settle THEN [page[c] EXCEPT !.settle = FALSE]
                  ELSE [page[c] EXCEPT !.stale = @ - 1]
             q == ResolveOutage(p)
  <1>1. Good(page[c]) /\ now \in Nat \ {0}
    BY DEF IInv, PagesOK, HostOK
  <1>2. /\ p \in Pages /\ p.from = page[c].from /\ p.phase = page[c].phase /\ p.sock = page[c].sock
        /\ p.held = page[c].held /\ p.asking = page[c].asking /\ p.retry = page[c].retry
        /\ p.cool = page[c].cool
    <2>1. CASE page[c].settle
      BY <1>1, <2>1 DEF Good, Pages
    <2>2. CASE ~page[c].settle
      <3>1. page[c].stale - 1 \in Nat
        BY <1>1, <2>2 DEF SettleFires, Good, Pages
      <3> QED
        BY <1>1, <2>2, <3>1 DEF Good, Pages
    <2> QED
      BY <2>1, <2>2
  <1>3. UNCHANGED <<now, spent, host>>
    BY DEF SettleFires
  <1>4. IF p.from = Never \/ p.phase # "warning"
          THEN page' = [page EXCEPT ![c] = p] /\ UNCHANGED <<slot, posts>>
        ELSE IF ~p.warned
          THEN page' = [page EXCEPT ![c] = OnBackendReachable(p)] /\ UNCHANGED <<slot, posts>>
        ELSE /\ page' = [page EXCEPT ![c] = q]
             /\ slot' = q.pend
             /\ posts' = posts \cup PostOf(c, q.pend)
    BY DEF SettleFires, Becomes
  <1>5. HostOK'
    BY <1>1, <1>3, HostStands
  <1>6. Good(q) /\ q.pend \in Reports
    BY <1>1, <1>2, Resolved
  <1> HIDE DEF p, q
  <1>7. CASE p.from = Never \/ p.phase # "warning"
    <2>1. Good(p)
      BY <1>1, <1>2, <1>7 DEF Good, Alive
    <2> QED
      BY <1>4, <1>5, <1>7, <2>1, OnePage DEF IInv
  <1>8. CASE p.from # Never /\ p.phase = "warning" /\ ~p.warned
    <2>1. Good(OnBackendReachable(p))
      BY <1>1, <1>2, <1>8, Reachable DEF Good, Alive
    <2> QED
      BY <1>4, <1>5, <1>8, <2>1, OnePage DEF IInv
  <1>9. CASE p.from # Never /\ p.phase = "warning" /\ p.warned
    <2>1. slot' \in Reports /\ posts' \subseteq Posts
      BY <1>4, <1>6, <1>9, Sent DEF IInv, HostOK
    <2> QED
      BY <1>4, <1>5, <1>6, <1>9, <2>1, OnePage
  <1> QED
    BY <1>7, <1>8, <1>9

LEMMA FatalKeeps == ASSUME IInv, NEW c \in Clients, Fatal(c) PROVE IInv'
  <1> DEFINE p == page[c]
             asked == SignalHoldRecovery(p)
             begun == [asked EXCEPT !.settle = FALSE, !.warned = FALSE]
             started == StartOutageProgress(begun)
             q == [started EXCEPT !.cool = TRUE]
  <1>1. Good(p) /\ p.from # Never
    BY DEF IInv, PagesOK, Good, Alive, Fatal
  <1>2. page' = [page EXCEPT ![c] = q] /\ UNCHANGED <<now, host, slot, posts>>
    BY DEF Fatal, Becomes
  <1>3. HostOK'
    BY TroubleOK DEF Fatal, IInv, HostOK, host, taken, journal
  <1>4. asked \in Pages /\ asked.from = p.from
    BY <1>1, Signal DEF Good
  <1> HIDE DEF asked
  <1>5. begun \in Pages /\ begun.from = p.from
    BY <1>4 DEF Pages
  <1> HIDE DEF begun
  <1>6. /\ started \in Pages /\ started.phase = "open" /\ started.from = p.from
        /\ ~started.held => started.retry
    BY <1>5, Start
  <1> HIDE DEF started
  <1>7. Good(q)
    BY <1>1, <1>6 DEF Good, Alive, Pages
  <1> HIDE DEF q
  <1> QED
    BY <1>2, <1>3, <1>7, OnePage DEF IInv

-----------------------------------------------------------------------------
(***************************************************************************)
(* Requests on their way.                                                  *)
(***************************************************************************)
LEMMA HoldKeeps == ASSUME IInv, NEW c \in Clients, HoldOk(c) \/ HoldFails(c) PROVE IInv'
  <1> DEFINE p == page[c]
             ok == [p EXCEPT !.asking = "no", !.held = TRUE, !.retry = FALSE]
             again == [p EXCEPT !.asking = "no", !.retry = TRUE]
  <1>1. Good(p)
    BY DEF IInv, PagesOK
  <1>2. /\ page' = [page EXCEPT ![c] = ok] \/ page' = [page EXCEPT ![c] = again]
        /\ UNCHANGED <<now, spent, host, slot, posts>>
    BY DEF HoldOk, HoldFails
  <1> HIDE DEF p
  <1>3. Good(ok)
    BY <1>1 DEF Good, Alive, Pages
  <1>4. Good(again)
    BY <1>1 DEF Good, Alive, Pages
  <1> HIDE DEF ok, again
  <1> QED
    BY <1>2, <1>3, <1>4, OnePage, HostStands DEF IInv, HostOK

LEMMA PostMergedKeeps == ASSUME IInv, NEW r \in posts, PostMerged(r) PROVE IInv'
  <1>1. r \in Posts /\ r.report.from \in Nat
    BY DEF IInv, Posts, Reports, Moments
  <1>2. HostOK'
    <2>1. episode' \in Nat /\ seed' \in Nat
      BY <1>1 DEF PostMerged, IInv, HostOK, Moments
    <2>2. Counts(r.report.from) \subseteq Nat
      BY DEF Counts, IInv, HostOK, Moments
    <2>3. partOf' \subseteq Nat \X Nat
      BY <1>1, <2>1, <2>2 DEF PostMerged, IInv, HostOK, Moments
    <2> QED
      BY <2>1, <2>3 DEF PostMerged, IInv, HostOK, Moments, journal
  <1>3. \A stage \in {"ok", "merged"} : [r EXCEPT !.stage = stage] \in Posts
    BY <1>1 DEF Posts, AtHost
  <1>4. posts' \subseteq Posts
    BY <1>3 DEF PostMerged, IInv
  <1> QED
    BY <1>2, <1>4 DEF PostMerged, IInv, PagesOK

\* Where a request stands at the host is no concern of a page.
LEMMA Moved ==
  ASSUME IInv, NEW r \in posts, NEW stage \in {"ok"} \cup AtHost, Moves(r, stage)
  PROVE  posts' \subseteq Posts /\ r.report.from \in Moments
  <1>1. r \in Posts
    BY DEF IInv
  <1>2. [r EXCEPT !.stage = stage] \in Posts
    BY <1>1 DEF Posts
  <1> QED
    BY <1>1, <1>2 DEF Moves, IInv, Posts, Reports

LEMMA FailsOK ==
  ASSUME IInv, NEW kind, NEW r, Fails(kind, r)
  PROVE  spent' \in 0 .. MaxTrouble
  BY TroubleOK DEF Fails, IInv, HostOK

LEMMA AnnouncedKeeps ==
  ASSUME IInv, NEW r, r.report.from \in Moments, Announces(r)
  PROVE  told' \subseteq Moments /\ PagesOK'
  <1>1. told' \subseteq Moments
    BY DEF Announces, IInv, HostOK
  <1>2. ASSUME NEW c \in Clients PROVE Good(page'[c])
    <2> DEFINE p == page[c]
    <2>1. page'[c] = [p EXCEPT !.single = @ /\ p.sock # "open"]
      BY <1>2 DEF Announces
    <2>2. Good(p)
      BY <1>2 DEF IInv, PagesOK
    <2> HIDE DEF p
    <2>3. Good([p EXCEPT !.single = @ /\ p.sock # "open"])
      BY <2>2, RowGoes
    <2> QED
      BY <2>1, <2>3
  <1>3. page' = [c \in Clients |-> page'[c]]
    BY DEF Announces
  <1> QED
    BY <1>1, <1>2, <1>3 DEF PagesOK

LEMMA PostListsKeeps == ASSUME IInv, NEW r \in posts, PostLists(r) PROVE IInv'
  <1>1. posts' \subseteq Posts /\ r.report.from \in Moments
    BY Moved DEF PostLists, AtHost
  <1>2. spent' \in 0 .. MaxTrouble
    BY FailsOK DEF PostLists, IInv, HostOK
  <1>3. skipped' \subseteq Moments
    BY <1>1 DEF PostLists, GivesUp, IInv, HostOK
  <1> QED
    BY <1>1, <1>2, <1>3 DEF PostLists, IInv, HostOK, PagesOK, taken

LEMMA PostOpensKeeps == ASSUME IInv, NEW r \in posts, PostOpens(r) PROVE IInv'
  <1>1. posts' \subseteq Posts /\ r.report.from \in Moments
    BY Moved DEF PostOpens, AtHost
  <1>2. spent' \in 0 .. MaxTrouble
    BY FailsOK DEF PostOpens, IInv, HostOK
  <1>3. active' \subseteq Moments
    BY <1>1 DEF PostOpens, IInv, HostOK
  <1>4. told' \subseteq Moments /\ PagesOK'
    BY <1>1, AnnouncedKeeps DEF PostOpens
  <1> QED
    BY <1>1, <1>2, <1>3, <1>4 DEF PostOpens, IInv, HostOK, taken

LEMMA PostClosesKeeps == ASSUME IInv, NEW r \in posts, PostCloses(r) PROVE IInv'
  <1>1. posts' \subseteq Posts /\ r.report.from \in Moments
    BY Moved DEF PostCloses, AtHost
  <1>2. spent' \in 0 .. MaxTrouble
    BY FailsOK DEF PostCloses, IInv, HostOK
  <1>3. active' \subseteq Moments /\ rows' \subseteq Moments /\ skipped' \subseteq Moments
    BY <1>1 DEF PostCloses, GivesUp, IInv, HostOK
  <1>4. told' \subseteq Moments /\ PagesOK'
    BY <1>1, AnnouncedKeeps DEF PostCloses
  <1> QED
    BY <1>1, <1>2, <1>3, <1>4 DEF PostCloses, IInv, HostOK, taken

LEMMA PostEndKeeps == ASSUME IInv, NEW r \in posts, PostOk(r) \/ PostFails(r) PROVE IInv'
  <1>1. r \in Posts /\ r.of \in Clients /\ r.report \in Reports
    BY DEF IInv, Posts
  <1>2. UNCHANGED <<now, spent, host>>
    BY DEF PostOk, PostFails
  <1>3. HostOK'
    BY <1>2, HostStands DEF IInv, HostOK
  <1> DEFINE p == page[r.of]
             cleared == [p EXCEPT !.pend = Nothing]
  <1>4. Good(p) /\ page = [c \in Clients |-> page[c]]
    BY <1>1 DEF IInv, PagesOK
  <1>5. CASE PostOk(r)
    <2>1. posts' \subseteq Posts /\ slot' \in Reports
      BY <1>5 DEF PostOk, IInv, Nothing, Reports, Moments, Never
    <2>2. CASE r.heard
      <3>1. page' = [page EXCEPT ![r.of] = Refreshed(cleared)]
        BY <1>1, <1>4, <1>5, <2>2 DEF PostOk
      <3> HIDE DEF p
      <3>2. Good(cleared)
        BY <1>4, RowOnly DEF Nothing, Reports, Moments, Never
      <3> HIDE DEF cleared
      <3>3. Good(Refreshed(cleared))
        BY <3>2, RowGoes
      <3> QED
        BY <1>1, <1>3, <2>1, <3>1, <3>3, OnePage
    <2>3. CASE ~r.heard
      BY <1>3, <1>5, <2>1, <2>3 DEF PostOk, IInv, PagesOK
    <2> QED
      BY <2>2, <2>3
  <1>6. CASE PostFails(r)
    <2>1. posts' \subseteq Posts /\ slot' \in Reports
      <3>1. [r EXCEPT !.heard = FALSE] \in Posts
        BY <1>1 DEF Posts
      <3> QED
        BY <1>6, <3>1 DEF PostFails, IInv
    <2>2. CASE r.heard
      <3>1. page' = [page EXCEPT ![r.of] = [p EXCEPT !.pend = r.report]]
        BY <1>1, <1>4, <1>6, <2>2 DEF PostFails
      <3> HIDE DEF p
      <3>2. Good([p EXCEPT !.pend = r.report])
        BY <1>1, <1>4, RowOnly
      <3> QED
        BY <1>1, <1>3, <2>1, <3>1, <3>2, OnePage
    <2>3. CASE ~r.heard
      BY <1>3, <1>6, <2>1, <2>3 DEF PostFails, IInv, PagesOK
    <2> QED
      BY <2>2, <2>3
  <1> QED
    BY <1>5, <1>6

-----------------------------------------------------------------------------
(***************************************************************************)
(* What pages have forgotten is what they had in memory.                   *)
(***************************************************************************)
LEMMA MemoryTyped ==
  ASSUME IInv, NEW c \in Clients
  PROVE  Memory(c) \subseteq Moments
  <1>1. page[c].from \in Moments /\ page[c].pend.from \in Moments
    BY DEF IInv, PagesOK, Good, Pages, Reports
  <1>2. \A r \in posts : r.report.from \in Moments
    BY DEF IInv, Posts, Reports
  <1> QED
    BY <1>1, <1>2 DEF Memory

LEMMA ForgottenTyped ==
  ASSUME IInv, displaced \subseteq Moments, [Next]_vars
  PROVE  displaced' \subseteq Moments
  <1>1. ASSUME NEW c \in Clients, NEW answered, Forgets(c, answered)
        PROVE  displaced' \subseteq Moments
    BY <1>1, MemoryTyped DEF Forgets
  <1>2. \A r \in posts : r.of \in Clients
    BY DEF IInv, Posts
  <1>3. CASE Crash \/ Boot
    BY <1>3 DEF Crash, Boot
  <1>4. ASSUME NEW c \in Clients, Cut(c) \/ Reload(c) \/ Fatal(c) \/ OfPage(c)
        PROVE  displaced' \subseteq Moments
    BY <1>1, <1>4 DEF Cut, Reload, Fatal, OfPage, Drop, Reopen, HoldTick, ProbeAnswered,
       SettleFires, CoolFires
  <1>5. CASE \E c \in Clients : HoldOk(c) \/ HoldFails(c)
    BY <1>5 DEF HoldOk, HoldFails
  <1>6. ASSUME NEW r \in posts,
               \/ PostMerged(r) \/ PostLists(r) \/ PostOpens(r) \/ PostCloses(r)
               \/ PostOk(r) \/ PostFails(r)
        PROVE  displaced' \subseteq Moments
    BY <1>1, <1>2, <1>6 DEF PostMerged, PostLists, PostOpens, PostCloses, PostOk, PostFails
  <1>7. CASE UNCHANGED vars
    BY <1>7 DEF vars
  <1> QED
    BY <1>3, <1>4, <1>5, <1>6, <1>7 DEF Next, OfRequests

-----------------------------------------------------------------------------
\* For every finite set of pages and all adverse events, the shape of the host, of the
\* pages and of the reports is kept, and with it that a page in an outage goes on.
THEOREM OutageInvariant == Spec => [](IInv /\ displaced \subseteq Moments)
  <1>1. Init => IInv /\ displaced \subseteq Moments
    <2> SUFFICES ASSUME Init PROVE IInv /\ displaced \subseteq Moments
      OBVIOUS
    <2>1. Good([Fresh EXCEPT !.sock = "open", !.had = TRUE])
      BY DEF Fresh, Good, Alive, Pages, Nothing, Reports, Moments, Never
    <2>2. PagesOK
      BY <2>1 DEF Init, PagesOK
    <2>3. HostOK /\ slot \in Reports /\ posts \subseteq Posts
      BY OutageAssumption DEF Init, HostOK, Nothing, Reports, Moments, Never
    <2> QED
      BY <2>2, <2>3 DEF IInv, Init
  <1>2. IInv /\ [Next]_vars => IInv'
    <2> SUFFICES ASSUME IInv, [Next]_vars PROVE IInv'
      OBVIOUS
    <2>1. CASE Crash \/ Boot
      BY <2>1, CrashKeeps, BootKeeps
    <2>2. CASE \E c \in Clients : Cut(c) \/ Reload(c) \/ Fatal(c) \/ OfPage(c)
      BY <2>2, CutKeeps, ReloadKeeps, FatalKeeps, DropKeeps, ReopenKeeps, HoldTickKeeps,
         ProbeKeeps, SettleKeeps, CoolKeeps DEF OfPage
    <2>3. CASE OfRequests
      BY <2>3, HoldKeeps, PostMergedKeeps, PostListsKeeps, PostOpensKeeps, PostClosesKeeps,
         PostEndKeeps DEF OfRequests
    <2>4. CASE UNCHANGED vars
      BY <2>4 DEF vars, host, taken, journal, IInv, HostOK, PagesOK
    <2> QED
      BY <2>1, <2>2, <2>3, <2>4 DEF Next
  <1>3. IInv /\ displaced \subseteq Moments /\ [Next]_vars => (displaced \subseteq Moments)'
    BY ForgottenTyped
  <1> QED
    BY <1>1, <1>2, <1>3, PTL DEF Spec

\* Every variable of the outage keeps its type.
THEOREM OutageTyped == Spec => []TypeOK
  BY OutageInvariant, InvIsBoth, PTL

\* No page stays masked or warned for lack of a timer, probe or request of OhsStore,
\* however drops, 500s, restarts, reloads and late answers of several pages interleave.
THEOREM OutageGoesOn == Spec => []NeverStuck
  BY OutageInvariant, InvIsBoth, PTL
=============================================================================
