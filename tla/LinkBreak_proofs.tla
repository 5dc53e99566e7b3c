-------------------------- MODULE LinkBreak_proofs --------------------------
(***************************************************************************)
(* What holds of a link break for every bound, every set of troubles and   *)
(* in every window of the code, preemption inside an update included.      *)
(* First, the owner of the break in memory only moves from TRANSAQ to the  *)
(* supervisor, but for a write that was due when the break was handed      *)
(* over.  That needs no invariant: each step leaves the owner alone, makes *)
(* the supervisor the owner, or is the write of the owner that its thread  *)
(* owes (RemembersOwner, AdoptsOwner, Lends, TakesOwner), which is what    *)
(* OneWay excuses.  Second, one trouble opens at most one break and Auto   *)
(* counts no more attempts than it may, for which the invariant IInv       *)
(* counts the licences of the threads.                                     *)
(***************************************************************************)
EXTENDS LinkBreak, WellFoundedInduction, TLAPS

\* One step of OneWay.
Kept == since /\ since' /\ owner = "supervisor" /\ (\A t \in Threads : at[t] \notin OwnerDue)
        => owner' = "supervisor"

LEMMA MemoryKept == UNCHANGED manager => Kept
  BY DEF manager, Kept

\* A step that leaves the owner alone.
LEMMA OwnerKept == owner' = owner => Kept
  BY DEF Kept

\* A step that writes an owner which was due.
LEMMA DueKept == ASSUME NEW t \in Threads, at[t] \in OwnerDue PROVE Kept
  BY DEF Kept

LEMMA ConfirmingKeeps ==
  ASSUME NEW t \in Threads, Confirming(t) PROVE Kept
  <1>1. CASE ConfirmKnown(t) \/ Graces(t) \/ ConfirmOpens(t)
    BY <1>1, MemoryKept DEF ConfirmKnown, Graces, ConfirmOpens
  <1>2. CASE Remembers(t) \/ RemembersCorr(t) \/ RemembersGrace(t)
    BY <1>2, OwnerKept, MemoryKept DEF Remembers, RemembersCorr, RemembersGrace
  <1>3. CASE Lends(t) \/ RemembersOwner(t)
    BY <1>3, DueKept DEF Lends, RemembersOwner, OwnerDue
  <1> QED
    BY <1>1, <1>2, <1>3 DEF Confirming, Remembering

LEMMA LosingKeeps ==
  ASSUME NEW t \in Threads, Losing(t) PROVE Kept
  <1>1. CASE TakesSince(t) \/ OwnsCorr(t)
    BY <1>1, OwnerKept DEF TakesSince, OwnsCorr
  <1>2. CASE LostOpens(t)
    BY <1>2, MemoryKept DEF LostOpens
  <1>3. CASE Owns(t)
    BY <1>3 DEF Owns, Kept
  <1>4. CASE LostAgain(t)
    BY <1>4, MemoryKept DEF LostAgain
  <1> QED
    BY <1>1, <1>2, <1>3, <1>4 DEF Losing

LEMMA HandsOverKeeps ==
  ASSUME NEW t \in Threads, HandsOver(t) PROVE Kept
  BY DEF HandsOver, Kept

LEMMA ConnectingKeeps ==
  ASSUME NEW t \in Threads, Connecting(t) PROVE Kept
  BY MemoryKept DEF Connecting, Enters, Drops, Dropped, Connects, Joins, Connected

\* A close announces and resolves first; memory loses the break afterwards,
\* its owner next to last.
LEMMA ClosingKeeps ==
  ASSUME NEW t \in Threads, ClosingStep(t) PROVE Kept
  <1>1. CASE CloseBegins(t) \/ Takes(t) \/ TakesCorr(t)
    BY <1>1, OwnerKept DEF CloseBegins, Takes, TakesCorr
  <1>2. CASE CloseEnds(t)
    BY <1>2, MemoryKept DEF CloseEnds
  <1>6. CASE TakesOwner(t)
    BY <1>6, DueKept DEF TakesOwner, OwnerDue
  <1>3. CASE NothingOpen(t)
    BY <1>3, MemoryKept DEF NothingOpen
  <1>4. CASE OrphanBegins(t)
    BY <1>4 DEF OrphanBegins, Kept
  <1>5. CASE OrphanEnds(t)
    BY <1>5, MemoryKept DEF OrphanEnds
  <1> QED
    BY <1>1, <1>2, <1>3, <1>4, <1>5, <1>6 DEF ClosingStep, Taking

LEMMA ReviewingKeeps ==
  ASSUME NEW t \in Threads, Reviewing(t) PROVE Kept
  <1>1. CASE Adopts(t) \/ AdoptsCorr(t) \/ AdoptsHub(t)
    BY <1>1, OwnerKept, MemoryKept DEF Adopts, AdoptsCorr, AdoptsHub
  <1>4. CASE AdoptsOwner(t)
    BY <1>4, DueKept DEF AdoptsOwner, OwnerDue
  <1>2. CASE AdoptsNothing(t) \/ StaleBegins(t) \/ StaleEnds(t)
    BY <1>2, MemoryKept DEF AdoptsNothing, StaleBegins, StaleEnds
  <1>3. CASE Seeks(t) \/ Reviews(t) \/ Reminds(t)
    BY <1>3, MemoryKept DEF Seeks, Reviews, Reminds
  <1> QED
    BY <1>1, <1>2, <1>3, <1>4 DEF Reviewing, Adopting, Seeding

LEMMA PumpKeeps == PumpStep => Kept
  <1>1. "pump" \in Threads
    BY DEF Threads
  <1>2. StatusFollows => Kept
    BY MemoryKept DEF StatusFollows
  <1> QED
    BY <1>1, <1>2, ConfirmingKeeps, LosingKeeps, HandsOverKeeps, ReviewingKeeps,
       ClosingKeeps DEF PumpStep

LEMMA TimerKeeps == TimerStep => Kept
  <1>1. "timer" \in Threads
    BY DEF Threads
  <1>2. TimerFires => Kept
    BY MemoryKept DEF TimerFires
  <1> QED
    BY <1>1, <1>2, ConfirmingKeeps DEF TimerStep

LEMMA LoopKeeps == LoopStep => Kept
  <1>1. "loop" \in Threads
    BY DEF Threads
  <1>2. GraceOver \/ LoopEnds => Kept
    BY MemoryKept DEF GraceOver, LoopEnds
  <1>3. Drops("loop") \/ Dropped("loop") => Connecting("loop")
    BY DEF Connecting
  <1> QED
    BY <1>1, <1>2, <1>3, HandsOverKeeps, ConnectingKeeps, ReviewingKeeps DEF LoopStep

LEMMA SupervisorKeeps == SupervisorStep => Kept
  <1>1. "supervisor" \in Threads
    BY DEF Threads
  <1>2. Tick \/ Ensures \/ Heals => Kept
    BY MemoryKept DEF Tick, Ensures, Heals
  <1>3. OutOfWindow \/ Waits \/ BackupHandover \/ Attempts => Kept
    BY MemoryKept DEF OutOfWindow, Waits, BackupHandover, Attempts, Decides
  <1> QED
    BY <1>1, <1>2, <1>3, ReviewingKeeps, ClosingKeeps, HandsOverKeeps,
       ConnectingKeeps, LosingKeeps DEF SupervisorStep

LEMMA OperatorKeeps == OperatorStep => Kept
  <1>1. "operator" \in Threads
    BY DEF Threads
  <1> QED
    BY <1>1, ReviewingKeeps, ConnectingKeeps, ClosingKeeps, LosingKeeps DEF OperatorStep

LEMMA EnvironmentKeeps == Environment => Kept
  <1>1. ASSUME NEW s \in States, Receive(s) PROVE Kept
    BY <1>1, MemoryKept DEF Receive
  <1>2. ASSUME NEW t \in {"supervisor", "operator"}, ConnectFails(t) PROVE Kept
    BY <1>2, MemoryKept DEF ConnectFails
  <1>3. CASE ForgetsClose
    BY <1>3 DEF ForgetsClose, Kept
  <1>4. CASE OperatorConnects \/ OperatorDisconnects \/ AutoOn \/ WindowMoves
    BY <1>4, MemoryKept DEF OperatorConnects, OperatorDisconnects, AutoOn, WindowMoves
  <1>5. CASE Restart
    BY <1>5 DEF Restart, Kept
  <1> QED
    BY <1>1, <1>2, <1>3, <1>4, <1>5 DEF Environment

\* OneWay: the handover of a break to the supervisor is not undone while the
\* break is in memory (TransferBreakOwnerToSupervisor, ConfirmDegradedIncident,
\* OpenLinkLost, AdoptOpenIncident, TryTakeOpenBreak), whatever the
\* interleaving, but for the write of an owner that was due before it.
THEOREM HandoverIsOneWay == Spec => OneWay
  <1>1. Next => Kept
    <2>1. JournalStep => Kept
      BY MemoryKept DEF JournalStep, WriteOpen
    <2> QED
      BY <2>1, PumpKeeps, TimerKeeps, LoopKeeps, SupervisorKeeps, OperatorKeeps,
         EnvironmentKeeps DEF Next
  <1>2. [Next]_vars => [Kept]_vars
    BY <1>1
  <1>3. OneWay <=> [][Kept]_vars
    BY PTL DEF OneWay, Kept
  <1> QED
    BY <1>2, <1>3, PTL DEF Spec

-----------------------------------------------------------------------------
(* One trouble opens at most one break.  A thread on its way to the hub    *)
(* holds the licence to open one that the trouble gave it, the pump two    *)
(* when it confirms a pending Degraded before it looks at the lost link.   *)

\* Places at which the pump has confirmed and has not looked at the loss.
Between == {"remember", "rememberLate", "rememberOwner", "rememberCorr", "rememberGrace", "lend", "grace"}
Licence(t, pc) ==
  IF t = "pump" /\ pc = "confirm" THEN 2
  ELSE IF pc \in {"confirm", "lost", "open"} \/ (t = "pump" /\ pc \in Between) THEN 1
  ELSE 0
Licences(pcs) == Licence("pump", pcs["pump"]) + Licence("timer", pcs["timer"]) + Licence("loop", pcs["loop"])
                 + Licence("supervisor", pcs["supervisor"]) + Licence("operator", pcs["operator"])
Bit(b) == IF b THEN 1 ELSE 0
Trying == {"enter", "replace", "replaced", "connecting"}

RuntimeOK == /\ line \in States \cup {"none"} /\ link \in States \cup {"none"}
             /\ session \in BOOLEAN /\ status \in {"up", "degraded", "down"}
ManagerOK == /\ since \in BOOLEAN /\ owner \in {"none", "transaq", "supervisor"}
             /\ corr \in Breaks \cup {None} /\ recent \in Breaks \cup {None, Unknown}
DegradedOK == pending \in BOOLEAN /\ loop \in {"none", "live", "ended"}
ThreadOK == /\ hub \in Breaks \cup {None} /\ minted \in Breaks \cup {None}
            /\ told \in [Breaks -> Nat]
JournalOK == /\ row \in [Breaks -> {"absent", "open", "closed"}]
             /\ lent \subseteq Breaks /\ writing \subseteq Breaks
PlanOK == /\ auto \in BOOLEAN /\ desired \in BOOLEAN /\ fails \in 0 .. MaxAttempts + 1
          /\ warned \subseteq Breaks /\ saw \subseteq {"up", "wanted"}
SpentOK == spent \in 0 .. MaxTrouble
DataOK == RuntimeOK /\ ManagerOK /\ DegradedOK /\ ThreadOK /\ JournalOK /\ PlanOK /\ SpentOK

PlacesOK == at = [t \in Threads |-> at[t]] /\ mine \in [Threads -> Breaks \cup {None}]
RemindsOfOne == \A t \in Threads : at[t] = "remind" => mine[t] # None
Licensed == minted + Licences(at) + Bit(pending) <= spent
Attempting == at["supervisor"] \in Trying => fails <= MaxAttempts
ControlOK == PlacesOK /\ RemindsOfOne /\ Licensed /\ Attempting

IInv == DataOK /\ ControlOK

USE LinkAssumption

LEMMA InvIsTyped == IInv => TypeOK
  BY DEF IInv, DataOK, RuntimeOK, ManagerOK, DegradedOK, ThreadOK, JournalOK, PlanOK, SpentOK,
         ControlOK, PlacesOK, TypeOK

\* What a thread that goes from at[t] to pc must give up for what it has opened,
\* and how many attempts it may have counted.
Pays(t, pc) == minted' + Bit(pending') + Licence(t, pc) + spent
               <= minted + Bit(pending) + Licence(t, at[t]) + spent'
Counts(t, pc) == IF t = "supervisor" THEN pc \in Trying => fails' <= MaxAttempts
                 ELSE fails' = fails \/ fails' <= MaxAttempts

LEMMA LicenceIsNat == \A t, pc : Licence(t, pc) \in 0 .. 2
  BY DEF Licence

LEMMA LicencesMove ==
  ASSUME PlacesOK, NEW t \in Threads, NEW pc, at' = [at EXCEPT ![t] = pc]
  PROVE  /\ Licences(at') + Licence(t, at[t]) = Licences(at) + Licence(t, pc)
         /\ Licences(at) \in Nat /\ Licences(at') \in Nat
  <1>1. at' = [x \in Threads |-> IF x = t THEN pc ELSE at[x]]
    BY DEF PlacesOK
  <1>2. \A x \in Threads : at'[x] = IF x = t THEN pc ELSE at[x]
    BY <1>1
  <1>3. t \in {"pump", "timer", "loop", "supervisor", "operator"}
    BY DEF Threads
  <1> QED
    BY <1>2, <1>3, LicenceIsNat DEF Licences, Threads

LEMMA LicenceIsOwed ==
  ASSUME NEW t \in Threads PROVE Licence(t, at[t]) <= Licences(at)
  BY LicenceIsNat DEF Licences, Threads

LEMMA ThreadMoves ==
  ASSUME IInv, DataOK', NEW t \in Threads, NEW pc, NEW c \in Breaks \cup {None},
         at' = [at EXCEPT ![t] = pc], mine' = [mine EXCEPT ![t] = c],
         pc = "remind" => c # None, Pays(t, pc), Counts(t, pc)
  PROVE  IInv'
  <1>1. \A x \in Threads : at'[x] = IF x = t THEN pc ELSE at[x]
    BY DEF IInv, ControlOK, PlacesOK
  <1>2. \A x \in Threads : mine'[x] = IF x = t THEN c ELSE mine[x]
    BY DEF IInv, ControlOK, PlacesOK
  <1>3. PlacesOK'
    BY DEF IInv, ControlOK, PlacesOK
  <1>4. RemindsOfOne'
    BY <1>1, <1>2 DEF IInv, ControlOK, RemindsOfOne
  <1>5. Licensed'
    <2>1. /\ Licences(at') + Licence(t, at[t]) = Licences(at) + Licence(t, pc)
          /\ Licences(at) \in Nat /\ Licences(at') \in Nat
      BY LicencesMove DEF IInv, ControlOK
    <2>2. /\ minted \in Nat /\ minted' \in Nat /\ spent \in Nat /\ spent' \in Nat
          /\ Bit(pending) \in Nat /\ Bit(pending') \in Nat
      BY DEF IInv, DataOK, ThreadOK, SpentOK, Bit, Breaks, None
    <2>3. Licence(t, pc) \in Nat /\ Licence(t, at[t]) \in Nat
      BY LicenceIsNat
    <2>4. minted + Licences(at) + Bit(pending) <= spent
      BY DEF IInv, ControlOK, Licensed
    <2> QED
      BY <2>1, <2>2, <2>3, <2>4 DEF Pays, Licensed
  <1>6. Attempting'
    <2>1. "supervisor" \in Threads
      BY DEF Threads
    <2> QED
      BY <1>1, <2>1 DEF IInv, ControlOK, Attempting, Counts, DataOK, PlanOK
  <1> QED
    BY <1>3, <1>4, <1>5, <1>6 DEF IInv, ControlOK

LEMMA Goes ==
  ASSUME IInv, DataOK', NEW t \in Threads, NEW pc, Goto(t, pc),
         pc # "remind", Pays(t, pc), Counts(t, pc)
  PROVE  IInv'
  <1>1. mine[t] \in Breaks \cup {None} /\ mine' = [mine EXCEPT ![t] = mine[t]]
    BY DEF IInv, ControlOK, PlacesOK, Goto
  <1> QED
    BY <1>1, ThreadMoves DEF Goto

LEMMA Turns ==
  ASSUME IInv, DataOK', NEW t \in Threads, NEW pc, NEW c \in Breaks \cup {None},
         GotoWith(t, pc, c), pc = "remind" => c # None, Pays(t, pc), Counts(t, pc)
  PROVE  IInv'
  BY ThreadMoves DEF GotoWith

LEMMA NobodyMoves ==
  ASSUME IInv, DataOK', UNCHANGED control,
         minted' + Bit(pending') + spent <= minted + Bit(pending) + spent',
         fails' = fails \/ fails' <= MaxAttempts
  PROVE  IInv'
  <1>1. PlacesOK' /\ RemindsOfOne'
    BY DEF IInv, ControlOK, PlacesOK, RemindsOfOne, control
  <1>2. Attempting'
    BY DEF IInv, ControlOK, Attempting, control
  <1>3. Licensed'
    <2>1. Licences(at) \in Nat /\ Licences(at') = Licences(at)
      BY LicenceIsNat DEF Licences, control
    <2>2. /\ minted \in Nat /\ minted' \in Nat /\ spent \in Nat /\ spent' \in Nat
          /\ Bit(pending) \in Nat /\ Bit(pending') \in Nat
      BY DEF IInv, DataOK, ThreadOK, SpentOK, Bit, Breaks, None
    <2> QED
      BY <2>1, <2>2 DEF IInv, ControlOK, Licensed
  <1> QED
    BY <1>1, <1>2, <1>3 DEF IInv, ControlOK

\* A trouble is paid for once.
LEMMA TroubleCosts ==
  ASSUME SpentOK, NEW k, Trouble(k)
  PROVE  SpentOK' /\ spent \in Nat /\ spent' \in Nat /\ spent + 1 <= spent'
  BY DEF SpentOK, Trouble

\* A thread that moves on without opening anything pays nothing.
LEMMA PaysNothing ==
  ASSUME IInv, DataOK', NEW t \in Threads, NEW pc, minted' = minted,
         pending' = pending \/ ~pending', spent <= spent', Licence(t, pc) <= Licence(t, at[t])
  PROVE  Pays(t, pc)
  <1>1. /\ minted \in Nat /\ spent \in Nat /\ spent' \in Nat
        /\ Bit(pending) \in Nat /\ Bit(pending') \in Nat /\ Bit(pending') <= Bit(pending)
    BY DEF IInv, DataOK, ThreadOK, SpentOK, DegradedOK, Bit, Breaks, None
  <1> QED
    BY <1>1, LicenceIsNat DEF Pays

\* The newest of some rows is one of them.
Later == {p \in Breaks \X Breaks : p[2] < p[1]}

LEMMA LaterEnds == IsWellFoundedOn(Later, Breaks)
  <1> SUFFICES ASSUME NEW f \in [Nat -> Breaks], \A n \in Nat : <<f[n + 1], f[n]>> \in Later
               PROVE  FALSE
    BY DEF IsWellFoundedOn
  <1> DEFINE left == [n \in Nat |-> MaxTrouble - f[n]]
  <1>1. left \in [Nat -> Nat]
    BY DEF Breaks
  <1>2. \A n \in Nat : left[n + 1] < left[n]
    <2> TAKE n \in Nat
    <2>1. n + 1 \in Nat /\ f[n] \in 1 .. MaxTrouble /\ f[n + 1] \in 1 .. MaxTrouble
      BY DEF Breaks
    <2>2. f[n] < f[n + 1]
      BY DEF Later
    <2> QED
      BY <2>1, <2>2
  <1>3. \A i, j \in Nat : i < j => <<i, j>> \in OpToRel(<, Nat)
    BY Zenon DEF OpToRel
  <1>4. \A n \in Nat : <<left[n + 1], left[n]>> \in OpToRel(<, Nat)
    <2> TAKE n \in Nat
    <2>1. n + 1 \in Nat /\ left[n + 1] \in Nat /\ left[n] \in Nat
      BY <1>1
    <2> QED
      BY <1>2, <1>3, <2>1
  <1> QED
    BY <1>1, <1>4, NatLessThanWellFounded DEF IsWellFoundedOn

LEMMA NewestIsOne ==
  ASSUME NEW S \in SUBSET Breaks
  PROVE  Newest(S) \in Breaks \cup {None} /\ (S # {} => Newest(S) \in Breaks)
  <1>1. CASE S # {}
    <2>1. PICK x \in S : \A y \in S : ~ (<<y, x>> \in Later)
      BY <1>1, LaterEnds, WFMin
    <2>2. \A y \in S : y <= x
      <3> TAKE y \in S
      <3>1. <<y, x>> \notin Later /\ y \in 1 .. MaxTrouble /\ x \in 1 .. MaxTrouble
        BY <2>1 DEF Breaks
      <3>2. ~(x < y)
        BY <3>1 DEF Later, Breaks
      <3> QED
        BY <3>1, <3>2
    <2>3. Newest(S) \in S
      BY <1>1, <2>2 DEF Newest
    <2> QED
      BY <2>3
  <1>2. CASE S = {}
    BY <1>2 DEF Newest
  <1> QED
    BY <1>1, <1>2

\* Places from which nothing is opened, reminded of or tried.
Free(pc) == pc \notin Trying \cup Between \cup {"confirm", "lost", "open", "remind"}
\* What a step that opens nothing leaves as it was, or lowers.
OpensNothing == /\ minted' = minted /\ spent <= spent'
                /\ pending' = pending \/ ~pending'
CountsFor(t) == t = "supervisor" \/ fails' = fails \/ fails' <= MaxAttempts

LEMMA FreePays ==
  ASSUME IInv, DataOK', NEW t \in Threads, NEW pc, Free(pc), OpensNothing, CountsFor(t)
  PROVE  Pays(t, pc) /\ Counts(t, pc) /\ pc # "remind"
  <1>1. Licence(t, pc) = 0 /\ Licence(t, at[t]) \in 0 .. 2
    BY LicenceIsNat DEF Free, Licence, Between
  <1>2. Licence(t, pc) <= Licence(t, at[t])
    BY <1>1
  <1>3. Pays(t, pc)
    BY <1>2, PaysNothing DEF OpensNothing
  <1> QED
    BY <1>3 DEF Free, Counts, CountsFor

LEMMA FreelyGoes ==
  ASSUME IInv, DataOK', NEW t \in Threads, NEW pc, Goto(t, pc), Free(pc), OpensNothing, CountsFor(t)
  PROVE  IInv'
  BY FreePays, Goes

LEMMA FreelyTurns ==
  ASSUME IInv, DataOK', NEW t \in Threads, NEW pc, NEW c \in Breaks \cup {None},
         GotoWith(t, pc, c), Free(pc), OpensNothing, CountsFor(t)
  PROVE  IInv'
  BY FreePays, Turns

LEMMA AfterwardsFree ==
  ASSUME NEW t \in Threads
  PROVE  /\ Free(AfterReview(t)) /\ Free(AfterHandover(t)) /\ Free(AfterClose(t)) /\ Free(AfterAdopt(t))
  BY DEF AfterReview, AfterHandover, AfterClose, AfterAdopt, Free, Trying, Between

LEMMA GroupsStand ==
  ASSUME DataOK
  PROVE  /\ UNCHANGED runtime => RuntimeOK'
         /\ UNCHANGED manager => ManagerOK'
         /\ UNCHANGED degraded => DegradedOK' /\ pending' = pending
         /\ UNCHANGED thread => ThreadOK' /\ minted' = minted
         /\ UNCHANGED journal => JournalOK'
         /\ UNCHANGED plan => PlanOK' /\ fails' = fails
         /\ UNCHANGED spent => SpentOK' /\ spent <= spent'
  <1>1. UNCHANGED runtime => RuntimeOK'
    BY DEF DataOK, RuntimeOK, runtime
  <1>2. UNCHANGED manager => ManagerOK'
    BY DEF DataOK, ManagerOK, manager
  <1>3. UNCHANGED degraded => DegradedOK' /\ pending' = pending
    BY DEF DataOK, DegradedOK, degraded
  <1>4. UNCHANGED thread => ThreadOK' /\ minted' = minted
    BY DEF DataOK, ThreadOK, thread
  <1>5. UNCHANGED journal => JournalOK'
    BY DEF DataOK, JournalOK, journal
  <1>6. UNCHANGED plan => PlanOK' /\ fails' = fails
    BY DEF DataOK, PlanOK, plan
  <1>7. UNCHANGED spent => SpentOK' /\ spent <= spent'
    BY DEF DataOK, SpentOK
  <1> QED
    BY <1>1, <1>2, <1>3, <1>4, <1>5, <1>6, <1>7

-----------------------------------------------------------------------------
(* Every action keeps the invariant.                                       *)

LEMMA OpensOne ==
  ASSUME IInv, NEW t \in Threads, NEW lender, FanOutOpen(lender), Licence(t, at[t]) >= 1
  PROVE  /\ Opened \in Breaks /\ ThreadOK' /\ JournalOK'
         /\ minted' = IF hub = None THEN minted + 1 ELSE minted
  <1>1. minted + 1 <= MaxTrouble
    <2>1. /\ minted \in Nat /\ spent \in Nat /\ spent <= MaxTrouble /\ Bit(pending) \in Nat
          /\ Licences(at) \in Nat
      BY LicenceIsNat DEF IInv, DataOK, ThreadOK, SpentOK, Bit, Breaks, None, Licences
    <2>2. Licence(t, at[t]) <= Licences(at) /\ Licence(t, at[t]) \in Nat
      BY LicenceIsOwed, LicenceIsNat
    <2> QED
      BY <2>1, <2>2 DEF IInv, ControlOK, Licensed
  <1>2. Opened \in Breaks
    BY <1>1 DEF Opened, IInv, DataOK, ThreadOK, Breaks, None
  <1>3. ThreadOK' /\ minted' = IF hub = None THEN minted + 1 ELSE minted
    BY <1>2 DEF FanOutOpen, Opened, IInv, DataOK, ThreadOK
  <1>4. JournalOK'
    BY <1>2 DEF FanOutOpen, IInv, DataOK, JournalOK
  <1> QED
    BY <1>2, <1>3, <1>4

\* The licence of a place, by its name.
LEMMA LicenceAt ==
  ASSUME NEW t
  PROVE  /\ Licence(t, "confirm") = IF t = "pump" THEN 2 ELSE 1
         /\ \A pc \in Between : Licence(t, pc) = IF t = "pump" THEN 1 ELSE 0
         /\ Licence(t, "lost") = 1 /\ Licence(t, "open") = 1
         /\ Licence(t, "own") = 0 /\ Licence(t, "ownLate") = 0 /\ Licence(t, "idle") = 0
         /\ \A pc \in Trying : Licence(t, pc) = 0
  BY DEF Licence, Trying, Between

\* A step that writes to the break in memory, or moves on beside it.
LEMMA MemoryMoves ==
  ASSUME IInv, NEW t \in Threads, NEW pc, Goto(t, pc) \/ GotoWith(t, pc, None),
         ManagerOK', DegradedOK', pending' = pending,
         UNCHANGED <<runtime, thread, journal, plan, spent>>,
         Licence(t, pc) <= Licence(t, at[t]), pc \notin Trying \cup {"remind"}
  PROVE  IInv'
  <1>1. DataOK' /\ minted' = minted /\ spent <= spent' /\ fails' = fails
    BY GroupsStand DEF IInv, DataOK
  <1>2. Pays(t, pc)
    BY <1>1, PaysNothing
  <1>3. Counts(t, pc)
    BY <1>1 DEF Counts
  <1> QED
    BY <1>1, <1>2, <1>3, Goes, Turns

\* From a place beside the break to a free one.
LEMMA FreelyWrites ==
  ASSUME IInv, NEW t \in Threads, NEW pc, Goto(t, pc) \/ GotoWith(t, pc, None),
         ManagerOK', DegradedOK', pending' = pending,
         UNCHANGED <<runtime, thread, journal, plan, spent>>, Free(pc)
  PROVE  IInv'
  <1>1. Licence(t, pc) = 0 /\ Licence(t, at[t]) \in 0 .. 2
    BY LicenceIsNat DEF Free, Licence, Between
  <1>2. Licence(t, pc) <= Licence(t, at[t])
    BY <1>1
  <1>3. pc \notin Trying \cup {"remind"}
    BY DEF Free
  <1> QED
    BY <1>2, <1>3, MemoryMoves

LEMMA RememberingOpens ==
  ASSUME IInv, NEW t \in Threads, Remembering(t) \/ ConfirmKnown(t) \/ Lends(t) \/ Graces(t)
  PROVE  IInv'
  <1>1. DataOK /\ mine[t] \in Breaks \cup {None}
    BY DEF IInv, ControlOK, PlacesOK
  <1>2. /\ \A pc \in Between \cup {"confirm"} : Licence(t, AfterConfirm(t)) <= Licence(t, pc)
        /\ \A pc \in Between, qc \in Between \cup {"confirm"} : Licence(t, pc) <= Licence(t, qc)
        /\ AfterConfirm(t) \notin Trying \cup {"remind"}
    BY LicenceAt DEF AfterConfirm, Trying
  <1>3. /\ Between \cap (Trying \cup {"remind"}) = {}
        /\ {"remember", "rememberLate", "rememberOwner", "rememberCorr", "rememberGrace", "lend", "grace"}
              = Between
    BY DEF Between, Trying
  <1>4. ManagerOK /\ DegradedOK
    BY <1>1 DEF DataOK
  <1>5. CASE Remembers(t)
    <2>1. ManagerOK' /\ DegradedOK' /\ pending' = pending
      BY <1>4, <1>5 DEF Remembers, ManagerOK, DegradedOK, degraded
    <2>2. UNCHANGED <<runtime, thread, journal, plan, spent>> /\ at[t] \in Between
      BY <1>3, <1>5 DEF Remembers
    <2>3. CASE since
      <3>1. GotoWith(t, AfterConfirm(t), None)
        BY <1>5, <2>3 DEF Remembers
      <3> QED
        BY <1>2, <2>1, <2>2, <3>1, MemoryMoves
    <2>4. CASE ~since
      <3>1. Goto(t, "rememberOwner") /\ "rememberOwner" \in Between
        BY <1>3, <1>5, <2>4 DEF Remembers
      <3>2. Licence(t, "rememberOwner") <= Licence(t, at[t]) /\ "rememberOwner" \notin Trying \cup {"remind"}
        BY <1>2, <1>3, <2>2, <3>1
      <3> QED
        BY <2>1, <2>2, <3>1, <3>2, MemoryMoves
    <2> QED
      BY <2>3, <2>4
  <1>6. ASSUME NEW pc \in Between, Goto(t, pc), at[t] \in Between \cup {"confirm"},
               ManagerOK', DegradedOK', pending' = pending,
               UNCHANGED <<runtime, thread, journal, plan, spent>>
        PROVE  IInv'
    <2>1. Licence(t, pc) <= Licence(t, at[t]) /\ pc \notin Trying \cup {"remind"}
      BY <1>2, <1>3, <1>6
    <2> QED
      BY <1>6, <2>1, MemoryMoves
  <1>7. CASE RemembersOwner(t)
    <2>1. ManagerOK' /\ DegradedOK' /\ pending' = pending
      BY <1>4, <1>7 DEF RemembersOwner, ManagerOK, DegradedOK, degraded
    <2> QED
      BY <1>3, <1>6, <1>7, <2>1 DEF RemembersOwner
  <1>8. CASE RemembersCorr(t)
    <2>1. ManagerOK' /\ DegradedOK' /\ pending' = pending
      BY <1>1, <1>4, <1>8 DEF RemembersCorr, ManagerOK, DegradedOK, degraded
    <2> QED
      BY <1>3, <1>6, <1>8, <2>1 DEF RemembersCorr
  <1>9. CASE RemembersGrace(t)
    <2>1. ManagerOK' /\ DegradedOK' /\ pending' = pending
      BY <1>4, <1>9 DEF RemembersGrace, ManagerOK, DegradedOK, manager
    <2>2. Licence(t, AfterConfirm(t)) <= Licence(t, at[t])
      BY <1>2, <1>3, <1>9 DEF RemembersGrace
    <2> QED
      BY <1>2, <1>9, <2>1, <2>2, MemoryMoves DEF RemembersGrace
  <1>10. CASE Lends(t)
    <2>1. ManagerOK' /\ DegradedOK' /\ pending' = pending
      BY <1>4, <1>10 DEF Lends, ManagerOK, DegradedOK, degraded
    <2> QED
      BY <1>3, <1>6, <1>10, <2>1 DEF Lends
  <1>11. CASE Graces(t)
    <2>1. ManagerOK' /\ DegradedOK' /\ pending' = pending
      BY <1>4, <1>11 DEF Graces, ManagerOK, DegradedOK, manager
    <2>2. Licence(t, AfterConfirm(t)) <= Licence(t, at[t])
      BY <1>2, <1>3, <1>11 DEF Graces
    <2> QED
      BY <1>2, <1>11, <2>1, <2>2, MemoryMoves DEF Graces
  <1>12. CASE ConfirmKnown(t)
    <2>1. ManagerOK' /\ DegradedOK' /\ pending' = pending
      BY <1>4, <1>12 DEF ConfirmKnown, ManagerOK, DegradedOK, manager, degraded
    <2>2. at[t] = "confirm" /\ UNCHANGED <<runtime, thread, journal, plan, spent>>
      BY <1>12 DEF ConfirmKnown
    <2>3. CASE loop # "none"
      <3>1. Goto(t, AfterConfirm(t)) /\ Licence(t, AfterConfirm(t)) <= Licence(t, at[t])
        BY <1>2, <1>12, <2>2, <2>3 DEF ConfirmKnown
      <3> QED
        BY <1>2, <2>1, <2>2, <3>1, MemoryMoves
    <2>4. CASE loop = "none"
      <3>1. Goto(t, "lend") \/ Goto(t, "grace")
        BY <1>12, <2>4 DEF ConfirmKnown
      <3> QED
        BY <1>3, <1>6, <2>1, <2>2, <3>1
    <2> QED
      BY <2>3, <2>4
  <1> QED
    BY <1>5, <1>7, <1>8, <1>9, <1>10, <1>11, <1>12 DEF Remembering

LEMMA ConfirmingOpens ==
  ASSUME IInv, NEW t \in Threads, Confirming(t) PROVE IInv'
  <1>1. DataOK
    BY DEF IInv
  <1>3. CASE ConfirmOpens(t)
    <2> DEFINE pc == IF hub = None THEN "remember" ELSE "rememberLate"
    <2>1. Licence(t, at[t]) >= 1 /\ Licence(t, pc) + 1 <= Licence(t, at[t])
      BY <1>3, LicenceAt DEF ConfirmOpens, Between
    <2>2. FanOutOpen("transaq")
      BY <1>3 DEF ConfirmOpens
    <2>3. /\ Opened \in Breaks /\ ThreadOK' /\ JournalOK'
          /\ minted' = IF hub = None THEN minted + 1 ELSE minted
      BY <2>1, <2>2, OpensOne
    <2>4. DataOK' /\ spent' = spent /\ pending' = pending
      BY <1>1, <1>3, <2>3, GroupsStand DEF ConfirmOpens, DataOK
    <2>5. Pays(t, pc)
      <3>1. minted \in Nat /\ spent \in Nat /\ Bit(pending) \in Nat
        BY <1>1 DEF DataOK, ThreadOK, SpentOK, Bit, Breaks, None
      <3>2. Licence(t, pc) \in Nat /\ Licence(t, at[t]) \in Nat
        BY LicenceIsNat
      <3> QED
        BY <2>1, <2>3, <2>4, <3>1, <3>2 DEF Pays
    <2>6. Counts(t, pc) /\ pc # "remind"
      BY <1>3 DEF ConfirmOpens, Counts, Trying, plan
    <2> QED
      BY <1>3, <2>3, <2>4, <2>5, <2>6, Turns DEF ConfirmOpens
  <1> QED
    BY <1>3, RememberingOpens DEF Confirming

LEMMA LosingOpens ==
  ASSUME IInv, NEW t \in Threads, Losing(t) PROVE IInv'
  <1>1. DataOK
    BY DEF IInv
  <1>2. CASE TakesSince(t)
    <2>1. DataOK'
      BY <1>1, <1>2, GroupsStand DEF TakesSince, DataOK, ManagerOK
    <2>2. Pays(t, "open")
      BY <1>1, <1>2, <2>1, PaysNothing, LicenceAt, GroupsStand DEF TakesSince
    <2>3. Counts(t, "open")
      BY <1>2 DEF TakesSince, Counts, Trying, plan
    <2> QED
      BY <1>2, <2>1, <2>2, <2>3, Goes DEF TakesSince
  <1>3. CASE LostOpens(t)
    <2> DEFINE pc == IF hub = None THEN "own" ELSE "ownLate"
    <2>1. Licence(t, at[t]) = 1 /\ Licence(t, pc) = 0
      BY <1>3, LicenceAt DEF LostOpens
    <2>2. FanOutOpen("supervisor")
      BY <1>3 DEF LostOpens
    <2>3. /\ Opened \in Breaks /\ ThreadOK' /\ JournalOK'
          /\ minted' = IF hub = None THEN minted + 1 ELSE minted
      BY <2>1, <2>2, OpensOne
    <2>4. DataOK' /\ spent' = spent /\ pending' = pending
      BY <1>1, <1>3, <2>3, GroupsStand DEF LostOpens, DataOK
    <2>5. Pays(t, pc)
      <3>1. minted \in Nat /\ spent \in Nat /\ Bit(pending) \in Nat
        BY <1>1 DEF DataOK, ThreadOK, SpentOK, Bit, Breaks, None
      <3> QED
        BY <2>1, <2>3, <2>4, <3>1 DEF Pays
    <2>6. Counts(t, pc) /\ pc # "remind"
      BY <1>3 DEF LostOpens, Counts, Trying, plan
    <2> QED
      BY <1>3, <2>3, <2>4, <2>5, <2>6, Turns DEF LostOpens
  <1>4. CASE Owns(t)
    <2>1. ManagerOK' /\ DegradedOK' /\ pending' = pending
      BY <1>1, <1>4 DEF Owns, DataOK, ManagerOK, DegradedOK, degraded
    <2>2. Free("ownCorr")
      BY DEF Free, Trying, Between
    <2> QED
      BY <1>4, <2>1, <2>2, FreelyWrites DEF Owns
  <1>6. CASE OwnsCorr(t)
    <2> DEFINE pc == IF t = "pump" THEN AfterHandover(t) ELSE "idle"
    <2>1. mine[t] \in Breaks \cup {None}
      BY DEF IInv, ControlOK, PlacesOK
    <2>2. ManagerOK' /\ DegradedOK' /\ pending' = pending
      BY <1>1, <1>6, <2>1 DEF OwnsCorr, DataOK, ManagerOK, DegradedOK
    <2>3. Free(pc)
      BY AfterwardsFree DEF Free, Trying, Between
    <2> QED
      BY <1>6, <2>2, <2>3, FreelyWrites DEF OwnsCorr
  <1>5. CASE LostAgain(t)
    <2>1. DataOK'
      BY <1>1, <1>5, GroupsStand DEF LostAgain, DataOK, DegradedOK
    <2>2. OpensNothing /\ CountsFor(t)
      BY <1>1, <1>5, GroupsStand DEF LostAgain, OpensNothing, CountsFor
    <2>3. Free(IF t = "pump" THEN "handover" ELSE "idle")
      BY DEF Free, Trying, Between
    <2> QED
      BY <1>5, <2>1, <2>2, <2>3, FreelyGoes DEF LostAgain
  <1> QED
    BY <1>2, <1>3, <1>4, <1>5, <1>6 DEF Losing

LEMMA HandsOverOpens ==
  ASSUME IInv, NEW t \in Threads, HandsOver(t) PROVE IInv'
  <1> DEFINE cancelled == t = "loop" /\ loop # "live"
             pc == IF cancelled THEN "idle" ELSE IF t = "pump" THEN AfterHandover(t) ELSE "drop"
  <1>1. DataOK
    BY DEF IInv
  <1>2. /\ Goto(t, pc)
        /\ lent' \subseteq lent /\ UNCHANGED <<row, writing, thread, plan, runtime, spent, pending>>
    BY DEF HandsOver
  <1>3. DataOK'
    <2>1. ManagerOK' /\ DegradedOK'
      BY <1>1 DEF HandsOver, DataOK, ManagerOK, DegradedOK
    <2>2. JournalOK'
      BY <1>1, <1>2 DEF DataOK, JournalOK
    <2> QED
      BY <1>1, <1>2, <2>1, <2>2, GroupsStand DEF DataOK
  <1>4. OpensNothing /\ CountsFor(t)
    BY <1>1, <1>2, GroupsStand DEF OpensNothing, CountsFor
  <1>5. Free(pc)
    BY AfterwardsFree DEF Free, Trying, Between
  <1> QED
    BY <1>2, <1>3, <1>4, <1>5, FreelyGoes

\* An attempt under way goes on, or ends with a session.
LEMMA ConnectingOpens ==
  ASSUME IInv, NEW t \in Threads, Connecting(t) PROVE IInv'
  <1>1. DataOK
    BY DEF IInv
  <1>2. ASSUME NEW pc, Goto(t, pc), Free(pc) \/ (at[t] \in Trying /\ pc \in Trying), pc # "remind",
               RuntimeOK', UNCHANGED <<manager, degraded, thread, journal, plan, spent>>
        PROVE  IInv'
    <2>1. DataOK'
      BY <1>1, <1>2, GroupsStand DEF DataOK
    <2>2. CASE Free(pc)
      BY <1>1, <1>2, <2>1, <2>2, FreelyGoes, GroupsStand DEF OpensNothing, CountsFor
    <2>3. CASE at[t] \in Trying /\ pc \in Trying
      <3>1. Pays(t, pc)
        BY <1>1, <1>2, <2>1, <2>3, PaysNothing, LicenceAt, GroupsStand
      <3>2. Counts(t, pc)
        BY <1>1, <1>2, <2>3, GroupsStand DEF Counts, IInv, ControlOK, Attempting
      <3> QED
        BY <1>2, <2>1, <3>1, <3>2, Goes
    <2> QED
      BY <1>2, <2>2, <2>3
  <1>3. CASE Enters(t)
    <2>1. RuntimeOK'
      BY <1>1, <1>3, GroupsStand DEF Enters
    <2> DEFINE pc == IF ~session THEN "connecting" ELSE IF IsConnected THEN "connected" ELSE "replace"
    <2>2. (Free(pc) \/ (at[t] \in Trying /\ pc \in Trying)) /\ pc # "remind"
      BY <1>3 DEF Enters, Free, Trying, Between
    <2> QED
      BY <1>2, <1>3, <2>1, <2>2 DEF Enters
  <1>4. CASE Drops(t)
    <2>1. RuntimeOK'
      BY <1>1, <1>4 DEF Drops, DataOK, RuntimeOK
    <2> DEFINE pc == IF at[t] = "drop" THEN "dropped" ELSE "replaced"
    <2>2. (Free(pc) \/ (at[t] \in Trying /\ pc \in Trying)) /\ pc # "remind"
      BY <1>4 DEF Drops, Free, Trying, Between
    <2> QED
      BY <1>2, <1>4, <2>1, <2>2 DEF Drops
  <1>5. CASE Dropped(t)
    <2>1. RuntimeOK'
      BY <1>1, <1>5 DEF Dropped, DataOK, RuntimeOK
    <2> DEFINE pc == IF at[t] = "replaced" THEN "connecting"
                     ELSE CASE t = "loop" -> AfterHandover(t)
                            [] t = "supervisor" /\ ~desired -> "review"
                            [] OTHER -> "idle"
    <2>2. (Free(pc) \/ (at[t] \in Trying /\ pc \in Trying)) /\ pc # "remind"
      BY <1>5, AfterwardsFree DEF Dropped, Free, Trying, Between
    <2> QED
      BY <1>2, <1>5, <2>1, <2>2 DEF Dropped
  <1>6. CASE Connects(t)
    <2>1. RuntimeOK' /\ Free("joining")
      BY <1>1, <1>6 DEF Connects, DataOK, RuntimeOK, Free, Trying, Between
    <2> QED
      BY <1>2, <1>6, <2>1 DEF Connects
  <1>7. CASE Joins(t)
    <2>1. RuntimeOK' /\ Free("joined")
      BY <1>1, <1>7 DEF Joins, DataOK, RuntimeOK, Free, Trying, Between
    <2> QED
      BY <1>2, <1>7, <2>1 DEF Joins
  <1>8. CASE Connected(t)
    <2>1. fails' \in 0 .. MaxAttempts + 1 /\ CountsFor(t)
      BY <1>1, <1>8 DEF Connected, CountsFor, DataOK, PlanOK
    <2>2. DataOK'
      BY <1>1, <1>8, <2>1, GroupsStand DEF Connected, DataOK, PlanOK
    <2>3. OpensNothing /\ Free("idle")
      BY <1>1, <1>8, GroupsStand DEF Connected, OpensNothing, Free, Trying, Between
    <2>4. None \in Breaks \cup {None}
      OBVIOUS
    <2> QED
      BY <1>8, <2>1, <2>2, <2>3, <2>4, FreelyTurns DEF Connected
  <1> QED
    BY <1>3, <1>4, <1>5, <1>6, <1>7, <1>8 DEF Connecting

LEMMA JournalResolves ==
  ASSUME DataOK, NEW c, JournalResolve(c)
  PROVE  row' \in [Breaks -> {"absent", "open", "closed"}] /\ SpentOK' /\ spent <= spent'
  BY TroubleCosts DEF JournalResolve, DataOK, JournalOK, SpentOK

LEMMA HubResolves ==
  ASSUME DataOK, HubResolve PROVE ThreadOK' /\ minted' = minted
  BY DEF HubResolve, DataOK, ThreadOK

LEMMA OpenRowsAreBreaks == Newest(OpenRows) \in Breaks \cup {None}
  BY NewestIsOne DEF OpenRows

LEMMA ClosingOpens ==
  ASSUME IInv, NEW t \in Threads, ClosingStep(t) PROVE IInv'
  <1>1. DataOK /\ mine[t] \in Breaks \cup {None} /\ None \in Breaks \cup {None}
    BY DEF IInv, ControlOK, PlacesOK
  <1>2. /\ Free("closing") /\ Free("closingJoined") /\ Free("orphan") /\ Free("orphanEnd")
        /\ Free("take") /\ Free("takeJoined") /\ Free("takeOwner") /\ Free("takeOwnerJoined")
        /\ Free("takeCorr") /\ Free("takeCorrJoined") /\ Free(AfterClose(t))
    BY AfterwardsFree DEF Free, Trying, Between
  <1>3. CASE CloseBegins(t)
    <2>1. ThreadOK' /\ minted' = minted
      BY <1>1, <1>3, HubResolves DEF CloseBegins
    <2>2. ManagerOK'
      BY <1>1, <1>3 DEF CloseBegins, DataOK, ManagerOK
    <2>3. DataOK' /\ OpensNothing /\ CountsFor(t)
      BY <1>1, <1>3, <2>1, <2>2, GroupsStand DEF CloseBegins, DataOK, OpensNothing, CountsFor
    <2>4. (IF corr = None THEN hub ELSE corr) \in Breaks \cup {None}
      BY <1>1 DEF DataOK, ManagerOK, ThreadOK
    <2> QED
      BY <1>2, <1>3, <2>3, <2>4, FreelyTurns DEF CloseBegins
  <1>4. CASE CloseEnds(t)
    <2>1. row' \in [Breaks -> {"absent", "open", "closed"}] /\ SpentOK' /\ spent <= spent'
      BY <1>1, <1>4, JournalResolves DEF CloseEnds
    <2>2. DegradedOK' /\ JournalOK'
      BY <1>1, <1>4, <2>1 DEF CloseEnds, DataOK, DegradedOK, JournalOK
    <2>3. DataOK' /\ OpensNothing /\ CountsFor(t)
      BY <1>1, <1>4, <2>1, <2>2, GroupsStand DEF CloseEnds, DataOK, OpensNothing, CountsFor
    <2> QED
      BY <1>1, <1>2, <1>4, <2>3, FreelyTurns DEF CloseEnds
  <1>5. CASE NothingOpen(t)
    <2> DEFINE found == IF OpenRows # {} THEN Newest(OpenRows) ELSE hub
    <2>1. found \in Breaks \cup {None}
      BY <1>1, OpenRowsAreBreaks DEF DataOK, ThreadOK
    <2>2. \/ GotoWith(t, AfterClose(t), None)
          \/ GotoWith(t, "orphan", found)
      BY <1>5 DEF NothingOpen
    <2>3. DataOK' /\ OpensNothing /\ CountsFor(t)
      BY <1>1, <1>5, GroupsStand DEF NothingOpen, DataOK, OpensNothing, CountsFor
    <2> HIDE DEF found
    <2> QED
      BY <1>1, <1>2, <2>1, <2>2, <2>3, FreelyTurns
  <1>6. CASE OrphanBegins(t)
    <2>1. CASE RecentClose(mine[t])
      <3>1. DataOK' /\ OpensNothing /\ CountsFor(t)
        BY <1>1, <1>6, <2>1, GroupsStand DEF OrphanBegins, DataOK, ManagerOK, OpensNothing, CountsFor
      <3> QED
        BY <1>1, <1>2, <1>6, <2>1, <3>1, FreelyTurns DEF OrphanBegins
    <2>2. CASE ~RecentClose(mine[t])
      <3>1. ThreadOK' /\ minted' = minted
        BY <1>1, <1>6, <2>2, HubResolves DEF OrphanBegins
      <3>2. ManagerOK'
        BY <1>1, <1>6, <2>2 DEF OrphanBegins, DataOK, ManagerOK
      <3>3. DataOK' /\ OpensNothing /\ CountsFor(t)
        BY <1>1, <1>6, <2>2, <3>1, <3>2, GroupsStand DEF OrphanBegins, DataOK, OpensNothing, CountsFor
      <3> QED
        BY <1>2, <1>6, <2>2, <3>3, FreelyGoes DEF OrphanBegins
    <2> QED
      BY <2>1, <2>2
  <1>7. CASE OrphanEnds(t)
    <2>1. row' \in [Breaks -> {"absent", "open", "closed"}] /\ SpentOK' /\ spent <= spent'
      BY <1>1, <1>7, JournalResolves DEF OrphanEnds
    <2>2. DegradedOK' /\ JournalOK'
      BY <1>1, <1>7, <2>1 DEF OrphanEnds, DataOK, DegradedOK, JournalOK
    <2>3. DataOK' /\ OpensNothing /\ CountsFor(t)
      BY <1>1, <1>7, <2>1, <2>2, GroupsStand DEF OrphanEnds, DataOK, OpensNothing, CountsFor
    <2> QED
      BY <1>1, <1>2, <1>7, <2>3, FreelyTurns DEF OrphanEnds
  <1>8. CASE Takes(t)
    <2>1. ManagerOK' /\ DegradedOK' /\ pending' = pending
      BY <1>1, <1>8 DEF Takes, DataOK, ManagerOK, DegradedOK, degraded
    <2>2. Goto(t, AfterClose(t)) \/ Goto(t, "takeOwner") \/ Goto(t, "takeOwnerJoined")
      BY <1>8 DEF Takes
    <2> QED
      BY <1>2, <1>8, <2>1, <2>2, FreelyWrites DEF Takes
  <1>9. CASE TakesOwner(t)
    <2>1. ManagerOK' /\ DegradedOK' /\ pending' = pending
      BY <1>1, <1>9 DEF TakesOwner, DataOK, ManagerOK, DegradedOK, degraded
    <2>2. Goto(t, "takeCorr") \/ Goto(t, "takeCorrJoined")
      BY <1>9 DEF TakesOwner
    <2> QED
      BY <1>2, <1>9, <2>1, <2>2, FreelyWrites DEF TakesOwner
  <1>10. CASE TakesCorr(t)
    <2>1. ManagerOK' /\ DegradedOK' /\ pending' = pending
      BY <1>1, <1>10 DEF TakesCorr, DataOK, ManagerOK, DegradedOK, degraded
    <2> QED
      BY <1>2, <1>10, <2>1, FreelyWrites DEF TakesCorr
  <1> QED
    BY <1>3, <1>4, <1>5, <1>6, <1>7, <1>8, <1>9, <1>10 DEF ClosingStep, Taking

LEMMA AdoptingOpens ==
  ASSUME IInv, NEW t \in Threads, Adopting(t) PROVE IInv'
  <1>1. DataOK /\ mine[t] \in Breaks \cup {None} /\ None \in Breaks \cup {None}
    BY DEF IInv, ControlOK, PlacesOK
  <1>2. Free(AfterAdopt(t)) /\ Free("staleEnd")
    BY AfterwardsFree DEF Free, Trying, Between
  <1>3. CASE AdoptsNothing(t)
    <2>1. DataOK' /\ OpensNothing /\ CountsFor(t)
      BY <1>1, <1>3, GroupsStand DEF AdoptsNothing, DataOK, OpensNothing, CountsFor
    <2> QED
      BY <1>1, <1>2, <1>3, <2>1, FreelyTurns DEF AdoptsNothing
  <1>4. CASE Adopts(t) \/ AdoptsOwner(t) \/ AdoptsCorr(t)
    <2>1. Free("adoptOwner") /\ Free("adoptCorr") /\ Free("adoptHub")
      BY DEF Free, Trying, Between
    <2>2. ManagerOK' /\ DegradedOK' /\ pending' = pending
      BY <1>1, <1>4 DEF Adopts, AdoptsOwner, AdoptsCorr, DataOK, ManagerOK, DegradedOK, degraded
    <2> QED
      BY <1>4, <2>1, <2>2, FreelyWrites DEF Adopts, AdoptsOwner, AdoptsCorr
  <1>7. CASE AdoptsHub(t)
    <2>1. ThreadOK' /\ minted' = minted
      BY <1>1, <1>7 DEF AdoptsHub, DataOK, ThreadOK
    <2>2. DataOK' /\ OpensNothing /\ CountsFor(t)
      BY <1>1, <1>7, <2>1, GroupsStand DEF AdoptsHub, DataOK, OpensNothing, CountsFor
    <2> QED
      BY <1>1, <1>2, <1>7, <2>2, FreelyTurns DEF AdoptsHub
  <1>5. CASE StaleBegins(t)
    <2> DEFINE open == IF hub = None THEN mine[t] ELSE hub
    <2>1. told' = [told EXCEPT ![open] = @ + 1] /\ hub' = None /\ minted' = minted
      BY <1>5 DEF StaleBegins
    <2>2. told \in [Breaks -> Nat]
      BY <1>1 DEF DataOK, ThreadOK
    <2> HIDE DEF open
    <2>3. told' \in [Breaks -> Nat]
      <3>1. told' = [b \in Breaks |-> IF b = open THEN told[b] + 1 ELSE told[b]]
        BY <2>1, <2>2, Zenon
      <3>2. \A b \in Breaks : told[b] \in Nat /\ told[b] + 1 \in Nat
        BY <2>2
      <3> QED
        BY <3>1, <3>2
    <2>4. ThreadOK'
      BY <1>1, <2>1, <2>3 DEF DataOK, ThreadOK
    <2>5. DataOK' /\ OpensNothing /\ CountsFor(t)
      BY <1>1, <1>5, <2>1, <2>4, GroupsStand DEF StaleBegins, DataOK, OpensNothing, CountsFor
    <2> QED
      BY <1>2, <1>5, <2>5, FreelyGoes DEF StaleBegins
  <1>6. CASE StaleEnds(t)
    <2>1. row' \in [Breaks -> {"absent", "open", "closed"}] /\ SpentOK' /\ spent <= spent'
      BY <1>1, <1>6, JournalResolves DEF StaleEnds
    <2>2. JournalOK'
      BY <1>1, <1>6, <2>1 DEF StaleEnds, DataOK, JournalOK
    <2>3. DataOK' /\ OpensNothing /\ CountsFor(t)
      BY <1>1, <1>6, <2>1, <2>2, GroupsStand DEF StaleEnds, DataOK, OpensNothing, CountsFor
    <2> QED
      BY <1>1, <1>2, <1>6, <2>3, FreelyTurns DEF StaleEnds
  <1> QED
    BY <1>3, <1>4, <1>5, <1>6, <1>7 DEF Adopting, Seeding

LEMMA FindsRowOpens ==
  ASSUME IInv, DataOK', NEW t \in Threads, NEW after, FindsRow(t, after), Free(after),
         OpensNothing, CountsFor(t)
  PROVE  IInv'
  <1>1. Free("adopt")
    BY DEF Free, Trying, Between
  <1> QED
    BY <1>1, OpenRowsAreBreaks, FreelyGoes, FreelyTurns DEF FindsRow

LEMMA ReviewingOpens ==
  ASSUME IInv, NEW t \in Threads, Reviewing(t) PROVE IInv'
  <1>1. DataOK /\ mine[t] \in Breaks \cup {None} /\ None \in Breaks \cup {None}
    BY DEF IInv, ControlOK, PlacesOK
  <1>2. CASE Seeks(t)
    <2>1. DataOK' /\ OpensNothing /\ CountsFor(t)
      BY <1>1, <1>2, GroupsStand DEF Seeks, DataOK, OpensNothing, CountsFor
    <2>2. Free("review")
      BY DEF Free, Trying, Between
    <2> QED
      BY <1>2, <2>1, <2>2, FindsRowOpens DEF Seeks
  <1>3. CASE Reviews(t)
    <2> DEFINE found == IF corr \in OpenRows THEN corr ELSE Newest(OpenRows)
    <2>1. found \in Breaks \cup {None}
      BY OpenRowsAreBreaks DEF OpenRows
    <2>2. DataOK' /\ OpensNothing /\ CountsFor(t)
      BY <1>1, <1>3, GroupsStand DEF Reviews, DataOK, OpensNothing, CountsFor
    <2>3. GotoWith(t, IF found = None THEN AfterReview(t) ELSE "remind", found)
      BY <1>3 DEF Reviews
    <2> HIDE DEF found
    <2>4. CASE found = None
      BY <2>1, <2>2, <2>3, <2>4, AfterwardsFree, FreelyTurns
    <2>5. CASE found # None
      <3>1. Licence(t, "remind") <= Licence(t, at[t])
        <4>1. Licence(t, "remind") = 0 /\ Licence(t, at[t]) \in 0 .. 2
          BY LicenceIsNat DEF Licence, Between
        <4> QED
          BY <4>1
      <3>2. Pays(t, "remind")
        BY <2>2, <3>1, PaysNothing DEF OpensNothing
      <3>3. Counts(t, "remind")
        BY <2>2 DEF Counts, CountsFor, Trying
      <3> QED
        BY <2>1, <2>2, <2>3, <2>5, <3>2, <3>3, Turns
    <2> QED
      BY <2>4, <2>5
  <1>4. CASE Reminds(t)
    <2>1. mine[t] \in Breaks
      BY <1>1, <1>4 DEF IInv, ControlOK, RemindsOfOne, Reminds
    <2>2. ThreadOK' /\ minted' = minted /\ PlanOK' /\ fails' = fails
      BY <1>1, <1>4, <2>1 DEF Reminds, DataOK, ThreadOK, PlanOK
    <2>3. DataOK' /\ OpensNothing /\ CountsFor(t)
      BY <1>1, <1>4, <2>2, GroupsStand DEF Reminds, DataOK, OpensNothing, CountsFor
    <2> QED
      BY <1>1, <1>4, <2>3, AfterwardsFree, FreelyTurns DEF Reminds
  <1> QED
    BY <1>2, <1>3, <1>4, AdoptingOpens DEF Reviewing

LEMMA PumpOpens == IInv /\ PumpStep => IInv'
  <1> SUFFICES ASSUME IInv, PumpStep PROVE IInv'
    OBVIOUS
  <1>1. "pump" \in Threads
    BY DEF Threads
  <1>2. CASE StatusFollows
    <2>1. DataOK' /\ OpensNothing /\ CountsFor("pump")
      BY <1>2, GroupsStand DEF StatusFollows, IInv, DataOK, RuntimeOK, OpensNothing, CountsFor
    <2>2. Free("idle")
      BY DEF Free, Trying, Between
    <2> QED
      BY <1>1, <1>2, <2>1, <2>2, FreelyGoes DEF StatusFollows
  <1> QED
    BY <1>1, <1>2, ConfirmingOpens, LosingOpens, HandsOverOpens, ReviewingOpens, ClosingOpens
       DEF PumpStep

\* The timer takes over the licence of the pending Degraded.
LEMMA TimerOpens == IInv /\ TimerStep => IInv'
  <1> SUFFICES ASSUME IInv, TimerStep PROVE IInv'
    OBVIOUS
  <1>1. "timer" \in Threads
    BY DEF Threads
  <1>2. CASE TimerFires
    <2> DEFINE pc == IF link = "Degraded" /\ ~since THEN "confirm" ELSE "idle"
    <2>1. /\ DataOK' /\ minted' = minted /\ spent' = spent
          /\ Counts("timer", pc) /\ pc # "remind"
      BY <1>2, GroupsStand DEF TimerFires, IInv, DataOK, DegradedOK, Counts
    <2>2. Licence("timer", pc) <= 1 /\ Licence("timer", pc) \in Nat /\ Licence("timer", at["timer"]) = 0
      BY <1>2, LicenceAt DEF TimerFires
    <2>3. Bit(pending) = 1 /\ Bit(pending') = 0 /\ minted \in Nat /\ spent \in Nat
      BY <1>2 DEF TimerFires, Bit, IInv, DataOK, ThreadOK, SpentOK, Breaks, None
    <2>4. Pays("timer", pc)
      BY <2>1, <2>2, <2>3 DEF Pays
    <2> QED
      BY <1>1, <1>2, <2>1, <2>4, Goes DEF TimerFires
  <1> QED
    BY <1>1, <1>2, ConfirmingOpens DEF TimerStep

LEMMA LoopOpens == IInv /\ LoopStep => IInv'
  <1> SUFFICES ASSUME IInv, LoopStep PROVE IInv'
    OBVIOUS
  <1>1. "loop" \in Threads
    BY DEF Threads
  <1>2. CASE GraceOver
    <2>1. DataOK' /\ OpensNothing /\ CountsFor("loop")
      BY <1>2, GroupsStand DEF GraceOver, IInv, DataOK, OpensNothing, CountsFor
    <2>2. Free("handover")
      BY DEF Free, Trying, Between
    <2> QED
      BY <1>1, <1>2, <2>1, <2>2, FreelyGoes DEF GraceOver
  <1>3. CASE LoopEnds
    <2>1. DataOK' /\ UNCHANGED <<control, minted, pending, spent, fails>>
      BY <1>3, GroupsStand DEF LoopEnds, IInv, DataOK, DegradedOK
    <2>2. minted' + Bit(pending') + spent <= minted + Bit(pending) + spent'
      BY <2>1 DEF IInv, DataOK, ThreadOK, SpentOK, Bit, Breaks, None
    <2> QED
      BY <2>1, <2>2, NobodyMoves
  <1>4. Drops("loop") \/ Dropped("loop") => Connecting("loop")
    BY DEF Connecting
  <1> QED
    BY <1>1, <1>2, <1>3, <1>4, HandsOverOpens, ConnectingOpens, ReviewingOpens DEF LoopStep

\* Only a decision with attempts left starts one.
LEMMA DecidingOpens ==
  ASSUME IInv, OutOfWindow \/ Waits \/ BackupHandover \/ Attempts PROVE IInv'
  <1>1. "supervisor" \in Threads
    BY DEF Threads
  <1>2. ASSUME NEW saved \in BOOLEAN, Decides(saved)
        PROVE  DataOK' /\ OpensNothing /\ CountsFor("supervisor") /\ (saved => fails' = fails)
    <2>1. PlanOK' /\ (saved => fails' = fails)
      BY <1>2 DEF Decides, IInv, DataOK, PlanOK
    <2> QED
      BY <1>2, <2>1, GroupsStand DEF Decides, IInv, DataOK, OpensNothing, CountsFor
  <1>3. ASSUME NEW saved \in BOOLEAN, NEW pc, Decides(saved), Goto("supervisor", pc), Free(pc)
        PROVE  IInv'
    BY <1>1, <1>2, <1>3, FreelyGoes
  <1>4. Free("drop") /\ Free("review") /\ Free("idle") /\ Free("handover")
    BY DEF Free, Trying, Between
  <1>5. CASE OutOfWindow
    BY <1>3, <1>4, <1>5 DEF OutOfWindow
  <1>6. CASE Waits \/ BackupHandover
    <2>1. ("up" \notin saw) \in BOOLEAN
      OBVIOUS
    <2> QED
      BY <1>3, <1>4, <1>6, <2>1 DEF Waits, BackupHandover
  <1>7. CASE Attempts
    <2>1. CASE fails >= MaxAttempts
      BY <1>3, <1>4, <1>7, <2>1 DEF Attempts
    <2>2. CASE ~(fails >= MaxAttempts)
      <3>1. DataOK' /\ OpensNothing /\ fails' = fails /\ Goto("supervisor", "enter")
        BY <1>2, <1>7, <2>2 DEF Attempts
      <3>2. Licence("supervisor", "enter") <= Licence("supervisor", at["supervisor"])
        <4>1. Licence("supervisor", "enter") = 0 /\ Licence("supervisor", at["supervisor"]) \in 0 .. 2
          BY LicenceIsNat, LicenceAt DEF Trying
        <4> QED
          BY <4>1
      <3>3. Pays("supervisor", "enter")
        BY <1>1, <3>1, <3>2, PaysNothing DEF OpensNothing
      <3>4. Counts("supervisor", "enter")
        BY <2>2, <3>1 DEF Counts, IInv, DataOK, PlanOK
      <3> QED
        BY <1>1, <3>1, <3>3, <3>4, Goes
    <2> QED
      BY <2>1, <2>2
  <1> QED
    BY <1>5, <1>6, <1>7

LEMMA SupervisorOpens == IInv /\ SupervisorStep => IInv'
  <1> SUFFICES ASSUME IInv, SupervisorStep PROVE IInv'
    OBVIOUS
  <1>1. "supervisor" \in Threads /\ DataOK
    BY DEF Threads, IInv
  <1>2. Free("ensure") /\ Free("close") /\ Free("decide") /\ Free("review")
    BY DEF Free, Trying, Between
  <1>3. CASE Tick
    <2>1. PlanOK'
      BY <1>1, <1>3 DEF Tick, DataOK, PlanOK
    <2>2. DataOK' /\ OpensNothing /\ CountsFor("supervisor")
      BY <1>1, <1>3, <2>1, GroupsStand DEF Tick, DataOK, OpensNothing, CountsFor
    <2> QED
      BY <1>1, <1>2, <1>3, <2>2, FindsRowOpens DEF Tick
  <1>4. CASE Ensures
    <2>1. DataOK' /\ OpensNothing /\ CountsFor("supervisor")
      BY <1>1, <1>4, GroupsStand DEF Ensures, DataOK, OpensNothing, CountsFor
    <2> QED
      BY <1>1, <1>2, <1>4, <2>1, FreelyGoes DEF Ensures
  <1>5. CASE Heals
    <2>1. DataOK' /\ OpensNothing /\ CountsFor("supervisor")
      BY <1>1, <1>5, GroupsStand DEF Heals, DataOK, OpensNothing, CountsFor
    <2> QED
      BY <1>1, <1>2, <1>5, <2>1, FreelyGoes DEF Heals
  <1> QED
    BY <1>1, <1>3, <1>4, <1>5, DecidingOpens, ReviewingOpens, ClosingOpens, HandsOverOpens,
       ConnectingOpens, LosingOpens DEF SupervisorStep

LEMMA OperatorOpens == IInv /\ OperatorStep => IInv'
  <1>1. "operator" \in Threads
    BY DEF Threads
  <1> QED
    BY <1>1, ReviewingOpens, ConnectingOpens, ClosingOpens, LosingOpens DEF OperatorStep

\* A step of no thread that adds no licence without a trouble.
LEMMA OutsideOpens ==
  ASSUME IInv, DataOK', UNCHANGED <<control, minted, pending>>, spent <= spent',
         fails' = fails \/ fails' <= MaxAttempts
  PROVE  IInv'
  <1>1. minted \in Nat /\ spent \in Nat /\ spent' \in Nat /\ Bit(pending) \in Nat
    BY DEF IInv, DataOK, ThreadOK, SpentOK, Bit, Breaks, None
  <1>2. minted' = minted /\ Bit(pending') = Bit(pending)
    OBVIOUS
  <1>3. minted' + Bit(pending') + spent <= minted + Bit(pending) + spent'
    BY <1>1, <1>2
  <1> QED
    BY <1>3, NobodyMoves

LEMMA JournalOpens == IInv /\ JournalStep => IInv'
  <1> SUFFICES ASSUME IInv, NEW c \in Breaks, WriteOpen(c) PROVE IInv'
    BY DEF JournalStep
  <1>1. DataOK
    BY DEF IInv
  <1>2. SpentOK' /\ spent <= spent'
    BY <1>1, TroubleCosts, GroupsStand DEF WriteOpen, DataOK
  <1>3. JournalOK'
    BY <1>1 DEF WriteOpen, DataOK, JournalOK
  <1>4. /\ DataOK' /\ UNCHANGED <<control, minted, pending>>
        /\ fails' = fails
    BY <1>1, <1>2, <1>3, GroupsStand DEF WriteOpen, DataOK
  <1> QED
    BY <1>2, <1>4, OutsideOpens

\* A state of the link: a trouble gives the pump its licence, and a pending
\* Degraded passes on its own.
LEMMA ReceiveOpens == ASSUME IInv, NEW s \in States, Receive(s) PROVE IInv'
  <1>1. "pump" \in Threads /\ DataOK /\ at["pump"] = "idle"
    BY DEF Threads, IInv, Receive
  <1>2. s = "Live" \/ s = "Degraded" \/ s = "Down"
    BY DEF States
  <1>3. UNCHANGED <<session, manager, thread, journal, plan>> /\ line' = s
    BY DEF Receive
  <1>4. CASE s = "Live"
    <2>1. Live
      BY <1>4 DEF Receive
    <2>2. RuntimeOK' /\ DegradedOK'
      BY <1>1, <1>3, <2>1 DEF Live, DataOK, RuntimeOK, DegradedOK, States
    <2>3. DataOK' /\ OpensNothing /\ CountsFor("pump")
      BY <1>1, <1>3, <2>1, <2>2, GroupsStand DEF Live, DataOK, OpensNothing, CountsFor
    <2>4. Free("close")
      BY DEF Free, Trying, Between
    <2> QED
      BY <1>1, <2>1, <2>3, <2>4, FreelyGoes DEF Live
  <1>5. CASE s = "Degraded"
    <2>1. Degraded
      BY <1>5 DEF Receive
    <2>2. SpentOK' /\ spent \in Nat /\ spent' \in Nat /\ spent + 1 <= spent'
      BY <1>1, <2>1, TroubleCosts DEF Degraded, DataOK
    <2>3. RuntimeOK' /\ DegradedOK'
      BY <1>1, <1>3, <2>1 DEF Degraded, DataOK, RuntimeOK, DegradedOK, States
    <2>4. DataOK' /\ fails' = fails /\ minted' = minted
      BY <1>1, <1>3, <2>2, <2>3, GroupsStand DEF DataOK
    <2>5. minted \in Nat /\ Bit(pending) \in Nat /\ Bit(pending') <= 1 /\ Bit(pending') \in Nat
      BY <1>1 DEF DataOK, ThreadOK, Bit, Breaks, None
    <2>6. minted' + Bit(pending') + spent <= minted + Bit(pending) + spent'
      BY <2>2, <2>4, <2>5
    <2>7. UNCHANGED control
      BY <2>1 DEF Degraded
    <2> QED
      BY <2>4, <2>6, <2>7, NobodyMoves
  <1>6. CASE s = "Down"
    <2> DEFINE pc == IF pending /\ ~since THEN "confirm" ELSE IF link = "Down" THEN "idle" ELSE "lost"
    <2>1. Down
      BY <1>6 DEF Receive
    <2>2. SpentOK' /\ spent \in Nat /\ spent' \in Nat /\ spent + 1 <= spent'
      BY <1>1, <2>1, TroubleCosts DEF Down, DataOK
    <2>3. RuntimeOK' /\ DegradedOK'
      BY <1>1, <1>3, <2>1 DEF Down, DataOK, RuntimeOK, DegradedOK, States
    <2>4. DataOK' /\ fails' = fails /\ minted' = minted
      BY <1>1, <1>3, <2>2, <2>3, GroupsStand DEF DataOK
    <2>5. /\ minted \in Nat /\ Bit(pending') = 0 /\ Bit(pending) \in Nat
          /\ pending => Bit(pending) = 1
      BY <1>1, <2>1 DEF Down, DataOK, ThreadOK, Bit, Breaks, None
    <2>6. /\ Licence("pump", at["pump"]) = 0
          /\ Licence("pump", pc) = IF pending /\ ~since THEN 2 ELSE IF link = "Down" THEN 0 ELSE 1
      BY <1>1, LicenceAt
    <2>7. Pays("pump", pc)
      BY <2>2, <2>4, <2>5, <2>6 DEF Pays
    <2>8. Counts("pump", pc) /\ pc # "remind" /\ Goto("pump", pc)
      BY <2>1, <2>4 DEF Counts, Down
    <2> HIDE DEF pc
    <2> QED
      BY <1>1, <2>4, <2>7, <2>8, Goes
  <1> QED
    BY <1>2, <1>4, <1>5, <1>6

LEMMA ConnectFailsOpens ==
  ASSUME IInv, NEW t \in {"supervisor", "operator"}, ConnectFails(t) PROVE IInv'
  <1> DEFINE pc == IF mine[t] = None THEN "lost" ELSE "idle"
  <1>1. t \in Threads /\ DataOK /\ at[t] \in Trying /\ None \in Breaks \cup {None}
    BY DEF Threads, IInv, ConnectFails, Trying
  <1>2. SpentOK' /\ spent \in Nat /\ spent' \in Nat /\ spent + 1 <= spent'
    BY <1>1, TroubleCosts DEF ConnectFails, DataOK
  <1>3. t = "supervisor" => fails <= MaxAttempts
    BY <1>1 DEF IInv, ControlOK, Attempting
  <1>4. PlanOK'
    BY <1>1, <1>3 DEF ConnectFails, DataOK, PlanOK
  <1>5. DataOK' /\ minted' = minted /\ pending' = pending
    BY <1>1, <1>2, <1>4, GroupsStand DEF ConnectFails, DataOK
  <1>6. Pays(t, pc)
    <2>1. Licence(t, pc) \in 0 .. 1 /\ Licence(t, at[t]) = 0
      BY <1>1, LicenceAt
    <2>2. minted \in Nat /\ Bit(pending) \in Nat
      BY <1>1 DEF DataOK, ThreadOK, Bit, Breaks, None
    <2> QED
      BY <1>2, <1>5, <2>1, <2>2 DEF Pays
  <1>7. Counts(t, pc) /\ pc # "remind" /\ GotoWith(t, pc, None)
    BY DEF ConnectFails, Counts, Trying
  <1> HIDE DEF pc
  <1> QED
    BY <1>1, <1>5, <1>6, <1>7, Turns

LEMMA OperatorTurns ==
  ASSUME IInv, OperatorConnects \/ OperatorDisconnects PROVE IInv'
  <1>1. "operator" \in Threads /\ DataOK /\ at["operator"] = "idle"
    BY DEF Threads, IInv, OperatorConnects, OperatorDisconnects
  <1>2. SpentOK' /\ spent \in Nat /\ spent' \in Nat /\ spent + 1 <= spent'
    BY <1>1, TroubleCosts DEF OperatorConnects, OperatorDisconnects, DataOK
  <1>3. CASE OperatorConnects
    <2>1. DataOK' /\ OpensNothing /\ fails' = fails
      BY <1>1, <1>2, <1>3, GroupsStand DEF OperatorConnects, DataOK, OpensNothing
    <2>2. (IF since THEN corr ELSE None) \in Breaks \cup {None}
      BY <1>1 DEF DataOK, ManagerOK
    <2>3. Licence("operator", "enter") = 0 /\ Licence("operator", at["operator"]) = 0
      BY <1>1, LicenceAt DEF Trying
    <2>4. Pays("operator", "enter")
      BY <1>1, <2>1, <2>3, PaysNothing DEF OpensNothing
    <2>5. Counts("operator", "enter")
      BY <2>1 DEF Counts
    <2> QED
      BY <1>1, <1>3, <2>1, <2>2, <2>4, <2>5, Turns DEF OperatorConnects
  <1>4. CASE OperatorDisconnects
    <2>1. PlanOK' /\ fails' <= MaxAttempts
      <3>1. fails' = MaxAttempts /\ fails' \in 0 .. MaxAttempts + 1 /\ fails' <= MaxAttempts
        BY <1>4 DEF OperatorDisconnects
      <3>2. auto' \in BOOLEAN /\ UNCHANGED <<desired, warned, saw>>
        BY <1>4 DEF OperatorDisconnects
      <3> QED
        BY <1>1, <3>1, <3>2 DEF DataOK, PlanOK
    <2>2. DataOK' /\ OpensNothing /\ CountsFor("operator")
      BY <1>1, <1>2, <1>4, <2>1, GroupsStand DEF OperatorDisconnects, DataOK, OpensNothing, CountsFor
    <2>3. Free("seek")
      BY DEF Free, Trying, Between
    <2> QED
      BY <1>1, <1>4, <2>2, <2>3, FreelyGoes DEF OperatorDisconnects
  <1> QED
    BY <1>3, <1>4

LEMMA OutsideKeeps ==
  ASSUME IInv, ForgetsClose \/ AutoOn \/ WindowMoves PROVE IInv'
  <1>1. DataOK
    BY DEF IInv
  <1>2. SpentOK' /\ spent <= spent'
    BY <1>1, TroubleCosts, GroupsStand DEF ForgetsClose, AutoOn, WindowMoves, DataOK
  <1>3. PlanOK' /\ (fails' = fails \/ fails' <= MaxAttempts)
    <2>1. CASE ForgetsClose
      BY <1>1, <2>1, GroupsStand DEF ForgetsClose
    <2>2. CASE AutoOn
      <3>1. fails' = 0 /\ fails' \in 0 .. MaxAttempts + 1 /\ fails' <= MaxAttempts
        BY <2>2 DEF AutoOn
      <3>2. auto' \in BOOLEAN /\ UNCHANGED <<desired, warned, saw>>
        BY <2>2 DEF AutoOn
      <3> QED
        BY <1>1, <3>1, <3>2 DEF DataOK, PlanOK
    <2>3. CASE WindowMoves
      <3>1. desired' \in BOOLEAN /\ UNCHANGED <<auto, fails, warned, saw>>
        BY <2>3 DEF WindowMoves
      <3> QED
        BY <1>1, <3>1 DEF DataOK, PlanOK
    <2> QED
      BY <2>1, <2>2, <2>3
  <1>4. ManagerOK'
    BY <1>1 DEF ForgetsClose, AutoOn, WindowMoves, manager, DataOK, ManagerOK
  <1>5. DataOK' /\ UNCHANGED <<control, minted, pending>>
    BY <1>1, <1>2, <1>3, <1>4, GroupsStand DEF ForgetsClose, AutoOn, WindowMoves, DataOK
  <1> QED
    BY <1>2, <1>3, <1>5, OutsideOpens

\* After a restart nothing is under way, and no more is minted than before.
LEMMA RestartOpens == ASSUME IInv, Restart PROVE IInv'
  <1>1. DataOK
    BY DEF IInv
  <1>2. SpentOK' /\ spent \in Nat /\ spent' \in Nat /\ spent + 1 <= spent'
    BY <1>1, TroubleCosts DEF Restart, DataOK
  <1>3. RuntimeOK' /\ ManagerOK' /\ DegradedOK'
    BY DEF Restart, RuntimeOK, ManagerOK, DegradedOK
  <1>4. ThreadOK' /\ JournalOK' /\ PlanOK'
    BY <1>1 DEF Restart, DataOK, ThreadOK, JournalOK, PlanOK
  <1>5. at' = [t \in Threads |-> "idle"] /\ mine' = [t \in Threads |-> None]
    BY DEF Restart
  <1>6. PlacesOK' /\ RemindsOfOne' /\ Attempting'
    BY <1>5 DEF PlacesOK, RemindsOfOne, Attempting, Trying, Threads
  <1>7. Licensed'
    <2>1. Licences(at') = 0 /\ Bit(pending') = 0
      BY <1>5, LicenceAt DEF Licences, Threads, Bit, Restart
    <2>2. minted' = minted /\ minted \in Nat /\ Bit(pending) \in Nat /\ Licences(at) \in Nat
      BY <1>1, LicenceIsNat DEF Restart, DataOK, ThreadOK, Bit, Breaks, None, Licences
    <2> QED
      BY <1>2, <2>1, <2>2 DEF IInv, ControlOK, Licensed
  <1> QED
    BY <1>2, <1>3, <1>4, <1>6, <1>7 DEF IInv, DataOK, ControlOK

LEMMA EnvironmentOpens == IInv /\ Environment => IInv'
  BY ReceiveOpens, ConnectFailsOpens, OperatorTurns, OutsideKeeps, RestartOpens DEF Environment

\* The invariant: types, what each thread's local variable holds where it is
\* used, and a licence for each break that may still be opened.
THEOREM LinkInvariant == Spec => []IInv
  <1>1. Init => IInv
    <2> SUFFICES ASSUME Init PROVE IInv
      OBVIOUS
    <2>1. DataOK
      <3>1. RuntimeOK /\ ManagerOK /\ DegradedOK
        BY DEF Init, RuntimeOK, ManagerOK, DegradedOK
      <3>2. ThreadOK /\ JournalOK
        BY DEF Init, ThreadOK, JournalOK
      <3>3. PlanOK /\ SpentOK
        BY DEF Init, PlanOK, SpentOK
      <3> QED
        BY <3>1, <3>2, <3>3 DEF DataOK
    <2>2. PlacesOK /\ RemindsOfOne /\ Attempting
      BY DEF Init, PlacesOK, RemindsOfOne, Attempting, Trying, Threads
    <2>3. Licences(at) = 0 /\ Bit(pending) = 0
      BY LicenceAt DEF Init, Licences, Threads, Bit
    <2>4. Licensed
      BY <2>3 DEF Init, Licensed, None
    <2> QED
      BY <2>1, <2>2, <2>4 DEF IInv, ControlOK
  <1>2. IInv /\ [Next]_vars => IInv'
    <2> SUFFICES ASSUME IInv, [Next]_vars PROVE IInv'
      OBVIOUS
    <2>1. CASE Next
      BY <2>1, PumpOpens, TimerOpens, LoopOpens, SupervisorOpens, OperatorOpens, JournalOpens,
         EnvironmentOpens DEF Next
    <2>2. CASE UNCHANGED vars
      <3>1. /\ UNCHANGED <<runtime, manager, degraded, thread, journal, plan, spent>>
            /\ UNCHANGED control
        BY <2>2 DEF vars
      <3>2. DataOK' /\ UNCHANGED <<minted, pending, fails>> /\ spent <= spent'
        BY <3>1, GroupsStand DEF IInv, DataOK
      <3> QED
        BY <3>1, <3>2, OutsideOpens
    <2> QED
      BY <2>1, <2>2
  <1> QED
    BY <1>1, <1>2, PTL DEF Spec

\* TypeOK: no trouble, however it is raced, opens more breaks than one, and the
\* attempts of Auto pass their limit by one at most (HandleLinkState,
\* ConfirmDegradedIncident, OpenLinkLost, ReconcileOne).
THEOREM LinkTyped == Spec => []TypeOK
  BY LinkInvariant, InvIsTyped, PTL
=============================================================================
