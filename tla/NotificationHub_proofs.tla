---------------------- MODULE NotificationHub_proofs ----------------------
(***************************************************************************)
(* Safety of the notification hub for every set of subjects and threads    *)
(* and every capacity: typing, the bound of the ring, that a resolved      *)
(* incident says nothing more, and that every atom is accounted for.       *)
(***************************************************************************)
EXTENDS NotificationHub, FiniteSetTheorems, TLAPS

-----------------------------------------------------------------------------
LEMMA DropFirst ==
  ASSUME NEW S, NEW q \in Seq(S), NEW k \in 0..Len(q)
  PROVE  /\ SubSeq(q, k + 1, Len(q)) \in Seq(S)
         /\ Len(SubSeq(q, k + 1, Len(q))) = Len(q) - k
OBVIOUS

(***************************************************************************)
(* Putting a sequence of atoms into the ring keeps the counter equal to    *)
(* the length and the length within the capacity.                          *)
(***************************************************************************)
LEMMA PutIntoRingBounded ==
  ASSUME NEW S, ring \in Seq(S), RingBounded, NEW s \in Seq(S), PutIntoRing(s)
  PROVE  ring' \in Seq(S) /\ count' \in Nat /\ RingBounded'
<1> DEFINE full == ring \o s
           cut  == Evicted(full, count + Len(s))
<1>1. full \in Seq(S) /\ Len(full) = Len(ring) + Len(s)
  OBVIOUS
<1>2. count = Len(ring) /\ Len(ring) \in Nat /\ Len(s) \in Nat /\ Capacity \in Nat
  BY HubAssumption DEF RingBounded
<1>3. cut \in 0..Len(full) /\ Len(full) - cut <= Capacity
  BY <1>1, <1>2 DEF Evicted
<1>4. ring' = SubSeq(full, cut + 1, Len(full)) /\ count' = count + Len(s) - cut
  BY DEF PutIntoRing
<1> HIDE DEF full, cut
<1>5. ring' \in Seq(S) /\ Len(ring') = Len(full) - cut
  BY <1>1, <1>3, <1>4, DropFirst
<1> QED
  BY <1>1, <1>2, <1>3, <1>4, <1>5 DEF RingBounded

(***************************************************************************)
(* What a query for the youngest rows returns is a sequence of rows.       *)
(***************************************************************************)
LEMMA QueriesReturnRows ==
  ASSUME NEW S, NEW n \in Nat, NEW q \in YoungestOf(S, n)
  PROVE  q \in Seq(S)
BY DEF YoungestOf

LEMMA EpisodeRowsType ==
  ASSUME TypeOK, NEW c, NEW q \in EpisodeRows(c)
  PROVE  q \in Seq(Atoms)
<1> DEFINE rows == {a \in log : a.corr = c}
<1>1. rows \subseteq log /\ IsFiniteSet(log) /\ log \subseteq Atoms
  BY DEF TypeOK
<1>2. Cardinality(rows) \in Nat
  BY <1>1, FS_Subset, FS_CardinalityType
<1>3. q \in YoungestOf(rows, Cardinality(rows))
  BY DEF EpisodeRows
<1> HIDE DEF rows
<1>4. q \in Seq(rows)
  BY <1>2, <1>3, QueriesReturnRows
<1> QED
  BY <1>1, <1>4

LEMMA RecentRowsType ==
  ASSUME TypeOK, NEW q \in RecentRows
  PROVE  q \in Seq(Atoms)
<1> DEFINE n == IF Cardinality(log) < Capacity THEN Cardinality(log) ELSE Capacity
<1>1. n \in Nat
  BY FS_CardinalityType, HubAssumption DEF TypeOK
<1>2. q \in YoungestOf(log, n)
  BY DEF RecentRows
<1> HIDE DEF n
<1>3. q \in Seq(log)
  BY <1>1, <1>2, QueriesReturnRows
<1> QED
  BY <1>3 DEF TypeOK

-----------------------------------------------------------------------------
(***************************************************************************)
(* The inductive invariant.  Besides typing and the bound of the ring it   *)
(* says why nobody speaks after `resolved`: the incidents in the map       *)
(* belong to their subjects and were not resolved since they entered it.   *)
(***************************************************************************)
OpenIsLive ==
  \A s \in Subjects : open[s] # NoIncident =>
    open[s].corr[1] = s /\ open[s].corr \notin ended

IInv == TypeOK /\ RingBounded /\ OpenIsLive

LEMMA InitIInv == Init => IInv
<1> SUFFICES ASSUME Init PROVE IInv
  OBVIOUS
<1>1. TypeOK
  <2>1. IsFiniteSet({})
    BY FS_EmptySet
  <2> QED
    BY <2>1 DEF Init, TypeOK, Idle, Job
<1>2. RingBounded
  BY HubAssumption DEF Init, RingBounded
<1> QED
  BY <1>1, <1>2 DEF Init, IInv, OpenIsLive

-----------------------------------------------------------------------------
(***************************************************************************)
(* What issuing an atom does to the typing of everything but the map.      *)
(***************************************************************************)
LEMMA IssueTypes ==
  ASSUME TypeOK, RingBounded, NEW t \in Threads, NEW a \in Atoms, Issue(t, a),
         open' \in [Subjects -> Incident \cup {NoIncident}], ended' \subseteq Corrs
  PROVE  TypeOK' /\ RingBounded'
<1>1. <<a>> \in Seq(Atoms)
  OBVIOUS
<1>2. ring' \in Seq(Atoms) /\ count' \in Nat /\ RingBounded'
  BY <1>1, PutIntoRingBounded DEF TypeOK, Issue
<1>3. job' \in [Threads -> Job]
  <2>1. [step |-> "persist", atoms |-> <<a>>] \in Job
    BY <1>1 DEF Job
  <2> QED
    BY <2>1 DEF TypeOK, Issue
<1>4. issued' \in SUBSET Atoms /\ clock' \in Nat \ {0}
  BY DEF TypeOK, Issue
<1> QED
  BY <1>2, <1>3, <1>4 DEF TypeOK, Issue, pipeline

LEMMA StampIsMoment == TypeOK => Stamps \subseteq Nat
BY HubAssumption DEF TypeOK, Stamps

LEMMA IssueForTypes ==
  ASSUME TypeOK, RingBounded, NEW t \in Threads, NEW c \in Corrs, IssueFor(t, c),
         open' \in [Subjects -> Incident \cup {NoIncident}], ended' \subseteq Corrs
  PROVE  TypeOK' /\ RingBounded'
<1>1. PICK ts \in Stamps :
        Issue(t, [id |-> clock, ts |-> ts, corr |-> c, of |-> "incident"])
  BY DEF IssueFor
<1>2. [id |-> clock, ts |-> ts, corr |-> c, of |-> "incident"] \in Atoms
  BY StampIsMoment DEF TypeOK, Atoms
<1> QED
  BY <1>1, <1>2, IssueTypes

(***************************************************************************)
(* Changing the map keeps it live as long as the new incident belongs to   *)
(* the subject and is not, or no longer, among the ended ones; ids of      *)
(* other subjects do not matter.                                           *)
(***************************************************************************)
LEMMA MapStaysLive ==
  ASSUME TypeOK, OpenIsLive, NEW s \in Subjects, NEW e \in Incident \cup {NoIncident},
         open' = [open EXCEPT ![s] = e],
         e # NoIncident => e.corr[1] = s /\ e.corr \notin ended',
         \A c \in ended' : c \in ended \/ c[1] = s
  PROVE  OpenIsLive'
<1> SUFFICES ASSUME NEW r \in Subjects, open'[r] # NoIncident
             PROVE  open'[r].corr[1] = r /\ open'[r].corr \notin ended'
  BY DEF OpenIsLive
<1>1. CASE r = s
  BY <1>1 DEF TypeOK
<1>2. CASE r # s
  <2>1. open'[r] = open[r]
    BY <1>2 DEF TypeOK
  <2> QED
    BY <1>2, <2>1 DEF OpenIsLive
<1> QED
  BY <1>1, <1>2

LEMMA CorrOfSubject ==
  ASSUME NEW s \in Subjects, NEW c \in {s} \X Uids
  PROVE  c \in Corrs /\ c[1] = s
BY DEF Corrs

\* A new status leaves the incident live; its atom goes out under its own id.
LEMMA StatusStep ==
  ASSUME IInv, NEW t \in Threads, NEW s \in Subjects, NEW status \in {"active", "underway"},
         open[s] # NoIncident, open' = [open EXCEPT ![s].status = status],
         IssueFor(t, open[s].corr), UNCHANGED ended
  PROVE  IInv'
<1> USE DEF IInv
<1> DEFINE e == [open[s] EXCEPT !.status = status]
<1>1. open[s] \in Incident /\ open[s].corr \in Corrs
  BY DEF TypeOK, Incident
<1>2. e \in Incident /\ e.corr = open[s].corr /\ open' = [open EXCEPT ![s] = e]
  BY <1>1 DEF TypeOK, Incident
<1> HIDE DEF e
<1>3. open' \in [Subjects -> Incident \cup {NoIncident}] /\ ended' \subseteq Corrs
  BY <1>2 DEF TypeOK
<1>4. TypeOK' /\ RingBounded'
  BY <1>1, <1>3, IssueForTypes
<1>5. OpenIsLive'
  BY <1>2, MapStaysLive DEF OpenIsLive
<1> QED
  BY <1>4, <1>5

LEMMA CallerStep ==
  ASSUME IInv, NEW t \in Threads, NEW s \in Subjects,
         Open(t, s) \/ Progress(t, s) \/ AppendAtom(t, s) \/ Resolve(t, s)
  PROVE  IInv'
<1> USE DEF IInv
<1>1. CASE Open(t, s)
  <2>1. PICK c \in {s} \X Uids :
               /\ open' = [open EXCEPT ![s] = [corr |-> c, status |-> "active"]]
               /\ ended' = ended \ {c}
               /\ IssueFor(t, c)
    BY <1>1 DEF Open
  <2> DEFINE e == [corr |-> c, status |-> "active"]
  <2>2. c \in Corrs /\ c[1] = s /\ e \in Incident /\ e.corr = c
    BY CorrOfSubject DEF Incident
  <2>3. open' = [open EXCEPT ![s] = e]
    BY <2>1
  <2> HIDE DEF e
  <2>4. open' \in [Subjects -> Incident \cup {NoIncident}] /\ ended' \subseteq Corrs
    BY <2>1, <2>2, <2>3 DEF TypeOK
  <2>5. TypeOK' /\ RingBounded'
    BY <2>1, <2>2, <2>4, IssueForTypes
  <2>6. OpenIsLive'
    BY <2>1, <2>2, <2>3, MapStaysLive
  <2> QED
    BY <2>5, <2>6
<1>2. CASE Progress(t, s)
  BY <1>2, StatusStep DEF Progress
<1>3. CASE AppendAtom(t, s)
  BY <1>3, StatusStep DEF AppendAtom
<1>4. CASE Resolve(t, s)
  <2>1. open[s] \in Incident /\ open[s].corr \in Corrs /\ open[s].corr[1] = s
    BY <1>4 DEF Resolve, TypeOK, Incident, OpenIsLive
  <2>2. /\ open' = [open EXCEPT ![s] = NoIncident]
        /\ ended' = ended \cup {open[s].corr}
        /\ IssueFor(t, open[s].corr)
    BY <1>4 DEF Resolve
  <2>3. open' \in [Subjects -> Incident \cup {NoIncident}] /\ ended' \subseteq Corrs
    BY <2>1, <2>2 DEF TypeOK
  <2>4. TypeOK' /\ RingBounded'
    BY <2>1, <2>2, <2>3, IssueForTypes
  <2>5. OpenIsLive'
    BY <2>1, <2>2, MapStaysLive
  <2> QED
    BY <2>4, <2>5
<1> QED
  BY <1>1, <1>2, <1>3, <1>4

LEMMA FreeStandingStep ==
  ASSUME IInv, NEW t \in Threads, Publish(t) \/ Ingest(t)
  PROVE  IInv'
<1> USE DEF IInv
<1>1. UNCHANGED incidents
  BY DEF Publish, Ingest
<1>2. PICK id \in {clock} \cup ClientIds, c \in Corrs \cup {NoCorr}, ts \in Stamps :
        Issue(t, [id |-> id, ts |-> ts, corr |-> c, of |-> "caller"])
  BY DEF Publish, Ingest
<1>3. [id |-> id, ts |-> ts, corr |-> c, of |-> "caller"] \in Atoms
  BY StampIsMoment DEF TypeOK, Atoms
<1>4. TypeOK' /\ RingBounded'
  BY <1>1, <1>2, <1>3, IssueTypes DEF TypeOK, incidents
<1>5. OpenIsLive'
  BY <1>1 DEF incidents, OpenIsLive
<1> QED
  BY <1>4, <1>5

LEMMA LiveUnchanged ==
  ASSUME OpenIsLive, UNCHANGED incidents
  PROVE  OpenIsLive'
BY DEF OpenIsLive, incidents

LEMMA MapStep ==
  ASSUME IInv, NEW s \in Subjects, Adopt(s) \/ Forget(s)
  PROVE  IInv'
<1> USE DEF IInv
<1>1. PICK e \in Incident \cup {NoIncident} :
        /\ open' = [open EXCEPT ![s] = e]
        /\ e # NoIncident => e.corr[1] = s /\ e.corr \notin ended'
        /\ ended' \subseteq ended
  <2>1. CASE Adopt(s)
    <3>1. PICK c \in {s} \X Uids, status \in {"active", "underway"} :
            /\ open' = [open EXCEPT ![s] = [corr |-> c, status |-> status]]
            /\ ended' = ended \ {c}
      BY <2>1 DEF Adopt
    <3>2. [corr |-> c, status |-> status] \in Incident /\ c[1] = s
      BY CorrOfSubject DEF Incident
    <3> QED
      BY <3>1, <3>2
  <2>2. CASE Forget(s)
    BY <2>2 DEF Forget
  <2> QED
    BY <2>1, <2>2
<1>2. open' \in [Subjects -> Incident \cup {NoIncident}] /\ ended' \subseteq Corrs
  BY <1>1 DEF TypeOK
<1>3. TypeOK' /\ RingBounded'
  BY <1>2 DEF Adopt, Forget, TypeOK, RingBounded, pipeline
<1>4. OpenIsLive'
  BY <1>1, MapStaysLive
<1> QED
  BY <1>3, <1>4

LEMMA RemoveStep ==
  ASSUME IInv, NEW c \in Corrs, RemoveByCorrelationId(c)
  PROVE  IInv'
<1> USE DEF IInv
<1> DEFINE kept == {i \in DOMAIN ring : ring[i].corr # c}
           n    == Cardinality(kept)
<1>1. kept \subseteq 1..Len(ring) /\ Len(ring) \in Nat /\ ring \in [1..Len(ring) -> Atoms]
  BY DEF TypeOK
<1>2. n \in Nat
  <2>1. IsFiniteSet(1..Len(ring))
    BY <1>1, FS_Interval
  <2>2. IsFiniteSet(kept)
    BY <1>1, <2>1, FS_Subset
  <2> QED
    BY <2>2, FS_CardinalityType
<1>3. n < count /\ count' = n
  BY <1>1, <1>2 DEF RemoveByCorrelationId, TypeOK, RingBounded
<1>4. PICK at \in [1..n -> kept] : ring' = [i \in 1..n |-> ring[at[i]]]
  BY DEF RemoveByCorrelationId
<1> HIDE DEF n, kept
<1>5. ring' \in [1..n -> Atoms]
  BY <1>1, <1>4
<1>6. ring' \in Seq(Atoms) /\ Len(ring') = n
  BY <1>2, <1>5
<1>7. TypeOK' /\ RingBounded'
  BY <1>2, <1>3, <1>6, HubAssumption
     DEF RemoveByCorrelationId, TypeOK, RingBounded, pipeline, incidents
<1>8. OpenIsLive'
  BY LiveUnchanged DEF RemoveByCorrelationId
<1> QED
  BY <1>7, <1>8

(***************************************************************************)
(* The threads outside the lock, the endpoints and the writer.             *)
(***************************************************************************)
LEMMA ThreadStep ==
  ASSUME IInv, NEW t \in Threads,
         Dispatch(t) \/ (\E c \in Corrs : RestoreQuery(t, c))
  PROVE  IInv'
<1> USE DEF IInv
<1>0. job \in [Threads -> Job] /\ job[t] \in Job /\ Idle \in Job
  BY DEF TypeOK, Job, Idle
<1>1. CASE PersistEnqueue(t)
  <2>1. job[t].atoms \in Seq(Atoms) \ {<<>>}
    BY <1>0, <1>1 DEF PersistEnqueue, Job
  <2>2. job' \in [Threads -> Job]
    BY <1>0, <1>1 DEF PersistEnqueue
  <2>3. job[t].atoms[1] \in Atoms
    BY <2>1
  <2>4. queue' \in Seq(Atoms)
    BY <1>1, <2>3, HubAssumption DEF PersistEnqueue, Enqueued, TypeOK
  <2>5. lost' \in SUBSET Atoms
    BY <1>1, HubAssumption DEF PersistEnqueue, TypeOK
  <2>6. TypeOK' /\ RingBounded'
    BY <1>1, <2>2, <2>4, <2>5 DEF PersistEnqueue, TypeOK, RingBounded, hubState, incidents
  <2> QED
    BY <1>1, <2>6, LiveUnchanged DEF PersistEnqueue, hubState
<1>2. CASE RestoreHydrate(t)
  <2>1. job' \in [Threads -> Job]
    BY <1>0, <1>2 DEF RestoreHydrate
  <2>2. job[t].atoms \in Seq(Atoms)
    BY <1>0 DEF Job
  <2>3. ring' \in Seq(Atoms) /\ count' \in Nat /\ RingBounded'
    BY <1>2, <2>2, PutIntoRingBounded DEF RestoreHydrate, TypeOK
  <2>4. TypeOK'
    BY <1>2, <2>1, <2>3 DEF RestoreHydrate, TypeOK, pipeline, incidents
  <2> QED
    BY <1>2, <2>3, <2>4, LiveUnchanged DEF RestoreHydrate
<1>3. ASSUME NEW c \in Corrs, RestoreQuery(t, c)
      PROVE  IInv'
  <2>1. PICK rows \in EpisodeRows(c) \cup {<<>>} :
          job' = [job EXCEPT ![t] = [step |-> "hydrate", atoms |-> rows]]
    BY <1>3 DEF RestoreQuery
  <2>2. [step |-> "hydrate", atoms |-> rows] \in Job
    <3>1. CASE rows \in EpisodeRows(c)
      BY <3>1, EpisodeRowsType DEF Job
    <3>2. CASE rows = <<>>
      BY <3>2 DEF Job
    <3> QED
      BY <3>1, <3>2
  <2>3. job' \in [Threads -> Job]
    BY <1>0, <2>1, <2>2
  <2>4. TypeOK' /\ RingBounded'
    BY <1>3, <2>3 DEF RestoreQuery, TypeOK, RingBounded, hubState, pipeline, incidents
  <2> QED
    BY <1>3, <2>4, LiveUnchanged DEF RestoreQuery, hubState
<1> QED
  BY <1>1, <1>2, <1>3 DEF Dispatch

LEMMA RangeOfAtoms == \A q \in Seq(Atoms) : RangeOf(q) \subseteq Atoms /\ IsFiniteSet(RangeOf(q))
<1> SUFFICES ASSUME NEW q \in Seq(Atoms)
             PROVE  RangeOf(q) \subseteq Atoms /\ IsFiniteSet(RangeOf(q))
  OBVIOUS
<1>1. DOMAIN q = 1..Len(q) /\ Len(q) \in Nat
  OBVIOUS
<1>2. IsFiniteSet(DOMAIN q)
  BY <1>1, FS_Interval
<1>3. q \in Surjection(DOMAIN q, RangeOf(q))
  BY <1>1 DEF Surjection, RangeOf
<1> QED
  BY <1>1, <1>2, <1>3, FS_Surjection DEF RangeOf

LEMMA WriterStepKeeps ==
  ASSUME IInv, WriterStep
  PROVE  IInv'
<1> USE DEF IInv
<1> DEFINE W == [step : {"query", "hydrate", "drain", "store"}, atoms : Seq(Atoms)]
<1>0. writer \in W /\ [step |-> "drain", atoms |-> <<>>] \in W /\ queue \in Seq(Atoms)
  BY DEF TypeOK
<1>1. CASE WriterQuery
  <2>1. writer' \in W
    <3>1. CASE \E rows \in RecentRows : writer' = [step |-> "hydrate", atoms |-> rows]
      <4>1. PICK rows \in RecentRows : writer' = [step |-> "hydrate", atoms |-> rows]
        BY <3>1
      <4>2. rows \in Seq(Atoms)
        BY RecentRowsType
      <4> QED
        BY <4>1, <4>2
    <3> QED
      BY <1>0, <1>1, <3>1 DEF WriterQuery
  <2>2. TypeOK' /\ RingBounded'
    BY <1>1, <2>1 DEF WriterQuery, TypeOK, RingBounded, hubState, incidents
  <2> QED
    BY <1>1, <2>2, LiveUnchanged DEF WriterQuery, hubState
<1>2. CASE WriterHydrate
  <2>1. ring' \in Seq(Atoms) /\ count' \in Nat /\ RingBounded'
    BY <1>0, <1>2, PutIntoRingBounded DEF WriterHydrate, TypeOK, incidents
  <2>2. TypeOK'
    BY <1>0, <1>2, <2>1 DEF WriterHydrate, TypeOK, incidents
  <2> QED
    BY <1>2, <2>1, <2>2, LiveUnchanged DEF WriterHydrate
<1>3. CASE WriterRead
  <2>1. queue # <<>> /\ queue' = Tail(queue)
    BY <1>3 DEF WriterRead
  <2>2. queue' \in Seq(Atoms) /\ Head(queue) \in Atoms
    BY <1>0, <2>1
  <2>3. writer' \in W
    <3>1. Append(writer.atoms, Head(queue)) \in Seq(Atoms)
      BY <1>0, <2>2
    <3>2. [writer EXCEPT !.atoms = Append(writer.atoms, Head(queue))] \in W
      BY <1>0, <3>1
    <3> QED
      BY <1>0, <1>3, <3>2 DEF WriterRead
  <2>4. TypeOK' /\ RingBounded'
    BY <1>3, <2>2, <2>3 DEF WriterRead, TypeOK, RingBounded, hubState, incidents
  <2> QED
    BY <1>3, <2>4, LiveUnchanged DEF WriterRead, hubState
<1>4. CASE WriterFlush
  <2>1. writer' \in W
    BY <1>0, <1>4 DEF WriterFlush
  <2>2. TypeOK' /\ RingBounded'
    BY <1>4, <2>1 DEF WriterFlush, TypeOK, RingBounded, hubState, incidents
  <2> QED
    BY <1>4, <2>2, LiveUnchanged DEF WriterFlush, hubState
<1>5. CASE WriterStore
  <2>1. RangeOf(writer.atoms) \subseteq Atoms /\ IsFiniteSet(RangeOf(writer.atoms))
    BY <1>0, RangeOfAtoms
  <2>2. log' \in SUBSET Atoms /\ IsFiniteSet(log') /\ lost' \in SUBSET Atoms
    <3>1. log \in SUBSET Atoms /\ IsFiniteSet(log) /\ lost \in SUBSET Atoms
      BY DEF TypeOK
    <3>2. ASSUME NEW new \in Inserted(writer.atoms)
          PROVE  log \cup new \in SUBSET Atoms /\ IsFiniteSet(log \cup new)
      <4>1. new \subseteq RangeOf(writer.atoms)
        BY DEF Inserted
      <4>2. IsFiniteSet(new)
        BY <2>1, <4>1, FS_Subset
      <4> QED
        BY <2>1, <3>1, <4>1, <4>2, FS_Union
    <3> QED
      BY <1>5, <2>1, <3>1, <3>2 DEF WriterStore
  <2>3. TypeOK' /\ RingBounded'
    BY <1>0, <1>5, <2>2 DEF WriterStore, TypeOK, RingBounded, hubState, incidents
  <2> QED
    BY <1>5, <2>3, LiveUnchanged DEF WriterStore, hubState
<1> QED
  BY <1>1, <1>2, <1>3, <1>4, <1>5 DEF WriterStep

LEMMA CrashStep ==
  ASSUME IInv, Crash
  PROVE  IInv'
<1> USE DEF IInv
<1>1. InFlight \subseteq Atoms
  BY RangeOfAtoms DEF InFlight, TypeOK, Job
<1>2. lost' \in SUBSET Atoms
  BY <1>1, RangeOfAtoms DEF Crash, TypeOK
<1>3. job' \in [Threads -> Job]
  BY DEF Crash, Idle, Job
<1>4. TypeOK' /\ RingBounded'
  BY <1>2, <1>3, HubAssumption DEF Crash, TypeOK, RingBounded
<1>5. OpenIsLive'
  BY DEF Crash, OpenIsLive
<1> QED
  BY <1>4, <1>5

-----------------------------------------------------------------------------
(***************************************************************************)
(* The invariant holds in every reachable state of the hub.                *)
(***************************************************************************)
THEOREM HubInvariant == Spec => []IInv
<1>1. Init => IInv
  BY InitIInv
<1>2. IInv /\ [Next]_vars => IInv'
  <2> SUFFICES ASSUME IInv, [Next]_vars PROVE IInv'
    OBVIOUS
  <2>1. CASE UNCHANGED vars
    BY <2>1, LiveUnchanged DEF IInv, TypeOK, RingBounded, vars, incidents
  <2>2. CASE \E t \in Threads, s \in Subjects :
               Open(t, s) \/ Progress(t, s) \/ AppendAtom(t, s) \/ Resolve(t, s)
    BY <2>2, CallerStep
  <2>3. CASE \E t \in Threads : Publish(t) \/ Ingest(t) \/ Dispatch(t)
    BY <2>3, FreeStandingStep, ThreadStep
  <2>4. CASE \E s \in Subjects : Adopt(s) \/ Forget(s)
    BY <2>4, MapStep
  <2>5. CASE \E c \in Corrs : RemoveByCorrelationId(c)
    BY <2>5, RemoveStep
  <2>6. CASE \E t \in Threads, c \in Corrs : RestoreQuery(t, c)
    BY <2>6, ThreadStep
  <2>7. CASE WriterStep
    BY <2>7, WriterStepKeeps
  <2>8. CASE Crash
    BY <2>8, CrashStep
  <2> QED
    BY <2>1, <2>2, <2>3, <2>4, <2>5, <2>6, <2>7, <2>8 DEF Next
<1> QED
  BY <1>1, <1>2, PTL DEF Spec

(***************************************************************************)
(* Every variable of the hub keeps its type.                               *)
(***************************************************************************)
THEOREM HubTyped == Spec => []TypeOK
<1>1. IInv => TypeOK
  BY DEF IInv
<1> QED
  BY <1>1, HubInvariant, PTL

(***************************************************************************)
(* The ring's counter equals its length, and the length never exceeds the  *)
(* capacity, whoever pushes, hydrates or removes.                          *)
(***************************************************************************)
THEOREM RingIsBounded == Spec => []RingBounded
<1>1. IInv => RingBounded
  BY DEF IInv
<1> QED
  BY <1>1, HubInvariant, PTL

\* One step of EndedStaysEnded.
NobodySpeaksOfTheEnded ==
  \A a \in issued' \ issued :
    a.of = "incident" /\ a.corr \in ended
      => \E s \in Subjects : open[s] = NoIncident /\ open'[s] # NoIncident
                             /\ open'[s].corr = a.corr

LEMMA SilentStep ==
  ASSUME UNCHANGED issued
  PROVE  NobodySpeaksOfTheEnded
BY DEF NobodySpeaksOfTheEnded

\* An open incident was not resolved since it entered the map.
LEMMA OpenMaySpeak ==
  ASSUME OpenIsLive, NEW t \in Threads, NEW s \in Subjects, open[s] # NoIncident,
         IssueFor(t, open[s].corr)
  PROVE  NobodySpeaksOfTheEnded
BY DEF OpenIsLive, IssueFor, Issue, NobodySpeaksOfTheEnded

LEMMA OpeningSpeaks ==
  ASSUME TypeOK, NEW t \in Threads, NEW s \in Subjects, Open(t, s)
  PROVE  NobodySpeaksOfTheEnded
<1>1. PICK c \in {s} \X Uids :
        /\ open' = [open EXCEPT ![s] = [corr |-> c, status |-> "active"]]
        /\ IssueFor(t, c)
  BY DEF Open
<1>2. [corr |-> c, status |-> "active"] \in Incident
  BY CorrOfSubject DEF Incident
<1>3. open[s] = NoIncident /\ open'[s] # NoIncident /\ open'[s].corr = c
  <2>1. NoIncident \notin Incident
    BY HubAssumption DEF Incident, Corrs
  <2> QED
    BY <1>1, <1>2, <2>1 DEF Open, TypeOK
<1>4. \A a \in issued' \ issued : a.corr = c
  BY <1>1 DEF IssueFor, Issue
<1> QED
  BY <1>3, <1>4 DEF NobodySpeaksOfTheEnded

LEMMA CallersSpeakForThemselves ==
  ASSUME NEW t \in Threads, Publish(t) \/ Ingest(t)
  PROVE  NobodySpeaksOfTheEnded
<1>1. PICK a : a.of = "caller" /\ issued' = issued \cup {a}
  <2>1. PICK id, c, ts : Issue(t, [id |-> id, ts |-> ts, corr |-> c, of |-> "caller"])
    BY DEF Publish, Ingest
  <2> QED
    BY <2>1 DEF Issue
<1> QED
  BY <1>1 DEF NobodySpeaksOfTheEnded

(***************************************************************************)
(* Once an incident is resolved the hub's incident calls issue nothing     *)
(* under its id until somebody opens or adopts the id again.               *)
(***************************************************************************)
THEOREM ResolvedIsLast == Spec => EndedStaysEnded
<1>1. IInv /\ [Next]_vars => [NobodySpeaksOfTheEnded]_vars
  <2> SUFFICES ASSUME IInv, Next PROVE NobodySpeaksOfTheEnded
    OBVIOUS
  <2>0. TypeOK /\ OpenIsLive
    BY DEF IInv
  <2>1. ASSUME NEW t \in Threads, NEW s \in Subjects,
               Open(t, s) \/ Progress(t, s) \/ AppendAtom(t, s) \/ Resolve(t, s)
        PROVE  NobodySpeaksOfTheEnded
    BY <2>0, <2>1, OpeningSpeaks, OpenMaySpeak DEF Progress, AppendAtom, Resolve
  <2>2. ASSUME NEW t \in Threads, Publish(t) \/ Ingest(t) PROVE NobodySpeaksOfTheEnded
    BY <2>2, CallersSpeakForThemselves
  <2>3. ASSUME NEW t \in Threads, Dispatch(t) \/ \E c \in Corrs : RestoreQuery(t, c)
        PROVE  NobodySpeaksOfTheEnded
    BY <2>3, SilentStep DEF Dispatch, PersistEnqueue, RestoreHydrate, RestoreQuery, hubState
  <2>4. CASE \/ \E s \in Subjects : Adopt(s) \/ Forget(s)
             \/ \E c \in Corrs : RemoveByCorrelationId(c)
             \/ Crash
    BY <2>4, SilentStep DEF Adopt, Forget, RemoveByCorrelationId, Crash
  <2>5. CASE WriterStep
    BY <2>5, SilentStep
       DEF WriterStep, WriterQuery, WriterHydrate, WriterRead, WriterFlush, WriterStore, hubState
  <2> QED
    BY <2>1, <2>2, <2>3, <2>4, <2>5 DEF Next
<1>2. EndedStaysEnded <=> [][NobodySpeaksOfTheEnded]_vars
  BY PTL DEF EndedStaysEnded, NobodySpeaksOfTheEnded
<1> QED
  BY <1>1, <1>2, HubInvariant, PTL DEF Spec

-----------------------------------------------------------------------------
\* One step of OpenNotReplaced.
IncidentsKept ==
  \A s \in Subjects :
    open[s] # NoIncident /\ open'[s] # NoIncident => open'[s].corr = open[s].corr

(***************************************************************************)
(* A new status leaves the correlation id of the open incident alone.      *)
(***************************************************************************)
LEMMA StatusKeepsIncident ==
  ASSUME TypeOK, NEW s \in Subjects, NEW status, open[s] # NoIncident,
         open' = [open EXCEPT ![s].status = status]
  PROVE  IncidentsKept
<1>1. open \in [Subjects -> Incident \cup {NoIncident}] /\ open[s] \in Incident
  BY DEF TypeOK
<1>2. open'[s].corr = open[s].corr
  BY <1>1 DEF Incident
<1> QED
  BY <1>1, <1>2 DEF IncidentsKept

(***************************************************************************)
(* Open and Adopt enter an incident only where there is none.              *)
(***************************************************************************)
LEMMA EnteringKeepsIncidents ==
  ASSUME TypeOK, NEW s \in Subjects, NEW i,
         open[s] = NoIncident \/ i = NoIncident,
         open' = [open EXCEPT ![s] = i]
  PROVE  IncidentsKept
BY DEF TypeOK, IncidentsKept

LEMMA StepKeepsIncidents == TypeOK /\ Next => IncidentsKept
<1> SUFFICES ASSUME TypeOK, Next PROVE IncidentsKept
  OBVIOUS
<1>1. ASSUME UNCHANGED open PROVE IncidentsKept
  BY <1>1 DEF IncidentsKept
<1>2. ASSUME NEW t \in Threads, NEW s \in Subjects, Open(t, s) PROVE IncidentsKept
  BY <1>2, EnteringKeepsIncidents DEF Open
<1>3. ASSUME NEW t \in Threads, NEW s \in Subjects, Progress(t, s) PROVE IncidentsKept
  BY <1>3, StatusKeepsIncident DEF Progress
<1>4. ASSUME NEW t \in Threads, NEW s \in Subjects, AppendAtom(t, s) PROVE IncidentsKept
  BY <1>4, StatusKeepsIncident DEF AppendAtom
<1>5. ASSUME NEW t \in Threads, NEW s \in Subjects, Resolve(t, s) PROVE IncidentsKept
  BY <1>5, EnteringKeepsIncidents DEF Resolve
<1>6. ASSUME NEW t \in Threads, Publish(t) \/ Ingest(t) PROVE IncidentsKept
  BY <1>6, <1>1 DEF Publish, Ingest, incidents
<1>7. ASSUME NEW t \in Threads, Dispatch(t) PROVE IncidentsKept
  BY <1>7, <1>1 DEF Dispatch, PersistEnqueue, RestoreHydrate, hubState, incidents
<1>8. ASSUME NEW s \in Subjects, Adopt(s) PROVE IncidentsKept
  BY <1>8, EnteringKeepsIncidents DEF Adopt
<1>9. ASSUME NEW s \in Subjects, Forget(s) PROVE IncidentsKept
  BY <1>9, EnteringKeepsIncidents DEF Forget
<1>10. ASSUME NEW c \in Corrs, RemoveByCorrelationId(c) PROVE IncidentsKept
  BY <1>10, <1>1 DEF RemoveByCorrelationId, incidents
<1>11. ASSUME NEW t \in Threads, NEW c \in Corrs, RestoreQuery(t, c) PROVE IncidentsKept
  BY <1>11, <1>1 DEF RestoreQuery, hubState, incidents
<1>12. ASSUME WriterStep PROVE IncidentsKept
  BY <1>12, <1>1 DEF WriterStep, WriterQuery, WriterHydrate, WriterRead, WriterFlush,
                     WriterStore, hubState, incidents
<1>13. ASSUME Crash PROVE IncidentsKept
  BY <1>13 DEF Crash, IncidentsKept
<1> QED
  BY <1>2, <1>3, <1>4, <1>5, <1>6, <1>7, <1>8, <1>9, <1>10, <1>11, <1>12, <1>13 DEF Next

(***************************************************************************)
(* An open incident leaves the map (Resolve, Forget) before another one of *)
(* the same subject enters it (Open, Adopt).                               *)
(***************************************************************************)
THEOREM OpenIncidentStays == Spec => OpenNotReplaced
<1>1. TypeOK /\ [Next]_vars => [IncidentsKept]_vars
  BY StepKeepsIncidents
<1>2. OpenNotReplaced <=> [][IncidentsKept]_vars
  BY PTL DEF OpenNotReplaced, IncidentsKept
<1> QED
  BY <1>1, <1>2, HubTyped, PTL DEF Spec

-----------------------------------------------------------------------------
(***************************************************************************)
(* No atom is unaccounted for.  The invariant names its places one by one: *)
(* first with the thread that issued it, then in the queue, then in the    *)
(* writer's batch.  What the writer warms the ring with is in the log.     *)
(* Every issued atom can be mapped: that is what the endpoint's check is   *)
(* for.                                                                    *)
(***************************************************************************)
Waits(a) == \E t \in Threads : job[t].step = "persist" /\ job[t].atoms[1] = a
In(a, q) == \E i \in 1..Len(q) : q[i] = a
Writing == writer.step \in {"drain", "store"}
Placed(a) ==
  \/ Waits(a)
  \/ In(a, queue)
  \/ Writing /\ In(a, writer.atoms)
  \/ a \in lost
  \/ Recorded(a)
AllPlaced == \A a \in issued : Placed(a) /\ Mappable(a)

LEMMA InIsRange ==
  ASSUME NEW q \in Seq(Atoms), NEW a, In(a, q)
  PROVE  a \in RangeOf(q)
BY DEF In, RangeOf

LEMMA PlacedIsAccounted == TypeOK /\ AllPlaced => AtomsAccounted
<1> SUFFICES ASSUME TypeOK, NEW a \in issued, Placed(a)
             PROVE  \/ a \in InFlight \cup RangeOf(queue) \cup RangeOf(writer.atoms) \cup lost
                    \/ Recorded(a)
  BY DEF AllPlaced, AtomsAccounted
<1>1. CASE Waits(a)
  <2>1. PICK t \in Threads : job[t].step = "persist" /\ job[t].atoms[1] = a
    BY <1>1 DEF Waits
  <2>2. job[t].atoms \in Seq(Atoms) \ {<<>>}
    BY <2>1 DEF TypeOK, Job
  <2>3. a \in RangeOf(job[t].atoms)
    BY <2>1, <2>2 DEF RangeOf
  <2> QED
    BY <2>1, <2>3 DEF InFlight
<1>2. CASE In(a, queue)
  BY <1>2, InIsRange DEF TypeOK
<1>3. CASE In(a, writer.atoms)
  BY <1>3, InIsRange DEF TypeOK
<1> QED
  BY <1>1, <1>2, <1>3 DEF Placed

\* A full queue gives up its oldest atom, and only that.
LEMMA QueueTakes ==
  ASSUME NEW q \in Seq(Atoms), NEW b \in Atoms
  PROVE  /\ In(b, Enqueued(q, b))
         /\ \A a : In(a, q) => In(a, Enqueued(q, b)) \/ (Len(q) >= QueueCap /\ a = Head(q))
<1>1. CASE Len(q) < QueueCap
  <2>1. /\ Enqueued(q, b) = Append(q, b) /\ Len(Append(q, b)) = Len(q) + 1
        /\ Append(q, b)[Len(q) + 1] = b
        /\ \A i \in 1..Len(q) : Append(q, b)[i] = q[i]
    BY <1>1 DEF Enqueued
  <2> QED
    BY <2>1 DEF In
<1>2. CASE ~(Len(q) < QueueCap)
  <2>1. q # <<>> /\ Len(q) \in Nat \ {0}
    BY <1>2, HubAssumption
  <2> DEFINE r == Tail(q)
  <2>2. r \in Seq(Atoms) /\ Len(r) = Len(q) - 1 /\ \A i \in 1..Len(r) : r[i] = q[i + 1]
    BY <2>1
  <2> HIDE DEF r
  <2>3. /\ Enqueued(q, b) = Append(r, b) /\ Len(Append(r, b)) = Len(r) + 1
        /\ Append(r, b)[Len(r) + 1] = b
        /\ \A i \in 1..Len(r) : Append(r, b)[i] = r[i]
    BY <1>2, <2>2 DEF Enqueued, r
  <2>4. In(b, Enqueued(q, b))
    BY <2>1, <2>2, <2>3 DEF In
  <2>5. ASSUME NEW a, In(a, q), a # Head(q) PROVE In(a, Enqueued(q, b))
    <3>1. PICK i \in 1..Len(q) : q[i] = a
      BY <2>5 DEF In
    <3>2. i # 1
      BY <2>1, <2>5, <3>1
    <3>3. (i - 1) \in 1..Len(r) /\ r[i - 1] = a
      BY <2>1, <2>2, <3>1, <3>2
    <3> QED
      BY <2>1, <2>2, <2>3, <3>3 DEF In
  <2>6. Len(q) >= QueueCap
    BY <1>2, HubAssumption
  <2> QED
    BY <2>4, <2>5, <2>6
<1> QED
  BY <1>1, <1>2

\* A step that leaves the jobs that wait, the queue and the batch alone.
LEMMA PlacesUnchanged ==
  ASSUME AllPlaced, UNCHANGED <<queue, issued>>, log \subseteq log', lost \subseteq lost',
         writer' = writer \/ (writer.step \in {"query", "hydrate"}),
         \A t \in Threads : job'[t] = job[t] \/ job[t].step # "persist"
  PROVE  AllPlaced'
<1> SUFFICES ASSUME NEW a \in issued, Placed(a)
             PROVE  Placed(a)'
  BY DEF AllPlaced, Mappable
<1>1. Recorded(a) => Recorded(a)'
  BY DEF Recorded, SameRow
<1> QED
  BY <1>1 DEF Placed, Waits, Writing, In

LEMMA IssuePlaces ==
  ASSUME TypeOK, AllPlaced, NEW t \in Threads, NEW b, Issue(t, b), Mappable(b)
  PROVE  AllPlaced'
<1>1. /\ job[t].step = "idle" /\ job' = [job EXCEPT ![t] = [step |-> "persist", atoms |-> <<b>>]]
      /\ issued' = issued \cup {b} /\ UNCHANGED pipeline
  BY DEF Issue, Idle
<1>2. /\ \A u \in Threads \ {t} : job'[u] = job[u]
      /\ job'[t] = [step |-> "persist", atoms |-> <<b>>]
  BY <1>1 DEF TypeOK
<1>3. Placed(b)'
  <2>1. job'[t].step = "persist" /\ job'[t].atoms[1] = b
    BY <1>2
  <2> QED
    BY <2>1 DEF Placed, Waits
<1>4. ASSUME NEW a \in issued PROVE Placed(a)'
  <2>1. Placed(a)
    BY DEF AllPlaced
  <2>2. Waits(a) => Waits(a)'
    BY <1>1, <1>2 DEF Waits
  <2>3. Recorded(a) => Recorded(a)'
    BY <1>1 DEF Recorded, pipeline
  <2> QED
    BY <1>1, <2>1, <2>2, <2>3 DEF Placed, Writing, In, pipeline
<1> QED
  BY <1>1, <1>3, <1>4 DEF AllPlaced, Mappable

\* The hub's own numbers are Guids, and the endpoint lets only Guids in.
LEMMA IssuedCanBeMapped ==
  ASSUME TypeOK, AllPlaced, NEW t \in Threads,
         \/ \E s \in Subjects : Open(t, s) \/ Progress(t, s) \/ AppendAtom(t, s) \/ Resolve(t, s)
         \/ Publish(t) \/ Ingest(t)
  PROVE  AllPlaced'
<1>1. \A id, ts, c, of : Mappable([id |-> id, ts |-> ts, corr |-> c, of |-> of])
                           <=> id \notin ClientIds \ Guids
  BY DEF Mappable
<1>2. clock \notin ClientIds
  BY HubAssumption DEF TypeOK
<1>3. ASSUME NEW c, IssueFor(t, c) PROVE AllPlaced'
  BY <1>1, <1>2, <1>3, IssuePlaces DEF IssueFor
<1>4. CASE Publish(t)
  BY <1>1, <1>2, <1>4, IssuePlaces DEF Publish
<1>5. CASE Ingest(t)
  BY <1>1, <1>5, IssuePlaces DEF Ingest
<1> QED
  BY <1>3, <1>4, <1>5 DEF Open, Progress, AppendAtom, Resolve

LEMMA EnqueuePlaces ==
  ASSUME TypeOK, AllPlaced, NEW t \in Threads, PersistEnqueue(t)
  PROVE  AllPlaced'
<1> DEFINE b == job[t].atoms[1]
<1>1. b \in Atoms
  BY DEF PersistEnqueue, TypeOK, Job
<1>2. /\ queue' = Enqueued(queue, b)
      /\ lost' = IF Len(queue) < QueueCap THEN lost ELSE lost \cup {Head(queue)}
      /\ UNCHANGED <<issued, writer, log>>
      /\ \A u \in Threads \ {t} : job'[u] = job[u]
  BY DEF PersistEnqueue, hubState, TypeOK
<1> HIDE DEF b
<1>3. queue \in Seq(Atoms) /\ Len(queue) \in Nat /\ QueueCap \in Nat
  BY HubAssumption DEF TypeOK
<1> SUFFICES ASSUME NEW a \in issued
             PROVE  Placed(a)'
  BY <1>2 DEF AllPlaced, Mappable
<1>4. Placed(a)
  BY DEF AllPlaced
<1>5. CASE Waits(a)
  <2>1. PICK u \in Threads : job[u].step = "persist" /\ job[u].atoms[1] = a
    BY <1>5 DEF Waits
  <2>2. CASE u = t
    <3>1. a = b
      BY <2>1, <2>2 DEF b
    <3>2. In(a, queue')
      BY <1>1, <1>2, <1>3, <3>1, QueueTakes
    <3> QED
      BY <3>2 DEF Placed, In
  <2>3. CASE u # t
    BY <1>2, <2>1, <2>3 DEF Placed, Waits
  <2> QED
    BY <2>2, <2>3
<1>6. CASE In(a, queue)
  <2>1. In(a, queue') \/ a \in lost'
    BY <1>1, <1>2, <1>3, <1>6, QueueTakes
  <2> QED
    BY <2>1 DEF Placed, In
<1>7. CASE (Writing /\ In(a, writer.atoms)) \/ a \in lost \/ Recorded(a)
  BY <1>2, <1>7 DEF Placed, In, Writing, Recorded
<1> QED
  BY <1>4, <1>5, <1>6, <1>7 DEF Placed

LEMMA ThreadPlaces ==
  ASSUME TypeOK, AllPlaced, NEW t \in Threads,
         RestoreHydrate(t) \/ \E c \in Corrs : RestoreQuery(t, c)
  PROVE  AllPlaced'
<1>1. UNCHANGED <<queue, issued, writer, log, lost>>
  BY DEF RestoreHydrate, RestoreQuery, hubState, pipeline
<1>2. job[t].step # "persist"
  BY DEF RestoreHydrate, RestoreQuery, Idle
<1>3. \A u \in Threads \ {t} : job'[u] = job[u]
  BY DEF RestoreHydrate, RestoreQuery, TypeOK
<1> QED
  BY <1>1, <1>2, <1>3, PlacesUnchanged

\* What the writer reads goes into its batch, for it can be mapped.
LEMMA ReadPlaces ==
  ASSUME TypeOK, AllPlaced, WriterRead
  PROVE  AllPlaced'
<1> DEFINE h == Head(queue)
           batch == writer.atoms
<1>1. /\ queue \in Seq(Atoms) /\ queue # <<>> /\ batch \in Seq(Atoms)
      /\ writer.step = "drain" /\ UNCHANGED <<issued, job, log, lost>>
      /\ queue' = Tail(queue)
      /\ writer' = IF Mappable(h) THEN [writer EXCEPT !.atoms = Append(@, h)] ELSE writer
  BY DEF WriterRead, TypeOK, hubState
<1>2. writer'.step = "drain"
  BY <1>1
<1>3. Mappable(h) => writer'.atoms = Append(batch, h)
  BY <1>1 DEF TypeOK
<1>4. writer'.atoms = batch \/ writer'.atoms = Append(batch, h)
  BY <1>1, <1>3
<1>5. ASSUME NEW a, In(a, batch) PROVE In(a, writer'.atoms)
  <2>1. PICK i \in 1..Len(batch) : batch[i] = a
    BY <1>5 DEF In
  <2>2. /\ Len(Append(batch, h)) = Len(batch) + 1
        /\ Append(batch, h)[i] = batch[i]
        /\ i \in 1..(Len(batch) + 1)
    BY <1>1, <2>1
  <2>3. CASE writer'.atoms = batch
    BY <2>1, <2>3 DEF In
  <2>4. CASE writer'.atoms = Append(batch, h)
    BY <2>1, <2>2, <2>4 DEF In
  <2> QED
    BY <1>4, <2>3, <2>4
<1>6. ASSUME Mappable(h) PROVE In(h, writer'.atoms)
  <2>1. /\ Len(Append(batch, h)) = Len(batch) + 1
        /\ Append(batch, h)[Len(batch) + 1] = h
        /\ (Len(batch) + 1) \in 1..(Len(batch) + 1)
    BY <1>1
  <2> QED
    BY <1>3, <1>6, <2>1 DEF In
<1>7. ASSUME NEW a, In(a, queue), a # h PROVE In(a, queue')
  <2>1. PICK i \in 1..Len(queue) : queue[i] = a
    BY <1>7 DEF In
  <2>2. /\ Len(Tail(queue)) = Len(queue) - 1
        /\ \A k \in 1..(Len(queue) - 1) : Tail(queue)[k] = queue[k + 1]
        /\ h = queue[1] /\ Len(queue) \in Nat
    BY <1>1
  <2>3. i # 1
    BY <1>7, <2>1, <2>2
  <2>4. (i - 1) \in 1..Len(Tail(queue)) /\ Tail(queue)[i - 1] = a
    BY <2>1, <2>2, <2>3
  <2> QED
    BY <1>1, <2>4 DEF In
<1> HIDE DEF h, batch
<1> SUFFICES ASSUME NEW a \in issued
             PROVE  Placed(a)'
  BY <1>1 DEF AllPlaced, Mappable
<1>8. Placed(a) /\ Mappable(a)
  BY DEF AllPlaced
<1>9. In(a, writer'.atoms) => Placed(a)'
  BY <1>2 DEF Placed, Writing, In
<1>10. In(a, queue') => Placed(a)'
  BY DEF Placed, In
<1>11. CASE Waits(a) \/ a \in lost \/ Recorded(a)
  BY <1>1, <1>11 DEF Placed, Waits, Recorded
<1>12. CASE In(a, queue)
  <2>1. CASE a = h
    BY <1>6, <1>8, <1>9, <2>1
  <2>2. CASE a # h
    BY <1>7, <1>10, <1>12, <2>2
  <2> QED
    BY <2>1, <2>2
<1>13. CASE In(a, writer.atoms)
  BY <1>5, <1>9, <1>13 DEF batch
<1> QED
  BY <1>8, <1>11, <1>12, <1>13 DEF Placed

\* A stored batch leaves a row under the key of each of its atoms.
LEMMA StorePlaces ==
  ASSUME TypeOK, AllPlaced, WriterStore
  PROVE  AllPlaced'
<1>1. UNCHANGED <<issued, job, queue>>
  BY DEF WriterStore, hubState
<1> SUFFICES ASSUME NEW a \in issued
             PROVE  Placed(a)'
  BY <1>1 DEF AllPlaced, Mappable
<1>2. Placed(a)
  BY DEF AllPlaced
<1>3. CASE In(a, writer.atoms)
  <2>1. a \in RangeOf(writer.atoms)
    BY <1>3, InIsRange DEF TypeOK
  <2>2. CASE \E new \in Inserted(writer.atoms) : log' = log \cup new
    BY <2>1, <2>2 DEF Inserted, Placed, Recorded, SameRow
  <2>3. CASE lost' = lost \cup RangeOf(writer.atoms)
    BY <2>1, <2>3 DEF Placed
  <2> QED
    BY <2>2, <2>3 DEF WriterStore
<1>4. CASE Waits(a) \/ In(a, queue)
  BY <1>1, <1>4 DEF Placed, Waits, In
<1>5. CASE a \in lost \/ Recorded(a)
  <2>1. log \subseteq log' /\ lost \subseteq lost'
    BY DEF WriterStore
  <2> QED
    BY <1>5, <2>1 DEF Placed, Recorded, SameRow
<1> QED
  BY <1>2, <1>3, <1>4, <1>5 DEF Placed

LEMMA WriterPlaces ==
  ASSUME TypeOK, AllPlaced, WriterStep
  PROVE  AllPlaced'
<1>1. CASE WriterQuery \/ WriterHydrate
  BY <1>1, PlacesUnchanged DEF WriterQuery, WriterHydrate, hubState
<1>2. CASE WriterFlush
  <2>1. UNCHANGED <<issued, job, queue, log, lost>>
    BY <1>2 DEF WriterFlush, hubState
  <2>2. Writing /\ writer'.step = "store" /\ writer'.atoms = writer.atoms
    BY <1>2 DEF WriterFlush, Writing, TypeOK
  <2>3. \A a : Placed(a) => Placed(a)'
    BY <2>1, <2>2 DEF Placed, Waits, In, Writing, Recorded
  <2> QED
    BY <2>1, <2>3 DEF AllPlaced, Mappable
<1> QED
  BY <1>1, <1>2, ReadPlaces, StorePlaces DEF WriterStep

LEMMA CrashPlaces ==
  ASSUME TypeOK, AllPlaced, Crash
  PROVE  AllPlaced'
<1> SUFFICES ASSUME NEW a \in issued
             PROVE  a \in lost' \/ Recorded(a)
  BY DEF AllPlaced, Placed, Crash, Mappable, Recorded
<1>1. Placed(a)
  BY DEF AllPlaced
<1>2. CASE Waits(a)
  <2>1. PICK t \in Threads : job[t].step = "persist" /\ job[t].atoms[1] = a
    BY <1>2 DEF Waits
  <2>2. job[t].atoms \in Seq(Atoms) \ {<<>>}
    BY <2>1 DEF TypeOK, Job
  <2>3. a \in RangeOf(job[t].atoms)
    BY <2>1, <2>2 DEF RangeOf
  <2> QED
    BY <2>1, <2>3 DEF InFlight, Crash
<1>3. CASE In(a, queue)
  BY <1>3, InIsRange DEF TypeOK, Crash
<1>4. CASE Writing /\ In(a, writer.atoms)
  BY <1>4, InIsRange DEF TypeOK, Crash, Writing
<1>5. CASE a \in lost \/ Recorded(a)
  BY <1>5 DEF Crash
<1> QED
  BY <1>1, <1>2, <1>3, <1>4, <1>5 DEF Placed

(***************************************************************************)
(* Every issued atom is with its thread, in the queue, in the writer's     *)
(* batch or in the log, or was dropped by a full queue, a failed batch or  *)
(* the death of the process, however callers race.  The writer's skip of   *)
(* an atom it cannot map never comes to that: what the hub mints and what  *)
(* the endpoint lets in can be mapped.                                     *)
(***************************************************************************)
THEOREM NoAtomIsForgotten == Spec => []AtomsAccounted
<1>1. Init => AllPlaced
  BY DEF Init, AllPlaced
<1>2. TypeOK /\ AllPlaced /\ [Next]_vars => AllPlaced'
  <2> SUFFICES ASSUME TypeOK, AllPlaced, [Next]_vars
               PROVE  AllPlaced'
    OBVIOUS
  <2>1. ASSUME NEW t \in Threads, NEW s \in Subjects,
               Open(t, s) \/ Progress(t, s) \/ AppendAtom(t, s) \/ Resolve(t, s)
        PROVE  AllPlaced'
    BY <2>1, IssuedCanBeMapped
  <2>2. ASSUME NEW t \in Threads, Publish(t) \/ Ingest(t)
        PROVE  AllPlaced'
    BY <2>2, IssuedCanBeMapped
  <2>3. ASSUME NEW t \in Threads, Dispatch(t) \/ \E c \in Corrs : RestoreQuery(t, c)
        PROVE  AllPlaced'
    BY <2>3, EnqueuePlaces, ThreadPlaces DEF Dispatch
  <2>4. CASE \/ \E s \in Subjects : Adopt(s) \/ Forget(s)
             \/ \E c \in Corrs : RemoveByCorrelationId(c)
             \/ UNCHANGED vars
    <3>1. UNCHANGED <<job, queue, issued, writer, log, lost>>
      BY <2>4 DEF Adopt, Forget, RemoveByCorrelationId, vars, hubState, pipeline
    <3> QED
      BY <3>1, PlacesUnchanged
  <2>5. CASE WriterStep
    BY <2>5, WriterPlaces
  <2>6. CASE Crash
    BY <2>6, CrashPlaces
  <2> QED
    BY <2>1, <2>2, <2>3, <2>4, <2>5, <2>6 DEF Next
<1> QED
  BY <1>1, <1>2, PlacedIsAccounted, HubTyped, PTL DEF Spec
=============================================================================
