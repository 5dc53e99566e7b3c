-------------------------- MODULE NotificationHub --------------------------
(***************************************************************************)
(* The notification hub of the Online History Server: the map of open      *)
(* incidents, the ring of recent atoms that GET /notifications answers     *)
(* from, and the road from the hub to the durable log (bounded queue,      *)
(* batching writer, table `notification`).                                 *)
(*                                                                         *)
(* A caller of the hub is a thread.  It changes the map and the ring under *)
(* the hub's lock, in one step, and dispatches the atom afterwards, outside *)
(* the lock, in a step of its own: two threads may dispatch in the order   *)
(* opposite to the one they took the lock in.                              *)
(*                                                                         *)
(* Atoms are numbered in the order they are issued; the number stands for  *)
(* the event id the hub mints.  The time stamp is another thing: the       *)
(* caller may hand in an earlier moment, and the queries of the log order  *)
(* by it.  An atom of a client (POST /notifications) keeps the client's id. *)
(* What an atom says (status, code, text) is left out: the hub reads the   *)
(* status of an incident from its map and never from an atom.              *)
(***************************************************************************)
EXTENDS Naturals, Sequences, FiniteSets

CONSTANTS
  Subjects,     \* what incidents are about: the links of the connections
  Threads,      \* concurrent callers: pumps, the supervisor, HTTP requests
  Uids,         \* what tells the correlation ids of a subject apart
  Earlier,      \* moments before now that callers hand in
  MaxAtoms,     \* bound: atoms the hub numbers
  MaxCrashes,   \* bound: restarts of the process
  Capacity,     \* DefaultCapacity of the ring (500 in the code)
  QueueCap,     \* capacity of the persist queue (10 000 in the code)
  MaxBatch,     \* atoms the writer stores in one transaction (500)
  ClientIds,    \* event ids clients write
  Guids,        \* those of them that parse as a Guid in format N
  NoCorr,       \* the correlation id of a free-standing atom
  NoIncident    \* a subject without an open incident

ASSUME HubAssumption ==
  /\ Capacity \in Nat \ {0}
  /\ QueueCap \in Nat \ {0}
  /\ MaxBatch \in Nat \ {0}
  /\ MaxAtoms \in Nat /\ MaxCrashes \in Nat
  /\ NoCorr \notin Subjects \X Uids
  /\ Earlier \subseteq Nat
  /\ ClientIds \cap Nat = {} /\ Guids \subseteq ClientIds
  /\ NoIncident \notin [corr : Subjects \X Uids, status : {"active", "underway"}]

VARIABLES
  open,      \* _openIncidents: subject -> [corr, status]
  ring,      \* _buffer
  count,     \* _count, kept beside the buffer
  clock,     \* the number of the next atom
  job,       \* what each thread still has to do outside the lock
  queue,     \* NotificationPersistQueue
  writer,    \* NotificationPersistWriter
  log,       \* the table `notification`
  issued,    \* history: every atom ever put into the ring by a caller
  lost,      \* history: atoms that will never reach the log
  ended,     \* history: correlation ids resolved and not opened or adopted since
  crashes    \* number of restarts so far

vars == <<open, ring, count, clock, job, queue, writer, log,
          issued, lost, ended, crashes>>

incidents == <<open, ended>>
hubState == <<incidents, ring, count, clock, issued>>
pipeline == <<queue, writer, log, lost>>

Corrs    == Subjects \X Uids
\* `of` tells the atoms of the hub's own incidents from those of other callers.
Atoms    == [id : Nat \cup ClientIds, ts : Nat, corr : Corrs \cup {NoCorr},
             of : {"incident", "caller"}]
Incident == [corr : Corrs, status : {"active", "underway"}]
Job      == [step : {"idle", "hydrate"}, atoms : Seq(Atoms)]
              \cup [step : {"persist"}, atoms : Seq(Atoms) \ {<<>>}]
Idle     == [step |-> "idle", atoms |-> <<>>]

RangeOf(s) == {s[i] : i \in DOMAIN s}

(***************************************************************************)
(* The rows a query returns, by time stamp, the oldest first: `n` atoms of *)
(* S, none of the atoms left out being younger than one returned.  Rows of *)
(* the same moment come in any order.                                      *)
(***************************************************************************)
YoungestOf(S, n) ==
  {q \in [1..n -> S] :
     /\ \A i, j \in 1..n : i < j => q[i].ts <= q[j].ts /\ q[i] # q[j]
     /\ \A a \in S \ RangeOf(q) : \A i \in 1..n : a.ts <= q[i].ts}

RecentRows ==
  YoungestOf(log, IF Cardinality(log) < Capacity THEN Cardinality(log) ELSE Capacity)

EpisodeRows(c) ==
  LET rows == {a \in log : a.corr = c} IN YoungestOf(rows, Cardinality(rows))

-----------------------------------------------------------------------------
\* Mutant: the eviction loop compares with >= instead of the capacity itself.
EvictedLate(s, n) ==
  LET excess == IF n > Capacity + 1 THEN n - Capacity ELSE 0
  IN  IF excess < Len(s) THEN excess ELSE Len(s)

(***************************************************************************)
(* The eviction loop: while the counter exceeds the capacity and there is  *)
(* an atom to take, take the oldest one and count it off.                  *)
(***************************************************************************)
Evicted(s, n) ==
  LET excess == IF n > Capacity THEN n - Capacity ELSE 0
  IN  IF excess < Len(s) THEN excess ELSE Len(s)

PutIntoRing(s) ==
  LET full == ring \o s
      cut  == Evicted(full, count + Len(s))
  IN  /\ ring'  = SubSeq(full, cut + 1, Len(full))
      /\ count' = count + Len(s) - cut

Enqueued(q, a) ==
  IF Len(q) < QueueCap THEN Append(q, a) ELSE Append(Tail(q), a)

Init ==
  /\ open = [s \in Subjects |-> NoIncident]
  /\ ring = <<>> /\ count = 0
  /\ clock = 1
  /\ job = [t \in Threads |-> Idle]
  /\ queue = <<>>
  /\ writer = [step |-> "query", atoms |-> <<>>]
  /\ log = {} /\ issued = {} /\ lost = {} /\ ended = {}
  /\ crashes = 0

(***************************************************************************)
(* EnqueueLocked: the new atom enters the ring under the lock and stays    *)
(* with its thread until Dispatch.                                         *)
(***************************************************************************)
Issue(t, a) ==
  /\ job[t] = Idle
  /\ clock <= MaxAtoms
  /\ PutIntoRing(<<a>>)
  /\ job' = [job EXCEPT ![t] = [step |-> "persist", atoms |-> <<a>>]]
  /\ issued' = issued \cup {a}
  /\ clock' = clock + 1
  /\ UNCHANGED <<pipeline, crashes>>

\* `ts ?? UtcNow`: the moment the caller hands in, or now.
Stamps == Earlier \cup {clock}

IssueFor(t, c) ==
  \E ts \in Stamps : Issue(t, [id |-> clock, ts |-> ts, corr |-> c, of |-> "incident"])

\* Mutant: Open without the check for an open incident.
OpenUnguarded(t, s) ==
  \E c \in {s} \X Uids :
    /\ open' = [open EXCEPT ![s] = [corr |-> c, status |-> "active"]]
    /\ ended' = ended \ {c}
    /\ IssueFor(t, c)

(***************************************************************************)
(* Open: only for a subject without an open incident, under a correlation  *)
(* id that is minted or that the caller prefers, an old one included.      *)
(***************************************************************************)
Open(t, s) ==
  /\ open[s] = NoIncident
  /\ \E c \in {s} \X Uids :
       /\ open' = [open EXCEPT ![s] = [corr |-> c, status |-> "active"]]
       /\ ended' = ended \ {c}
       /\ IssueFor(t, c)

Progress(t, s) ==
  /\ open[s] # NoIncident
  /\ open' = [open EXCEPT ![s].status = "underway"]
  /\ IssueFor(t, open[s].corr)
  /\ UNCHANGED ended

\* Mutant: Append takes over any status, `resolved` too.
AppendAnyStatus(t, s) ==
  /\ open[s] # NoIncident
  /\ \E status \in {"active", "underway", "resolved"} :
       open' = [open EXCEPT ![s].status = status]
  /\ IssueFor(t, open[s].corr)
  /\ UNCHANGED ended

\* Append: a further row of the open incident; it may restate the status.
AppendAtom(t, s) ==
  /\ open[s] # NoIncident
  /\ \E status \in {"active", "underway"} :
       open' = [open EXCEPT ![s].status = status]
  /\ IssueFor(t, open[s].corr)
  /\ UNCHANGED ended

\* Mutant: Resolve leaves the incident in the map.
ResolveKeepsOpen(t, s) ==
  /\ open[s] # NoIncident
  /\ ended' = ended \cup {open[s].corr}
  /\ IssueFor(t, open[s].corr)
  /\ UNCHANGED open

Resolve(t, s) ==
  /\ open[s] # NoIncident
  /\ open' = [open EXCEPT ![s] = NoIncident]
  /\ ended' = ended \cup {open[s].corr}
  /\ IssueFor(t, open[s].corr)

(***************************************************************************)
(* Publish: an atom outside the life cycle of the hub's incidents, with    *)
(* the correlation id and the moment its caller likes.  The crash emitter, *)
(* which mints a Guid and ingests the atom itself, does the same.          *)
(***************************************************************************)
Publish(t) ==
  /\ \E c \in Corrs \cup {NoCorr}, ts \in Stamps :
       Issue(t, [id |-> clock, ts |-> ts, corr |-> c, of |-> "caller"])
  /\ UNCHANGED incidents

\* Mutant: the endpoint takes an id that is not a Guid.
IngestUnchecked(t) ==
  /\ \E id \in ClientIds, c \in Corrs \cup {NoCorr}, ts \in Stamps :
       Issue(t, [id |-> id, ts |-> ts, corr |-> c, of |-> "caller"])
  /\ UNCHANGED incidents

(***************************************************************************)
(* Ingest: an atom a client wrote, under the client's id, correlation id   *)
(* and moment; it may come twice.  POST /notifications refuses an id that  *)
(* is not a Guid in format N.                                              *)
(***************************************************************************)
Ingest(t) ==
  /\ \E id \in ClientIds, c \in Corrs \cup {NoCorr}, ts \in Stamps :
       /\ id \in Guids
       /\ Issue(t, [id |-> id, ts |-> ts, corr |-> c, of |-> "caller"])
  /\ UNCHANGED incidents

(***************************************************************************)
(* Adopt: the supervisor puts an incident of the journal back into the     *)
(* map.  The hub does not ask whether the id was resolved before: the      *)
(* journal's row may still be open after the hub's Resolve.  A subject     *)
(* that already has an open incident keeps it.                             *)
(***************************************************************************)
Adopt(s) ==
  /\ open[s] = NoIncident
  /\ \E c \in {s} \X Uids, status \in {"active", "underway"} :
       /\ open' = [open EXCEPT ![s] = [corr |-> c, status |-> status]]
       /\ ended' = ended \ {c}
  /\ UNCHANGED <<ring, count, clock, job, pipeline, issued, crashes>>

Forget(s) ==
  /\ open[s] # NoIncident
  /\ open' = [open EXCEPT ![s] = NoIncident]
  /\ UNCHANGED <<ended, ring, count, clock, job, pipeline, issued, crashes>>

\* RemoveByCorrelationId: rebuild the ring, in order, without the atoms of c.
RemoveByCorrelationId(c) ==
  LET kept == {i \in DOMAIN ring : ring[i].corr # c}
      n    == Cardinality(kept)
  IN  /\ count - n > 0
      /\ \E at \in [1..n -> kept] :
           /\ \A i, j \in 1..n : i < j => at[i] < at[j]
           /\ ring' = [i \in 1..n |-> ring[at[i]]]
      /\ count' = n
      /\ UNCHANGED <<incidents, clock, job, pipeline, issued, crashes>>

-----------------------------------------------------------------------------
(***************************************************************************)
(* Dispatch, outside the lock: the persist queue, which drops its oldest   *)
(* atom when full.  The broadcast that follows changes nothing in the hub. *)
(***************************************************************************)
PersistEnqueue(t) ==
  /\ job[t].step = "persist"
  /\ queue' = Enqueued(queue, job[t].atoms[1])
  /\ lost' = IF Len(queue) < QueueCap THEN lost ELSE lost \cup {Head(queue)}
  /\ job' = [job EXCEPT ![t] = Idle]
  /\ UNCHANGED <<hubState, writer, log, crashes>>

(***************************************************************************)
(* The restore endpoint: it takes the tombstone off the journal's row (any *)
(* correlation id may have one), reads the atoms of the episode from the   *)
(* log and then hands them to Hydrate; when the query fails the restore    *)
(* stands and there is nothing to hydrate.                                 *)
(***************************************************************************)
RestoreQuery(t, c) ==
  /\ job[t] = Idle
  /\ \E rows \in EpisodeRows(c) \cup {<<>>} :
       job' = [job EXCEPT ![t] = [step |-> "hydrate", atoms |-> rows]]
  /\ UNCHANGED <<hubState, pipeline, crashes>>

RestoreHydrate(t) ==
  /\ job[t].step = "hydrate"
  /\ PutIntoRing(job[t].atoms)
  /\ job' = [job EXCEPT ![t] = Idle]
  /\ UNCHANGED <<incidents, clock, issued, pipeline, crashes>>

-----------------------------------------------------------------------------
(***************************************************************************)
(* The persist writer: it warms the ring from the log once (a failed query *)
(* skips that), then reads what the queue holds, atom by atom, into a      *)
(* batch of at most MaxBatch and stores it; a batch that cannot be stored  *)
(* is dropped.                                                             *)
(***************************************************************************)
WriterQuery ==
  /\ writer.step = "query"
  /\ \/ \E rows \in RecentRows : writer' = [step |-> "hydrate", atoms |-> rows]
     \/ writer' = [step |-> "drain", atoms |-> <<>>]
  /\ UNCHANGED <<hubState, job, queue, log, lost, crashes>>

WriterHydrate ==
  /\ writer.step = "hydrate"
  /\ PutIntoRing(writer.atoms)
  /\ writer' = [step |-> "drain", atoms |-> <<>>]
  /\ UNCHANGED <<incidents, clock, issued, job, queue, log, lost, crashes>>

\* ToRecord parses the event id as a Guid; TryMap logs and passes over what it cannot map.
Mappable(a) == a.id \notin ClientIds \ Guids

WriterRead ==
  /\ writer.step = "drain"
  /\ queue # <<>>
  /\ Len(writer.atoms) < MaxBatch
  /\ queue' = Tail(queue)
  /\ writer' = IF Mappable(Head(queue)) THEN [writer EXCEPT !.atoms = Append(@, Head(queue))]
                                        ELSE writer
  /\ UNCHANGED <<hubState, job, log, lost, crashes>>

\* The batch is full or there is nothing more to read; an empty one is not stored.
WriterFlush ==
  /\ writer.step = "drain"
  /\ writer.atoms # <<>>
  /\ queue = <<>> \/ Len(writer.atoms) = MaxBatch
  /\ writer' = [writer EXCEPT !.step = "store"]
  /\ UNCHANGED <<hubState, job, queue, log, lost, crashes>>

\* The primary key of the table.
SameRow(a, b) == a.id = b.id /\ a.ts = b.ts

(***************************************************************************)
(* INSERT ... ON CONFLICT (event_id, ts) DO NOTHING: of the atoms with the *)
(* same key one gets the row, unless the table has one.                    *)
(***************************************************************************)
Inserted(batch) ==
  {new \in SUBSET RangeOf(batch) :
     /\ \A a \in new, b \in log \cup new : SameRow(a, b) => a = b
     /\ \A a \in RangeOf(batch) : \E b \in log \cup new : SameRow(a, b)}

\* Mutant: a failed batch ends the writer instead of being logged and dropped.
WriterStoreFatal ==
  /\ writer.step = "store"
  /\ \/ /\ \E new \in Inserted(writer.atoms) : log' = log \cup new
        /\ writer' = [step |-> "drain", atoms |-> <<>>]
        /\ UNCHANGED lost
     \/ lost' = lost \cup RangeOf(writer.atoms) /\ UNCHANGED log
        /\ writer' = [step |-> "ended", atoms |-> <<>>]
  /\ UNCHANGED <<hubState, job, queue, crashes>>

WriterStore ==
  /\ writer.step = "store"
  /\ writer' = [step |-> "drain", atoms |-> <<>>]
  /\ \/ (\E new \in Inserted(writer.atoms) : log' = log \cup new) /\ UNCHANGED lost
     \/ lost' = lost \cup RangeOf(writer.atoms) /\ UNCHANGED log
  /\ UNCHANGED <<hubState, job, queue, crashes>>

\* A restart: only the database survives.
InFlight ==
  UNION {RangeOf(job[t].atoms) : t \in {u \in Threads : job[u].step = "persist"}}

Crash ==
  /\ crashes < MaxCrashes
  /\ crashes' = crashes + 1
  /\ open' = [s \in Subjects |-> NoIncident]
  /\ ring' = <<>> /\ count' = 0
  /\ lost' = lost \cup InFlight \cup RangeOf(queue)
                  \cup (IF writer.step \in {"drain", "store"} THEN RangeOf(writer.atoms) ELSE {})
  /\ job' = [t \in Threads |-> Idle]
  /\ queue' = <<>>
  /\ writer' = [step |-> "query", atoms |-> <<>>]
  /\ UNCHANGED <<clock, log, issued, ended>>

-----------------------------------------------------------------------------
Dispatch(t) == PersistEnqueue(t) \/ RestoreHydrate(t)

WriterStep == WriterQuery \/ WriterHydrate \/ WriterRead \/ WriterFlush \/ WriterStore

Next ==
  \/ \E t \in Threads, s \in Subjects :
       Open(t, s) \/ Progress(t, s) \/ AppendAtom(t, s) \/ Resolve(t, s)
  \/ \E t \in Threads : Publish(t) \/ Ingest(t) \/ Dispatch(t)
  \/ \E s \in Subjects : Adopt(s) \/ Forget(s)
  \/ \E c \in Corrs : RemoveByCorrelationId(c)
  \/ \E t \in Threads, c \in Corrs : RestoreQuery(t, c)
  \/ WriterStep
  \/ Crash

\* Threads and the writer run on the thread pool: none is starved.
Fairness ==
  /\ \A t \in Threads : WF_vars(Dispatch(t))
  /\ WF_vars(WriterStep)

Spec == Init /\ [][Next]_vars
FairSpec == Spec /\ Fairness

-----------------------------------------------------------------------------
TypeOK ==
  /\ open \in [Subjects -> Incident \cup {NoIncident}]
  /\ ring \in Seq(Atoms) /\ count \in Nat
  /\ clock \in Nat \ {0}
  /\ job \in [Threads -> Job]
  /\ queue \in Seq(Atoms)
  /\ writer \in [step : {"query", "hydrate", "drain", "store"}, atoms : Seq(Atoms)]
  /\ log \in SUBSET Atoms /\ IsFiniteSet(log)
  /\ issued \in SUBSET Atoms /\ lost \in SUBSET Atoms
  /\ ended \subseteq Corrs
  /\ crashes \in Nat

(***************************************************************************)
(* The counter beside the concurrent queue never drifts from the queue's   *)
(* length, so the ring never exceeds its capacity: callers, the hydration  *)
(* of the writer and of restore, and RemoveByCorrelationId all adjust both. *)
(***************************************************************************)
RingBounded == count = Len(ring) /\ Len(ring) <= Capacity

(***************************************************************************)
(* Of racing callers one closes an incident and none speaks after it: once *)
(* Resolve has issued its atom, the hub's incident calls issue nothing     *)
(* under that correlation id (no second `resolved`, no late progress)      *)
(* until somebody opens or adopts the id again, across restarts.  What     *)
(* Publish and Ingest are told to say under the id is their caller's.      *)
(***************************************************************************)
EndedStaysEnded ==
  [][\A a \in issued' \ issued :
       a.of = "incident" /\ a.corr \in ended
         => \E s \in Subjects : open[s] = NoIncident /\ open'[s] # NoIncident
                                /\ open'[s].corr = a.corr]_vars

(***************************************************************************)
(* An open incident is never overwritten by another one of the same        *)
(* subject: it leaves the map before a different correlation id enters.    *)
(***************************************************************************)
OpenNotReplaced ==
  [][\A s \in Subjects :
       open[s] # NoIncident /\ open'[s] # NoIncident
         => open'[s].corr = open[s].corr]_vars

(***************************************************************************)
(* An atom is accounted for: it waits with its thread, in the queue or     *)
(* with the writer, or the log has the row of its key, or it was dropped   *)
(* by a full queue, a failed batch or the death of the process.  None is   *)
(* passed over because it cannot be mapped: what the hub numbers is a      *)
(* Guid, and the endpoint refuses every id the writer would have to skip.  *)
(***************************************************************************)
Recorded(a) == \E b \in log : SameRow(a, b)

AtomsAccounted ==
  \A a \in issued :
    \/ a \in InFlight \cup RangeOf(queue) \cup RangeOf(writer.atoms) \cup lost
    \/ Recorded(a)

(***************************************************************************)
(* Every issued atom eventually reaches the log or is dropped where the    *)
(* code allows it: the writer never leaves a queue unread or a batch       *)
(* unstored.                                                               *)
(***************************************************************************)
EventuallyStored ==
  \A n \in (1..MaxAtoms) \cup ClientIds :
    (\E a \in issued : a.id = n) ~> (\E a \in log \cup lost : a.id = n)
=============================================================================
