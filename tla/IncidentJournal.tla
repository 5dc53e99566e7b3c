-------------------------- MODULE IncidentJournal --------------------------
(***************************************************************************)
(* The incident journal of the online-history server: the rows of table    *)
(* `incident' (one per correlation id) and the concurrent calls that write *)
(* them.  JournalRegistrator turns every event of an episode into one to   *)
(* a dozen separate statements of IncidentStore; between two statements    *)
(* of one call any statement of another call may run.  Opening a break is  *)
(* fire-and-forget, so its INSERT may come after the close of the same     *)
(* episode.  The operator's resolve, delete and restore requests read the  *)
(* row, then act on what they read.                                        *)
(*                                                                         *)
(* One step of a caller is one SQL statement, which is atomic.  A call     *)
(* that throws is swallowed by SafeAsync.  Not modelled: the scope table   *)
(* of crash rows, annotations (resolvedBy, closeNote), titles, severities. *)
(***************************************************************************)
EXTENDS Naturals

CONSTANTS Breaks,      \* correlation ids of link breaks, minted by IncidentFanOut
          Crashes,     \* correlation ids of host outages, derived from the outage seed
          Callers,     \* calls that may be under way at once
          Retries,     \* rounds of the resolve loop (10 in the code)
          MaxCalls,    \* bound: calls begun in a behaviour
          MaxFaults,   \* bound: store calls that throw
          MaxCrashes   \* bound: restarts of the host

Corrs == Breaks \cup Crashes

ASSUME JournalAssumption ==
    /\ Breaks \cap Crashes = {}
    /\ Retries \in Nat \ {0}
    /\ MaxCalls \in Nat /\ MaxFaults \in Nat /\ MaxCrashes \in Nat

VARIABLES table,       \* table[c]: the row of c, Absent when there is none
          minted,      \* breaks whose correlation id exists
          call,        \* call[w]: the call w is executing
          begun,       \* calls begun so far; also the clock that stamps them
          faults, crashes

vars == <<table, minted, call, begun, faults, crashes>>

Open == {"active", "recovering"}
Outcomes == {"recovered", "recovered_manual", "abandoned_manual"}

Rows == [status : Open \cup {"absent", "resolved"},
         outcome : Outcomes \cup {"none"},
         owner : {"none", "transaq", "supervisor", "admin"},
         escalated : 0 .. MaxCalls,   \* 0: escalated_at is NULL
         bound : BOOLEAN,             \* connection_id is not NULL
         hidden : BOOLEAN]            \* deleted_at is not NULL

Absent == [status |-> "absent", outcome |-> "none", owner |-> "none",
           escalated |-> 0, bound |-> FALSE, hidden |-> FALSE]

Idle == [pc |-> "idle"]

\* The statements of RegisterBreakResolved.
Closing == {"try", "readClosing", "insertClosed", "tryAgain", "retry", "insertLast"}

Jobs == [op : {"open", "crashOpen", "adopt", "handover", "recovering", "await",
               "resolve", "close", "delete", "restore"},
         corr : Corrs,
         pc : Closing \cup {"look", "direct", "bind", "hide", "show",
                            "insert", "read", "update"},
         seen : Rows,                 \* the row as the call last read it
         at : 1 .. MaxCalls,          \* the time of the event
         outcome : Outcomes,
         tries : 0 .. Retries]

Init == /\ table = [c \in Corrs |-> Absent]
        /\ minted = {}
        /\ call = [w \in Callers |-> Idle]
        /\ begun = 0 /\ faults = 0 /\ crashes = 0

-----------------------------------------------------------------------------
(* IncidentStore: one operator per statement, from the table to the table. *)

\* Mutant: ON CONFLICT DO UPDATE.
Upserted(c, row) == [table EXCEPT ![c] = row]

\* INSERT ... ON CONFLICT DO NOTHING
Inserted(c, row) == IF table[c] = Absent THEN [table EXCEPT ![c] = row] ELSE table

\* Mutant: the WHERE clause without its status condition.
MatchesAnyVisible(c) == table[c] # Absent /\ ~table[c].hidden

\* WHERE status IN ('active', 'recovering') AND deleted_at IS NULL
Matches(c) == table[c].status \in Open /\ ~table[c].hidden

\* UpdateOpenAsync writes the whole row back, except closing and visibility.
Updated(c, row) ==
    IF Matches(c)
    THEN [table EXCEPT ![c].status = row.status, ![c].owner = row.owner,
                       ![c].escalated = row.escalated, ![c].bound = row.bound]
    ELSE table

ResolvedAs(c, o) ==
    IF Matches(c)
    THEN [table EXCEPT ![c].status = "resolved", ![c].outcome = o]
    ELSE table

-----------------------------------------------------------------------------
(* How a call goes on.                                                     *)

GoTo(w, pc) == call' = [call EXCEPT ![w].pc = pc]
Return(w) == call' = [call EXCEPT ![w] = Idle]

Begin(w, op, pc, c, o) ==
    /\ call[w] = Idle
    /\ begun < MaxCalls
    /\ begun' = begun + 1
    /\ call' = [call EXCEPT ![w] =
                  [op |-> op, corr |-> c, pc |-> pc, seen |-> Absent,
                   at |-> begun + 1, outcome |-> o, tries |-> 0]]
    /\ UNCHANGED <<table, faults, crashes>>

\* The registrator is done with a close: FanOut binds a break to its
\* connection in a call of its own, an outage has nothing to bind.
Registered(w) == IF call[w].corr \in Breaks THEN GoTo(w, "bind") ELSE Return(w)

\* The episode is closed: the delete request goes on to hide the row.
Closed(w) == IF call[w].op = "delete" THEN GoTo(w, "hide") ELSE Return(w)

-----------------------------------------------------------------------------
(* The calls.                                                              *)

\* IncidentFanOut.ApplyOpenAsync mints c, tells the hub and does not wait.
BeginOpen(w) == \E c \in Breaks \ minted :
    /\ Begin(w, "open", "insert", c, "recovered")
    /\ minted' = minted \cup {c}

BeginEvent(w) ==
    /\ \/ \E c \in minted, op \in {"handover", "recovering", "await", "adopt"} :
             Begin(w, op, "read", c, "recovered")
       \/ \E c \in Crashes : Begin(w, "crashOpen", "insert", c, "recovered")
       \/ \E c \in minted \cup Crashes, o \in Outcomes : Begin(w, "resolve", "try", c, o)
    /\ UNCHANGED minted

BeginRequest(w) ==
    /\ \E c \in Corrs, op \in {"close", "delete", "restore"} :
          Begin(w, op, "look", c, "abandoned_manual")
    /\ UNCHANGED minted

OpenRow(w, owner, status) ==
    [status |-> status, outcome |-> "none", owner |-> owner, escalated |-> 0,
     bound |-> call[w].corr \in Breaks, hidden |-> FALSE]

\* RegisterBreakOpen, RegisterCrashOpen, the second half of EnsureBreakAdopted.
Insert(w) ==
    /\ call[w].pc = "insert"
    /\ \E owner \in IF call[w].op = "crashOpen" THEN {"admin"} ELSE {"transaq", "supervisor"},
          status \in IF call[w].op = "adopt" THEN Open ELSE {"active"} :
          table' = Inserted(call[w].corr, OpenRow(w, owner, status))
    /\ Return(w)
    /\ UNCHANGED <<minted, begun, faults, crashes>>

\* GetAsync of handover, recovering, await-operator and adopt.
Read(w) == LET row == table[call[w].corr] IN
    /\ call[w].pc = "read"
    /\ \/ /\ IF call[w].op = "adopt" THEN row = Absent
             ELSE row.status \in Open /\ (call[w].op = "await" => row.status # "active")
          /\ call' = [call EXCEPT ![w].seen = row,
                        ![w].pc = IF call[w].op = "adopt" THEN "insert" ELSE "update"]
       \/ /\ IF call[w].op = "adopt" THEN row # Absent
             ELSE row.status \notin Open \/ (call[w].op = "await" /\ row.status = "active")
          /\ Return(w)
    /\ UNCHANGED <<table, minted, begun, faults, crashes>>

\* The row to write back: what was read, with the event's own fields.
RowAfter(job) ==
    CASE job.op = "handover" ->
           [job.seen EXCEPT !.owner = "supervisor",
              !.escalated = IF job.seen.escalated = 0 THEN job.at ELSE @]
      [] job.op = "recovering" -> [job.seen EXCEPT !.status = "recovering"]
      [] OTHER -> [job.seen EXCEPT !.status = "active"]

Update(w) ==
    /\ call[w].pc = "update"
    /\ table' = Updated(call[w].corr, RowAfter(call[w]))
    /\ Return(w)
    /\ UNCHANGED <<minted, begun, faults, crashes>>

ClosedRow(w) ==
    [status |-> "resolved", outcome |-> call[w].outcome,
     owner |-> IF call[w].corr \in Crashes THEN "admin" ELSE "supervisor",
     escalated |-> 0, bound |-> FALSE, hidden |-> FALSE]

\* Mutant: one attempt, no terminal row and no retry.
TryResolveOnce(w) == LET c == call[w].corr IN
    /\ call[w].pc \in {"try", "tryAgain", "retry"}
    /\ table' = ResolvedAs(c, call[w].outcome)
    /\ Registered(w)
    /\ UNCHANGED <<minted, begun, faults, crashes>>

\* The three places where RegisterBreakResolved tries the UPDATE.
TryResolve(w) == LET c == call[w].corr IN
    /\ call[w].pc \in {"try", "tryAgain", "retry"}
    /\ table' = ResolvedAs(c, call[w].outcome)
    /\ IF Matches(c) THEN Registered(w)
       ELSE IF call[w].pc = "try" THEN GoTo(w, "readClosing")
       ELSE IF call[w].pc = "tryAgain" THEN GoTo(w, "retry")
       ELSE call' = [call EXCEPT ![w].tries = @ + 1,
                       ![w].pc = IF call[w].tries + 1 = Retries THEN "insertLast" ELSE "retry"]
    /\ UNCHANGED <<minted, begun, faults, crashes>>

ReadClosing(w) ==
    /\ call[w].pc = "readClosing"
    /\ GoTo(w, IF table[call[w].corr] = Absent THEN "insertClosed" ELSE "retry")
    /\ UNCHANGED <<table, minted, begun, faults, crashes>>

\* Terminal INSERT: the close overtook the open, or the retries ran out.
InsertClosed(w) == LET c == call[w].corr IN
    /\ call[w].pc \in {"insertClosed", "insertLast"}
    /\ table' = Inserted(c, ClosedRow(w))
    /\ IF table[c] # Absent /\ call[w].pc = "insertClosed"
       THEN GoTo(w, "tryAgain") ELSE Registered(w)
    /\ UNCHANGED <<minted, begun, faults, crashes>>

\* BindConnectionIdIfNullAsync
Bind(w) ==
    /\ call[w].pc = "bind"
    /\ table' = IF table[call[w].corr] = Absent THEN table
                ELSE [table EXCEPT ![call[w].corr].bound = TRUE]
    /\ Closed(w)
    /\ UNCHANGED <<minted, begun, faults, crashes>>

\* The requests read the row first; an open break may be closed through the
\* connection manager (and so through the registrator) or in the table.
Look(w) == LET row == table[call[w].corr] IN
    /\ call[w].pc = "look"
    /\ \/ /\ row = Absent \/ (call[w].op = "restore" <=> ~row.hidden)
          /\ Return(w)
       \/ /\ row # Absent /\ call[w].op = "restore" /\ row.hidden
          /\ GoTo(w, "show")
       \/ /\ row # Absent /\ call[w].op # "restore" /\ ~row.hidden
          /\ \/ row.status \in Open /\ call[w].corr \in Breaks /\ GoTo(w, "try")
             \/ row.status \in Open /\ GoTo(w, "direct")
             \/ row.status = "resolved" /\ call[w].op = "delete" /\ GoTo(w, "hide")
             \/ row.status = "resolved" /\ call[w].op = "close" /\ Return(w)
    /\ UNCHANGED <<table, minted, begun, faults, crashes>>

\* Mutant: an episode the manager does not hold is not closed at all.
DirectSkipped(w) ==
    /\ call[w].pc = "direct"
    /\ table' = table
    /\ Closed(w)
    /\ UNCHANGED <<minted, begun, faults, crashes>>

\* Close in the table; no matching row is a conflict reported to the operator.
Direct(w) ==
    /\ call[w].pc = "direct"
    /\ table' = ResolvedAs(call[w].corr, call[w].outcome)
    /\ IF Matches(call[w].corr) THEN Closed(w) ELSE Return(w)
    /\ UNCHANGED <<minted, begun, faults, crashes>>

HideOrShow(w) ==
    /\ call[w].pc \in {"hide", "show"}
    /\ table' = IF table[call[w].corr] = Absent THEN table
                ELSE [table EXCEPT ![call[w].corr].hidden = call[w].pc = "hide"]
    /\ Return(w)
    /\ UNCHANGED <<minted, begun, faults, crashes>>

\* A store call throws.  Inside the registrator SafeAsync swallows it and the
\* caller goes on as if the event were recorded; elsewhere the call ends.
Throw(w) ==
    /\ call[w] # Idle /\ faults < MaxFaults
    /\ faults' = faults + 1
    /\ \/ call[w].pc \in Closing /\ Registered(w)
       \/ call[w].pc = "bind" /\ Closed(w)
       \/ call[w].pc \notin Closing \cup {"bind"} /\ Return(w)
    /\ UNCHANGED <<table, minted, begun, crashes>>

\* The host restarts: the rows stay, the calls under way are gone.
Restart ==
    /\ crashes < MaxCrashes
    /\ crashes' = crashes + 1
    /\ call' = [w \in Callers |-> Idle]
    /\ UNCHANGED <<table, minted, begun, faults>>

Step(w) == \/ BeginOpen(w) \/ BeginEvent(w) \/ BeginRequest(w)
           \/ Insert(w) \/ Read(w) \/ Update(w)
           \/ TryResolve(w) \/ ReadClosing(w) \/ InsertClosed(w) \/ Bind(w)
           \/ Look(w) \/ Direct(w) \/ HideOrShow(w) \/ Throw(w)

Next == Restart \/ \E w \in Callers : Step(w)

Spec == Init /\ [][Next]_vars

-----------------------------------------------------------------------------

\* Types, the CHECK constraints of V028 included: a row has an outcome exactly
\* when it is resolved.
TypeOK ==
    /\ table \in [Corrs -> Rows]
    /\ \A c \in Corrs : (table[c].status = "resolved") <=> (table[c].outcome # "none")
    /\ minted \subseteq Breaks
    /\ call \in [Callers -> Jobs \cup {Idle}]
    /\ begun \in 0 .. MaxCalls
    /\ faults \in 0 .. MaxFaults
    /\ crashes \in 0 .. MaxCrashes

\* The journal implements the life cycle it promises: however the statements
\* of racing calls interleave, a resolved episode never comes back and keeps
\* its first outcome, and hiding a row leaves its life cycle alone.
Lifecycle == INSTANCE IncidentLifecycle WITH
    phase <- [c \in Corrs |-> table[c].status],
    result <- [c \in Corrs |-> table[c].outcome],
    hidden <- [c \in Corrs |-> table[c].hidden]

Implements == Lifecycle!Spec

\* When no store call failed, RegisterBreakResolved returns only after the
\* episode is closed, even while the fire-and-forget open of the same episode
\* has not reached the table yet.
ResolveReturnsClosed ==
    [][\A w \in Callers :
         /\ call[w] # Idle /\ call[w].pc \in Closing
         /\ call'[w] = Idle \/ call'[w].pc \notin Closing
         /\ faults' = 0 /\ crashes' = crashes
         => table'[call[w].corr].status = "resolved"]_vars

\* Soft-delete of an open episode closes it first (docs/dev/phase8/
\* incident-soft-delete.md): as long as the store has not failed, a hidden row
\* is never an open one, which nothing could close any more.
HiddenIsClosed ==
    faults = 0 => \A c \in Corrs : table[c].hidden => table[c].status = "resolved"

\* The time of the first handover stays: `existing.EscalatedAt ?? escalatedAt'.
EscalationKept ==
    [][\A c \in Corrs : table[c].escalated # 0 =>
                          table'[c].escalated = table[c].escalated]_vars
=============================================================================
