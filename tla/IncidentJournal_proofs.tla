----------------------- MODULE IncidentJournal_proofs -----------------------
(***************************************************************************)
(* The journal keeps its types and implements IncidentLifecycle, for every *)
(* set of episodes and callers and every bound.  The table is touched by   *)
(* six statements only; StatementLemmas show for each that it is a step of *)
(* the life cycle or leaves it alone.  The rest of the proof is that the   *)
(* snapshot a call writes back is that of an open row (SnapshotsOpen).     *)
(***************************************************************************)
EXTENDS IncidentJournal, TLAPS

\* What every statement needs of the table and leaves in it.
TableOK ==
    /\ table \in [Corrs -> Rows]
    /\ \A c \in Corrs : (table[c].status = "resolved") <=> (table[c].outcome # "none")
    /\ \A c \in Corrs : table[c].status = "absent" => table[c] = Absent

CallOK == call \in [Callers -> Jobs \cup {Idle}]

\* A call that is about to write back holds a snapshot of an open row.
SnapshotsOpen ==
    \A w \in Callers : call[w] # Idle /\ call[w].pc = "update" =>
        call[w].seen.status \in Open

\* Up to the last INSERT of a close there is a retry left.
BeforeLast == (Closing \ {"insertLast"}) \cup {"look"}

RetriesLeft ==
    \A w \in Callers : call[w] # Idle /\ call[w].pc \in BeforeLast => call[w].tries < Retries

CallsOK == CallOK /\ SnapshotsOpen /\ RetriesLeft

IInv == TypeOK /\ TableOK /\ CallsOK

\* The change one statement may make to the life cycle of the rows.
LifecycleStep == Lifecycle!Next \/ UNCHANGED Lifecycle!vars

Effect == TableOK' /\ LifecycleStep

LEMMA NoStatement == ASSUME TableOK, UNCHANGED table PROVE Effect
  BY DEF Effect, TableOK, LifecycleStep, Lifecycle!vars

\* Writing one row whose status, outcome or visibility changed.
LEMMA RowWritten ==
  ASSUME TableOK, NEW c \in Corrs, NEW row \in Rows,
         table' = [table EXCEPT ![c] = row],
         row.status # "absent",
         (row.status = "resolved") <=> (row.outcome # "none")
  PROVE  /\ TableOK'
         /\ [x \in Corrs |-> table'[x].status]
              = [[x \in Corrs |-> table[x].status] EXCEPT ![c] = row.status]
         /\ [x \in Corrs |-> table'[x].outcome]
              = [[x \in Corrs |-> table[x].outcome] EXCEPT ![c] = row.outcome]
         /\ [x \in Corrs |-> table'[x].hidden]
              = [[x \in Corrs |-> table[x].hidden] EXCEPT ![c] = row.hidden]
         /\ row.status = table[c].status =>
              [x \in Corrs |-> table'[x].status] = [x \in Corrs |-> table[x].status]
         /\ row.outcome = table[c].outcome =>
              [x \in Corrs |-> table'[x].outcome] = [x \in Corrs |-> table[x].outcome]
         /\ row.hidden = table[c].hidden =>
              [x \in Corrs |-> table'[x].hidden] = [x \in Corrs |-> table[x].hidden]
  <1>1. /\ table' \in [Corrs -> Rows]
        /\ table'[c] = row
        /\ \A x \in Corrs : x # c => table'[x] = table[x]
    BY DEF TableOK
  <1>2. TableOK'
    BY <1>1 DEF TableOK
  <1>3. [x \in Corrs |-> table'[x].status]
              = [[x \in Corrs |-> table[x].status] EXCEPT ![c] = row.status]
    BY <1>1
  <1>4. [x \in Corrs |-> table'[x].outcome]
              = [[x \in Corrs |-> table[x].outcome] EXCEPT ![c] = row.outcome]
    BY <1>1
  <1>5. [x \in Corrs |-> table'[x].hidden]
              = [[x \in Corrs |-> table[x].hidden] EXCEPT ![c] = row.hidden]
    BY <1>1
  <1>6. row.status = table[c].status =>
              [x \in Corrs |-> table'[x].status] = [x \in Corrs |-> table[x].status]
    BY <1>1
  <1>7. row.outcome = table[c].outcome =>
              [x \in Corrs |-> table'[x].outcome] = [x \in Corrs |-> table[x].outcome]
    BY <1>1
  <1>8. row.hidden = table[c].hidden =>
              [x \in Corrs |-> table'[x].hidden] = [x \in Corrs |-> table[x].hidden]
    BY <1>1
  <1> QED BY <1>2, <1>3, <1>4, <1>5, <1>6, <1>7, <1>8

LEMMA InsertStatement ==
  ASSUME TableOK, NEW c \in Corrs, NEW row \in Rows,
         table' = Inserted(c, row),
         ~row.hidden, row.status # "absent",
         (row.status = "resolved") <=> (row.outcome # "none"),
         row.outcome # "none" => row.outcome \in Outcomes
  PROVE  Effect
  <1>1. CASE table[c] # Absent
    <2>1. UNCHANGED table BY <1>1 DEF Inserted
    <2> QED BY <2>1, NoStatement
  <1>2. CASE table[c] = Absent
    <2>1. table' = [table EXCEPT ![c] = row]
      BY <1>2 DEF Inserted
    <2>2. /\ TableOK'
          /\ [x \in Corrs |-> table'[x].status]
               = [[x \in Corrs |-> table[x].status] EXCEPT ![c] = row.status]
          /\ [x \in Corrs |-> table'[x].outcome]
               = [[x \in Corrs |-> table[x].outcome] EXCEPT ![c] = row.outcome]
      BY <2>1, RowWritten
    <2>3. /\ table[c].status = "absent" /\ table[c].outcome = "none" /\ table[c].hidden = FALSE
      BY <1>2 DEF Absent
    <2>4. [x \in Corrs |-> table'[x].hidden] = [x \in Corrs |-> table[x].hidden]
      BY <2>1, <2>3 DEF TableOK, Rows
    <2>5. row.outcome = "none" =>
             [x \in Corrs |-> table'[x].outcome] = [x \in Corrs |-> table[x].outcome]
      BY <2>1, <2>3 DEF TableOK
    <2>6. row.status = "resolved" \/ row.status \in {"active", "recovering"}
      BY DEF Rows, Open
    <2>7. Lifecycle!Appear(c)
      BY <2>2, <2>3, <2>4, <2>5, <2>6 DEF Lifecycle!Appear
    <2> QED BY <2>2, <2>7 DEF Effect, LifecycleStep, Lifecycle!Next
  <1> QED BY <1>1, <1>2

LEMMA UpdateStatement ==
  ASSUME TableOK, NEW c \in Corrs, NEW row \in Rows, row.status \in Open,
         table' = Updated(c, row)
  PROVE  Effect
  <1>1. CASE ~Matches(c)
    <2>1. UNCHANGED table BY <1>1 DEF Updated
    <2> QED BY <2>1, NoStatement
  <1>2. CASE Matches(c)
    <2> DEFINE new == [table[c] EXCEPT !.status = row.status, !.owner = row.owner,
                          !.escalated = row.escalated, !.bound = row.bound]
    <2>1. table[c] \in Rows
      BY DEF TableOK
    <2>2. /\ new \in Rows /\ new.status = row.status
          /\ new.outcome = table[c].outcome /\ new.hidden = table[c].hidden
      BY <2>1 DEF Rows
    <2>3. table' = [table EXCEPT ![c] = new]
      BY <1>2, <2>1 DEF Updated, TableOK, Rows
    <2>4. table[c].status \in Open /\ ~table[c].hidden /\ table[c].outcome = "none"
      BY <1>2, <2>1 DEF Matches, TableOK, Open
    <2> HIDE DEF new
    <2>5. /\ TableOK'
          /\ [x \in Corrs |-> table'[x].status]
               = [[x \in Corrs |-> table[x].status] EXCEPT ![c] = row.status]
          /\ [x \in Corrs |-> table'[x].outcome] = [x \in Corrs |-> table[x].outcome]
          /\ [x \in Corrs |-> table'[x].hidden] = [x \in Corrs |-> table[x].hidden]
      <3>1. /\ new.status # "absent"
            /\ (new.status = "resolved") <=> (new.outcome # "none")
        BY <2>2, <2>4 DEF Open
      <3>2. new \in Rows /\ new.outcome = table[c].outcome /\ new.hidden = table[c].hidden
        BY <2>2
      <3>3. /\ TableOK'
            /\ [x \in Corrs |-> table'[x].status]
                 = [[x \in Corrs |-> table[x].status] EXCEPT ![c] = new.status]
            /\ [x \in Corrs |-> table'[x].outcome] = [x \in Corrs |-> table[x].outcome]
            /\ [x \in Corrs |-> table'[x].hidden] = [x \in Corrs |-> table[x].hidden]
        BY <2>3, <3>1, <3>2, RowWritten
      <3> QED BY <2>2, <3>3, Zenon
    <2>6. Lifecycle!Work(c)
      BY <2>4, <2>5 DEF Lifecycle!Work, Open
    <2> QED BY <2>5, <2>6 DEF Effect, LifecycleStep, Lifecycle!Next
  <1> QED BY <1>1, <1>2

LEMMA ResolveStatement ==
  ASSUME TableOK, NEW c \in Corrs, NEW o \in Outcomes, table' = ResolvedAs(c, o)
  PROVE  Effect
  <1>1. CASE ~Matches(c)
    <2>1. UNCHANGED table BY <1>1 DEF ResolvedAs
    <2> QED BY <2>1, NoStatement
  <1>2. CASE Matches(c)
    <2> DEFINE new == [table[c] EXCEPT !.status = "resolved", !.outcome = o]
    <2>1. table[c] \in Rows
      BY DEF TableOK
    <2>2. /\ new \in Rows /\ new.status = "resolved"
          /\ new.outcome = o /\ new.hidden = table[c].hidden /\ o # "none"
      BY <2>1 DEF Rows, Outcomes
    <2>3. table' = [table EXCEPT ![c] = new]
      BY <1>2, <2>1 DEF ResolvedAs, TableOK, Rows
    <2>4. table[c].status \in Open /\ ~table[c].hidden
      BY <1>2 DEF Matches
    <2> HIDE DEF new
    <2>5. /\ TableOK'
          /\ [x \in Corrs |-> table'[x].status]
               = [[x \in Corrs |-> table[x].status] EXCEPT ![c] = "resolved"]
          /\ [x \in Corrs |-> table'[x].outcome]
               = [[x \in Corrs |-> table[x].outcome] EXCEPT ![c] = o]
          /\ [x \in Corrs |-> table'[x].hidden] = [x \in Corrs |-> table[x].hidden]
      <3>1. /\ new.status # "absent"
            /\ (new.status = "resolved") <=> (new.outcome # "none")
        BY <2>2
      <3>2. new \in Rows /\ new.hidden = table[c].hidden
        BY <2>2
      <3>3. /\ TableOK'
            /\ [x \in Corrs |-> table'[x].status]
                 = [[x \in Corrs |-> table[x].status] EXCEPT ![c] = new.status]
            /\ [x \in Corrs |-> table'[x].outcome]
                 = [[x \in Corrs |-> table[x].outcome] EXCEPT ![c] = new.outcome]
            /\ [x \in Corrs |-> table'[x].hidden] = [x \in Corrs |-> table[x].hidden]
        BY <2>3, <3>1, <3>2, RowWritten
      <3> QED BY <2>2, <3>3, Zenon
    <2>6. Lifecycle!Resolve(c)
      BY <2>4, <2>5 DEF Lifecycle!Resolve, Open
    <2> QED BY <2>5, <2>6 DEF Effect, LifecycleStep, Lifecycle!Next
  <1> QED BY <1>1, <1>2

LEMMA BindStatement ==
  ASSUME TableOK, NEW c \in Corrs,
         table' = IF table[c] = Absent THEN table ELSE [table EXCEPT ![c].bound = TRUE]
  PROVE  Effect
  <1>1. CASE table[c] = Absent
    BY <1>1, NoStatement
  <1>2. CASE table[c] # Absent
    <2> DEFINE new == [table[c] EXCEPT !.bound = TRUE]
    <2>1. table[c] \in Rows /\ table[c].status # "absent"
      BY <1>2 DEF TableOK
    <2>2. /\ new \in Rows /\ new.status = table[c].status
          /\ new.outcome = table[c].outcome /\ new.hidden = table[c].hidden
      BY <2>1 DEF Rows
    <2>3. table' = [table EXCEPT ![c] = new]
      BY <1>2, <2>1 DEF TableOK, Rows
    <2>4. (new.status = "resolved") <=> (new.outcome # "none")
      BY <2>2 DEF TableOK
    <2> HIDE DEF new
    <2>5. /\ TableOK'
          /\ [x \in Corrs |-> table'[x].status] = [x \in Corrs |-> table[x].status]
          /\ [x \in Corrs |-> table'[x].outcome] = [x \in Corrs |-> table[x].outcome]
          /\ [x \in Corrs |-> table'[x].hidden] = [x \in Corrs |-> table[x].hidden]
      BY <2>1, <2>2, <2>3, <2>4, RowWritten
    <2>6. UNCHANGED Lifecycle!vars
      BY <2>5 DEF Lifecycle!vars
    <2> QED BY <2>5, <2>6 DEF Effect, LifecycleStep
  <1> QED BY <1>1, <1>2

LEMMA VisibilityStatement ==
  ASSUME TableOK, NEW c \in Corrs, NEW b \in BOOLEAN,
         table' = IF table[c] = Absent THEN table ELSE [table EXCEPT ![c].hidden = b]
  PROVE  Effect
  <1>1. CASE table[c] = Absent
    BY <1>1, NoStatement
  <1>2. CASE table[c] # Absent
    <2> DEFINE new == [table[c] EXCEPT !.hidden = b]
    <2>1. table[c] \in Rows /\ table[c].status # "absent"
      BY <1>2 DEF TableOK
    <2>2. /\ new \in Rows /\ new.status = table[c].status
          /\ new.outcome = table[c].outcome /\ new.hidden = b
      BY <2>1 DEF Rows
    <2>3. table' = [table EXCEPT ![c] = new]
      BY <1>2, <2>1 DEF TableOK, Rows
    <2>4. (new.status = "resolved") <=> (new.outcome # "none")
      BY <2>2 DEF TableOK
    <2> HIDE DEF new
    <2>5. /\ TableOK'
          /\ [x \in Corrs |-> table'[x].status] = [x \in Corrs |-> table[x].status]
          /\ [x \in Corrs |-> table'[x].outcome] = [x \in Corrs |-> table[x].outcome]
          /\ [x \in Corrs |-> table'[x].hidden]
               = [[x \in Corrs |-> table[x].hidden] EXCEPT ![c] = b]
      BY <2>1, <2>2, <2>3, <2>4, RowWritten
    <2>6. table[c].hidden \in BOOLEAN
      BY <2>1 DEF Rows
    <2>7. CASE b = table[c].hidden
      <3>1. UNCHANGED Lifecycle!vars
        BY <2>5, <2>7 DEF Lifecycle!vars
      <3> QED BY <2>5, <3>1 DEF Effect, LifecycleStep
    <2>8. CASE b = ~table[c].hidden
      <3>1. Lifecycle!HideOrShow(c)
        BY <2>1, <2>5, <2>8 DEF Lifecycle!HideOrShow
      <3> QED BY <2>5, <3>1 DEF Effect, LifecycleStep, Lifecycle!Next
    <2> QED BY <2>6, <2>7, <2>8
  <1> QED BY <1>1, <1>2

-----------------------------------------------------------------------------

LEMMA ReturnKeepsCalls ==
  ASSUME CallsOK, NEW w \in Callers, Return(w)
  PROVE  CallsOK'
  BY DEF CallsOK, CallOK, SnapshotsOpen, RetriesLeft, Return, Idle

LEMMA GoToKeepsCalls ==
  ASSUME CallsOK, NEW w \in Callers, call[w] # Idle,
         NEW pc \in Closing \cup {"direct", "bind", "hide", "show"}, GoTo(w, pc),
         pc \in BeforeLast => call[w].pc \in BeforeLast
  PROVE  CallsOK'
  <1>1. call[w] \in Jobs
    BY DEF CallsOK, CallOK
  <1>2. [call[w] EXCEPT !.pc = pc] \in Jobs
    BY <1>1 DEF Jobs, Closing
  <1>3. call' = [call EXCEPT ![w] = [call[w] EXCEPT !.pc = pc]]
    BY DEF GoTo
  <1>4. CallOK'
    BY <1>2, <1>3 DEF CallsOK, CallOK
  <1>5. call'[w].pc # "update"
    BY <1>1, <1>3 DEF CallsOK, CallOK, Jobs, Closing
  <1>6. SnapshotsOpen'
    BY <1>3, <1>5 DEF CallsOK, CallOK, SnapshotsOpen
  <1>7. call'[w].pc = pc /\ call'[w].tries = call[w].tries
        /\ \A x \in Callers : x # w => call'[x] = call[x]
    BY <1>1, <1>3 DEF CallsOK, CallOK, Jobs
  <1>8. RetriesLeft'
    BY <1>7 DEF CallsOK, RetriesLeft
  <1> QED BY <1>4, <1>6, <1>8 DEF CallsOK

LEMMA RegisteredKeepsCalls ==
  ASSUME CallsOK, NEW w \in Callers, call[w] # Idle, Registered(w)
  PROVE  CallsOK'
  <1>1. CASE call[w].corr \in Breaks
    BY <1>1, GoToKeepsCalls DEF Registered, BeforeLast, Closing
  <1>2. CASE call[w].corr \notin Breaks
    BY <1>2, ReturnKeepsCalls DEF Registered
  <1> QED BY <1>1, <1>2

LEMMA ClosedKeepsCalls ==
  ASSUME CallsOK, NEW w \in Callers, call[w] # Idle, Closed(w)
  PROVE  CallsOK'
  <1>1. CASE call[w].op = "delete"
    BY <1>1, GoToKeepsCalls DEF Closed, BeforeLast, Closing
  <1>2. CASE call[w].op # "delete"
    BY <1>2, ReturnKeepsCalls DEF Closed
  <1> QED BY <1>1, <1>2

\* A new call is a job with its first program counter.
LEMMA BeginKeepsCalls ==
  ASSUME IInv, NEW w \in Callers, NEW c \in Corrs, NEW o \in Outcomes,
         NEW op \in {"open", "crashOpen", "adopt", "handover", "recovering", "await",
                     "resolve", "close", "delete", "restore"},
         NEW pc \in {"insert", "read", "try", "look"},
         Begin(w, op, pc, c, o)
  PROVE  CallsOK' /\ begun' \in 0 .. MaxCalls
  <1> DEFINE job == [op |-> op, corr |-> c, pc |-> pc, seen |-> Absent,
                     at |-> begun + 1, outcome |-> o, tries |-> 0]
  <1>1. begun \in Nat /\ MaxCalls \in Nat /\ begun < MaxCalls /\ begun' = begun + 1
    BY JournalAssumption DEF IInv, TypeOK, Begin
  <1>2. begun + 1 \in 1 .. MaxCalls /\ 0 \in 0 .. Retries /\ 0 \in 0 .. MaxCalls
    BY <1>1, JournalAssumption
  <1>3. Absent \in Rows
    BY <1>2 DEF Absent, Rows
  <1>4. job \in Jobs
    BY <1>2, <1>3 DEF Jobs, Closing
  <1>5. call' = [call EXCEPT ![w] = job]
    BY DEF Begin
  <1>6. job.pc # "update" /\ job.tries < Retries
    BY JournalAssumption
  <1> HIDE DEF job
  <1>7. CallOK'
    BY <1>4, <1>5 DEF IInv, CallsOK, CallOK
  <1>8. SnapshotsOpen'
    BY <1>5, <1>6 DEF IInv, CallsOK, CallOK, SnapshotsOpen
  <1>9. RetriesLeft'
    BY <1>5, <1>6 DEF IInv, CallsOK, CallOK, RetriesLeft
  <1> QED BY <1>1, <1>2, <1>7, <1>8, <1>9 DEF CallsOK

\* A job under way is typed, and so is its episode.
LEMMA JobTyped ==
  ASSUME CallsOK, NEW w \in Callers, call[w] # Idle
  PROVE  /\ call[w] \in Jobs
         /\ call[w].corr \in Corrs
         /\ call[w].outcome \in Outcomes
         /\ call[w].tries \in 0 .. Retries
         /\ call[w].at \in 1 .. MaxCalls
         /\ call[w].seen \in Rows
  BY DEF CallsOK, CallOK, Jobs

Counters == /\ minted' \subseteq Breaks
            /\ begun' \in 0 .. MaxCalls
            /\ faults' \in 0 .. MaxFaults
            /\ crashes' \in 0 .. MaxCrashes

LEMMA CountersKept ==
  ASSUME IInv, UNCHANGED <<minted, begun, faults, crashes>> PROVE Counters
  BY DEF IInv, TypeOK, Counters

LEMMA Assembled ==
  ASSUME Effect, CallsOK', Counters PROVE IInv' /\ LifecycleStep
  BY DEF Effect, TableOK, CallsOK, CallOK, Counters, IInv, TypeOK

-----------------------------------------------------------------------------

LEMMA InitOK == Init => IInv /\ Lifecycle!Init
  <1> SUFFICES ASSUME Init PROVE IInv /\ Lifecycle!Init
    OBVIOUS
  <1>1. 0 \in 0 .. MaxCalls /\ 0 \in 0 .. MaxFaults /\ 0 \in 0 .. MaxCrashes
    BY JournalAssumption
  <1>2. Absent \in Rows /\ Absent.status = "absent" /\ Absent.outcome = "none" /\ Absent.hidden = FALSE
    BY <1>1 DEF Absent, Rows
  <1>3. \A c \in Corrs : table[c] = Absent
    BY DEF Init
  <1>4. TableOK
    BY <1>2, <1>3 DEF Init, TableOK
  <1>5. CallsOK
    BY DEF Init, CallsOK, CallOK, SnapshotsOpen, RetriesLeft
  <1>6. IInv
    BY <1>1, <1>4, <1>5 DEF Init, IInv, TypeOK, TableOK, CallsOK, CallOK
  <1>7. Lifecycle!Init
    BY <1>2, <1>3 DEF Lifecycle!Init
  <1> QED BY <1>6, <1>7

\* Beginning a call does not touch the table.
LEMMA BeginsOK ==
  ASSUME IInv, NEW w \in Callers, BeginOpen(w) \/ BeginEvent(w) \/ BeginRequest(w)
  PROVE  IInv' /\ LifecycleStep
  <1>1. UNCHANGED <<table, faults, crashes>>
    BY DEF BeginOpen, BeginEvent, BeginRequest, Begin
  <1>2. Effect
    BY <1>1, NoStatement DEF IInv
  <1>3. minted \subseteq Corrs /\ minted' \subseteq Breaks
    BY DEF IInv, TypeOK, Corrs, BeginOpen, BeginEvent, BeginRequest
  <1>4. CallsOK' /\ begun' \in 0 .. MaxCalls
    <2>1. CASE BeginOpen(w)
      BY <2>1, BeginKeepsCalls DEF BeginOpen, Corrs, Outcomes
    <2>2. CASE BeginEvent(w)
      BY <2>2, <1>3, BeginKeepsCalls DEF BeginEvent, Corrs, Outcomes
    <2>3. CASE BeginRequest(w)
      BY <2>3, BeginKeepsCalls DEF BeginRequest, Outcomes
    <2> QED BY <2>1, <2>2, <2>3
  <1>5. Counters
    BY <1>1, <1>3, <1>4 DEF IInv, TypeOK, Counters
  <1> QED BY <1>2, <1>4, <1>5, Assembled

LEMMA OpenRowTyped ==
  ASSUME NEW b \in BOOLEAN, NEW owner \in {"admin", "transaq", "supervisor"}, NEW status \in Open
  PROVE  [status |-> status, outcome |-> "none", owner |-> owner, escalated |-> 0,
          bound |-> b, hidden |-> FALSE] \in Rows
  BY JournalAssumption DEF Rows, Open

LEMMA InsertOK ==
  ASSUME IInv, NEW w \in Callers, Insert(w) PROVE IInv' /\ LifecycleStep
  <1>1. call[w] # Idle
    BY DEF Insert, Idle
  <1>2. call[w].corr \in Corrs
    BY <1>1, JobTyped DEF IInv
  <1>3. PICK owner \in {"admin", "transaq", "supervisor"}, status \in Open :
           table' = Inserted(call[w].corr, OpenRow(w, owner, status))
    BY DEF Insert, Open
  <1>4. OpenRow(w, owner, status) \in Rows
    <2>1. (call[w].corr \in Breaks) \in BOOLEAN
      OBVIOUS
    <2> QED BY <2>1, OpenRowTyped, Zenon DEF OpenRow
  <1>5. /\ OpenRow(w, owner, status).hidden = FALSE
        /\ OpenRow(w, owner, status).status = status
        /\ OpenRow(w, owner, status).outcome = "none"
    BY DEF OpenRow
  <1>6. Effect
    BY <1>2, <1>3, <1>4, <1>5, InsertStatement DEF IInv, Open
  <1>7. CallsOK'
    BY ReturnKeepsCalls DEF Insert, IInv
  <1> QED BY <1>6, <1>7, CountersKept, Assembled DEF Insert

LEMMA ReadOK ==
  ASSUME IInv, NEW w \in Callers, Read(w) PROVE IInv' /\ LifecycleStep
  <1>1. call[w] # Idle
    BY DEF Read, Idle
  <1>2. call[w] \in Jobs /\ call[w].corr \in Corrs
    BY <1>1, JobTyped DEF IInv
  <1>3. Effect
    BY NoStatement DEF Read, IInv
  <1>4. CallsOK'
    <2> DEFINE row == table[call[w].corr]
               pc == IF call[w].op = "adopt" THEN "insert" ELSE "update"
               job == [call[w] EXCEPT !.seen = row, !.pc = pc]
    <2>1. row \in Rows
      BY <1>2 DEF IInv, TypeOK
    <2>2. CASE Return(w)
      BY <2>2, ReturnKeepsCalls DEF IInv
    <2>3. CASE /\ IF call[w].op = "adopt" THEN row = Absent
                  ELSE row.status \in Open /\ (call[w].op = "await" => row.status # "active")
               /\ call' = [call EXCEPT ![w].seen = row, ![w].pc = pc]
      <3>1. job \in Jobs
        BY <1>2, <2>1 DEF Jobs
      <3>2. call' = [call EXCEPT ![w] = job]
        BY <1>2, <2>3 DEF IInv, CallsOK, CallOK, Jobs
      <3>3. CallOK'
        BY <3>1, <3>2 DEF IInv, CallsOK, CallOK
      <3>4. /\ call'[w] = job /\ job.seen = row /\ job.pc = pc /\ job.op = call[w].op
            /\ \A x \in Callers : x # w => call'[x] = call[x]
        BY <1>2, <3>2 DEF IInv, CallsOK, CallOK, Jobs
      <3>5. pc = "update" => row.status \in Open
        BY <2>3
      <3>6. pc \notin BeforeLast
        BY DEF BeforeLast, Closing
      <3> HIDE DEF row, pc, job
      <3>7. SnapshotsOpen'
        BY <3>4, <3>5 DEF IInv, CallsOK, SnapshotsOpen
      <3>8. RetriesLeft'
        BY <3>4, <3>6 DEF IInv, CallsOK, RetriesLeft
      <3> QED BY <3>3, <3>7, <3>8 DEF CallsOK
    <2> QED BY <2>2, <2>3 DEF Read
  <1> QED BY <1>3, <1>4, CountersKept, Assembled DEF Read

\* The event's own fields leave an open row open.
LEMMA RowAfterOpen ==
  ASSUME NEW job \in Jobs, job.seen \in Rows, job.seen.status \in Open
  PROVE  RowAfter(job) \in Rows /\ RowAfter(job).status \in Open
  <1>1. MaxCalls \in Nat /\ job.at \in 0 .. MaxCalls
    BY JournalAssumption DEF Jobs
  <1>2. CASE job.op = "handover"
    BY <1>1, <1>2 DEF RowAfter, Rows, Open
  <1>3. CASE job.op = "recovering"
    BY <1>3 DEF RowAfter, Rows, Open
  <1>4. CASE job.op \notin {"handover", "recovering"}
    BY <1>4 DEF RowAfter, Rows, Open
  <1> QED BY <1>2, <1>3, <1>4

LEMMA UpdateOK ==
  ASSUME IInv, NEW w \in Callers, Update(w) PROVE IInv' /\ LifecycleStep
  <1>1. call[w] # Idle
    BY DEF Update, Idle
  <1>2. call[w] \in Jobs /\ call[w].corr \in Corrs /\ call[w].seen \in Rows
    BY <1>1, JobTyped DEF IInv
  <1>3. call[w].seen.status \in Open
    BY <1>1 DEF Update, IInv, CallsOK, SnapshotsOpen
  <1>4. Effect
    BY <1>2, <1>3, RowAfterOpen, UpdateStatement DEF Update, IInv
  <1>5. CallsOK'
    BY ReturnKeepsCalls DEF Update, IInv
  <1> QED BY <1>4, <1>5, CountersKept, Assembled DEF Update

LEMMA TryResolveOK ==
  ASSUME IInv, NEW w \in Callers, TryResolve(w) PROVE IInv' /\ LifecycleStep
  <1> DEFINE job == call[w]
             next == IF job.tries + 1 = Retries THEN "insertLast" ELSE "retry"
  <1>1. job # Idle
    BY DEF TryResolve, Idle
  <1>2. job \in Jobs /\ job.corr \in Corrs /\ job.outcome \in Outcomes
    BY <1>1, JobTyped DEF IInv
  <1>3. Effect
    BY <1>2, ResolveStatement DEF TryResolve, IInv
  <1>4. CallsOK'
    <2>0. job.pc \in BeforeLast /\ job.tries \in Nat /\ job.tries < Retries
      BY <1>1, <1>2 DEF TryResolve, IInv, CallsOK, RetriesLeft, BeforeLast, Closing, Jobs
    <2>1. CASE Registered(w)
      BY <1>1, <2>1, RegisteredKeepsCalls DEF IInv
    <2>2. CASE GoTo(w, "readClosing") \/ GoTo(w, "retry")
      BY <1>1, <2>0, <2>2, GoToKeepsCalls DEF IInv, Closing
    <2>3. CASE call' = [call EXCEPT ![w].tries = @ + 1, ![w].pc = next]
      <3> DEFINE new == [job EXCEPT !.tries = @ + 1, !.pc = next]
      <3>1. job.tries + 1 \in 0 .. Retries
        BY <2>0, JournalAssumption
      <3>2. new \in Jobs
        BY <1>2, <3>1 DEF Jobs, Closing
      <3>3. call' = [call EXCEPT ![w] = new]
        BY <1>2, <2>3 DEF IInv, CallsOK, CallOK, Jobs
      <3>4. new.pc = next /\ new.tries = job.tries + 1
        BY <1>2 DEF Jobs
      <3>5. new.pc # "update" /\ (new.pc \in BeforeLast => new.tries < Retries)
        BY <3>1, <3>4, JournalAssumption DEF BeforeLast
      <3> HIDE DEF new
      <3>6. CallOK'
        BY <3>2, <3>3 DEF IInv, CallsOK, CallOK
      <3>7. call'[w] = new /\ \A x \in Callers : x # w => call'[x] = call[x]
        BY <3>3 DEF IInv, CallsOK, CallOK
      <3> QED BY <3>5, <3>6, <3>7 DEF IInv, CallsOK, SnapshotsOpen, RetriesLeft
    <2> QED BY <2>1, <2>2, <2>3 DEF TryResolve
  <1> QED BY <1>3, <1>4, CountersKept, Assembled DEF TryResolve

LEMMA ReadClosingOK ==
  ASSUME IInv, NEW w \in Callers, ReadClosing(w) PROVE IInv' /\ LifecycleStep
  <1>1. call[w] # Idle /\ call[w].pc \in BeforeLast
    BY DEF ReadClosing, Idle, BeforeLast, Closing
  <1>2. Effect
    BY NoStatement DEF ReadClosing, IInv
  <1>3. CallsOK'
    BY <1>1, GoToKeepsCalls DEF ReadClosing, IInv, Closing
  <1> QED BY <1>2, <1>3, CountersKept, Assembled DEF ReadClosing

LEMMA InsertClosedOK ==
  ASSUME IInv, NEW w \in Callers, InsertClosed(w) PROVE IInv' /\ LifecycleStep
  <1>1. call[w] # Idle
    BY DEF InsertClosed, Idle
  <1>2. call[w].corr \in Corrs /\ call[w].outcome \in Outcomes
    BY <1>1, JobTyped DEF IInv
  <1>3. ClosedRow(w) \in Rows
    BY <1>2, JournalAssumption DEF ClosedRow, Rows
  <1>4. /\ ClosedRow(w).hidden = FALSE /\ ClosedRow(w).status = "resolved"
        /\ ClosedRow(w).outcome \in Outcomes /\ ClosedRow(w).outcome # "none"
    BY <1>2 DEF ClosedRow, Outcomes
  <1>5. Effect
    BY <1>2, <1>3, <1>4, InsertStatement DEF InsertClosed, IInv
  <1>6. CallsOK'
    <2>1. CASE Registered(w)
      BY <1>1, <2>1, RegisteredKeepsCalls DEF IInv
    <2>2. CASE GoTo(w, "tryAgain") /\ call[w].pc = "insertClosed"
      BY <1>1, <2>2, GoToKeepsCalls DEF IInv, BeforeLast, Closing
    <2> QED BY <2>1, <2>2 DEF InsertClosed
  <1> QED BY <1>5, <1>6, CountersKept, Assembled DEF InsertClosed

LEMMA BindOK ==
  ASSUME IInv, NEW w \in Callers, Bind(w) PROVE IInv' /\ LifecycleStep
  <1>1. call[w] # Idle
    BY DEF Bind, Idle
  <1>2. call[w].corr \in Corrs
    BY <1>1, JobTyped DEF IInv
  <1>3. Effect
    BY <1>2, BindStatement DEF Bind, IInv
  <1>4. CallsOK'
    BY <1>1, ClosedKeepsCalls DEF Bind, IInv
  <1> QED BY <1>3, <1>4, CountersKept, Assembled DEF Bind

LEMMA LookOK ==
  ASSUME IInv, NEW w \in Callers, Look(w) PROVE IInv' /\ LifecycleStep
  <1>1. call[w] # Idle /\ call[w].pc \in BeforeLast
    BY DEF Look, Idle, BeforeLast
  <1>2. Effect
    BY NoStatement DEF Look, IInv
  <1>3. CallsOK'
    <2>1. CASE Return(w)
      BY <2>1, ReturnKeepsCalls DEF IInv
    <2>2. CASE \E pc \in {"show", "hide", "try", "direct"} : GoTo(w, pc)
      BY <1>1, <2>2, GoToKeepsCalls DEF IInv, Closing
    <2> QED BY <2>1, <2>2 DEF Look
  <1> QED BY <1>2, <1>3, CountersKept, Assembled DEF Look

LEMMA DirectOK ==
  ASSUME IInv, NEW w \in Callers, Direct(w) PROVE IInv' /\ LifecycleStep
  <1>1. call[w] # Idle
    BY DEF Direct, Idle
  <1>2. call[w].corr \in Corrs /\ call[w].outcome \in Outcomes
    BY <1>1, JobTyped DEF IInv
  <1>3. Effect
    BY <1>2, ResolveStatement DEF Direct, IInv
  <1>4. CallsOK'
    BY <1>1, ClosedKeepsCalls, ReturnKeepsCalls DEF Direct, IInv
  <1> QED BY <1>3, <1>4, CountersKept, Assembled DEF Direct

LEMMA HideOrShowOK ==
  ASSUME IInv, NEW w \in Callers, HideOrShow(w) PROVE IInv' /\ LifecycleStep
  <1>1. call[w] # Idle
    BY DEF HideOrShow, Idle
  <1>2. call[w].corr \in Corrs
    BY <1>1, JobTyped DEF IInv
  <1>3. PICK b \in BOOLEAN :
           table' = IF table[call[w].corr] = Absent THEN table
                    ELSE [table EXCEPT ![call[w].corr].hidden = b]
    <2>1. CASE call[w].pc = "hide"
      BY <2>1, Zenon DEF HideOrShow
    <2>2. CASE call[w].pc # "hide"
      BY <2>2, Zenon DEF HideOrShow
    <2> QED BY <2>1, <2>2
  <1>4. Effect
    BY <1>2, <1>3, VisibilityStatement DEF IInv
  <1>5. CallsOK'
    BY ReturnKeepsCalls DEF HideOrShow, IInv
  <1> QED BY <1>4, <1>5, CountersKept, Assembled DEF HideOrShow

LEMMA ThrowOK ==
  ASSUME IInv, NEW w \in Callers, Throw(w) PROVE IInv' /\ LifecycleStep
  <1>1. call[w] # Idle
    BY DEF Throw
  <1>2. Effect
    BY NoStatement DEF Throw, IInv
  <1>3. CallsOK'
    BY <1>1, RegisteredKeepsCalls, ClosedKeepsCalls, ReturnKeepsCalls DEF Throw, IInv
  <1>4. Counters
    BY JournalAssumption DEF Throw, IInv, TypeOK, Counters
  <1> QED BY <1>2, <1>3, <1>4, Assembled

LEMMA RestartOK ==
  ASSUME IInv, Restart PROVE IInv' /\ LifecycleStep
  <1>1. Effect
    BY NoStatement DEF Restart, IInv
  <1>2. CallsOK'
    BY DEF Restart, CallsOK, CallOK, SnapshotsOpen, RetriesLeft
  <1>3. Counters
    BY JournalAssumption DEF Restart, IInv, TypeOK, Counters
  <1> QED BY <1>1, <1>2, <1>3, Assembled

LEMMA StepOK == IInv /\ [Next]_vars => IInv' /\ LifecycleStep
  <1> SUFFICES ASSUME IInv, [Next]_vars PROVE IInv' /\ LifecycleStep
    OBVIOUS
  <1>1. CASE Restart
    BY <1>1, RestartOK
  <1>2. ASSUME NEW w \in Callers, Step(w) PROVE IInv' /\ LifecycleStep
    BY <1>2, BeginsOK, InsertOK, ReadOK, UpdateOK, TryResolveOK, ReadClosingOK,
       InsertClosedOK, BindOK, LookOK, DirectOK, HideOrShowOK, ThrowOK DEF Step
  <1>3. CASE UNCHANGED vars
    <2>1. Effect
      BY <1>3, NoStatement DEF vars, IInv
    <2>2. CallsOK'
      BY <1>3 DEF vars, IInv, CallsOK, CallOK, SnapshotsOpen, RetriesLeft
    <2> QED BY <1>3, <2>1, <2>2, CountersKept, Assembled DEF vars
  <1> QED BY <1>1, <1>2, <1>3 DEF Next

\* The inductive invariant holds throughout.
THEOREM JournalInvariant == Spec => []IInv
  <1>1. Init => IInv
    BY InitOK
  <1>2. IInv /\ [Next]_vars => IInv'
    BY StepOK
  <1> QED BY <1>1, <1>2, PTL DEF Spec

\* The rows keep their types and the CHECK constraints of the table, whatever
\* stale snapshot a racing call writes back.
THEOREM JournalTyped == Spec => []TypeOK
  BY JournalInvariant, PTL DEF IInv

\* The journal implements the life cycle: a resolved episode never comes back
\* and keeps its first outcome, for any number of racing calls, failing store
\* calls and restarts.
THEOREM JournalImplementsLifecycle == Spec => Implements
  <1>1. Init => Lifecycle!Init
    BY InitOK
  <1>2. IInv /\ [Next]_vars => [Lifecycle!Next]_(Lifecycle!vars)
    BY StepOK DEF LifecycleStep
  <1> QED BY <1>1, <1>2, JournalInvariant, PTL DEF Spec, Implements, Lifecycle!Spec

-----------------------------------------------------------------------------
(***************************************************************************)
(* What a close of the journal leaves behind, for every set of episodes    *)
(* and callers and every bound: RegisterBreakResolved returns only after   *)
(* the episode is closed, and a soft-deleted row is a closed one.  Both    *)
(* rest on what a call has seen of its row (CallSafe), which the other     *)
(* calls cannot undo, because rows do not vanish and resolved ones stay    *)
(* resolved (RowsGrow, a consequence of the life cycle).                   *)
(***************************************************************************)

\* A close that goes on trying has seen a row; one that has come to its last
\* INSERT, to binding or to hiding has seen the episode closed.
CallSafe(w) ==
    call[w] # Idle =>
      /\ call[w].pc \in {"tryAgain", "retry", "insertLast"} => table[call[w].corr] # Absent
      /\ faults = 0 /\ call[w].pc \in {"insertLast", "bind", "hide"} =>
           table[call[w].corr].status = "resolved"

SafeInv == HiddenIsClosed /\ \A w \in Callers : CallSafe(w)

\* Rows do not vanish and resolved ones stay resolved.
RowsGrow ==
    \A c \in Corrs :
      /\ table[c] # Absent => table'[c] # Absent
      /\ table[c].status = "resolved" => table'[c].status = "resolved"

NothingHidden == \A c \in Corrs : table'[c].hidden => table[c].hidden

\* The life cycle has no step back.
LEMMA LifecycleGrows ==
  ASSUME TableOK, LifecycleStep PROVE RowsGrow
  <1> SUFFICES ASSUME NEW c \in Corrs
               PROVE  /\ table[c].status # "absent" => table'[c].status # "absent"
                      /\ table[c].status = "resolved" => table'[c].status = "resolved"
    BY DEF RowsGrow, TableOK, Absent
  <1> DEFINE old == [x \in Corrs |-> table[x].status]
             new == [x \in Corrs |-> table'[x].status]
  <1>0. old[c] = table[c].status /\ new[c] = table'[c].status
    OBVIOUS
  <1>1. CASE UNCHANGED Lifecycle!vars
    BY <1>0, <1>1 DEF Lifecycle!vars
  <1>2. ASSUME NEW d \in Corrs, Lifecycle!Appear(d)
        PROVE  /\ old[d] = "absent"
               /\ \E p \in {"active", "recovering", "resolved"} : new = [old EXCEPT ![d] = p]
    BY <1>2 DEF Lifecycle!Appear
  <1>3. ASSUME NEW d \in Corrs, Lifecycle!Work(d) \/ Lifecycle!Resolve(d)
        PROVE  /\ old[d] \in {"active", "recovering"}
               /\ \E p \in {"active", "recovering", "resolved"} : new = [old EXCEPT ![d] = p]
    BY <1>3 DEF Lifecycle!Work, Lifecycle!Resolve
  <1>4. ASSUME NEW d \in Corrs, Lifecycle!HideOrShow(d) PROVE new = old
    BY <1>4 DEF Lifecycle!HideOrShow
  <1> HIDE DEF new
  <1>5. ASSUME NEW d \in Corrs, NEW p \in {"active", "recovering", "resolved"},
               old[d] # "resolved", new = [old EXCEPT ![d] = p]
        PROVE  /\ old[c] # "absent" => new[c] # "absent"
               /\ old[c] = "resolved" => new[c] = "resolved"
    BY <1>5
  <1> HIDE DEF old
  <1> QED
    BY <1>0, <1>1, <1>2, <1>3, <1>4, <1>5 DEF LifecycleStep, Lifecycle!Next

\* Only the steps of one call matter; the others are kept by RowsGrow.
LEMMA SafeAssembled ==
  ASSUME IInv, SafeInv, RowsGrow, NothingHidden, NEW w \in Callers,
         \A x \in Callers : x # w => call'[x] = call[x],
         faults' = 0 => faults = 0, CallSafe(w)'
  PROVE  SafeInv'
  <1>1. HiddenIsClosed'
    BY DEF SafeInv, HiddenIsClosed, RowsGrow, NothingHidden
  <1>2. ASSUME NEW x \in Callers, x # w PROVE CallSafe(x)'
    <2>1. CASE call[x] = Idle
      BY <1>2, <2>1 DEF CallSafe
    <2>2. CASE call[x] # Idle
      <3>1. call[x].corr \in Corrs
        BY <2>2, JobTyped DEF IInv
      <3>2. CallSafe(x) /\ call'[x] = call[x]
        BY <1>2 DEF SafeInv
      <3> QED BY <3>1, <3>2 DEF CallSafe, RowsGrow
    <2> QED BY <2>1, <2>2
  <1> QED BY <1>1, <1>2 DEF SafeInv

\* How a call that goes on, or ends, leaves the calls.
LEMMA CallAfterGoTo ==
  ASSUME IInv, NEW w \in Callers, call[w] # Idle, NEW pc, GoTo(w, pc)
  PROVE  /\ call'[w].pc = pc /\ call'[w].corr = call[w].corr
         /\ \A x \in Callers : x # w => call'[x] = call[x]
  BY JobTyped DEF IInv, GoTo, CallsOK, CallOK, Jobs

LEMMA CallAfterReturn ==
  ASSUME IInv, NEW w \in Callers, Return(w)
  PROVE  /\ call'[w] = Idle /\ CallSafe(w)'
         /\ \A x \in Callers : x # w => call'[x] = call[x]
  BY DEF IInv, Return, CallsOK, CallOK, CallSafe

\* The registrator or the close is done: what follows relies on a closed row.
LEMMA DoneIsSafe ==
  ASSUME IInv, NEW w \in Callers, call[w] # Idle, Registered(w) \/ Closed(w),
         faults' = 0 => table'[call[w].corr].status = "resolved"
  PROVE  /\ CallSafe(w)'
         /\ \A x \in Callers : x # w => call'[x] = call[x]
  <1>1. CASE Return(w)
    BY <1>1, CallAfterReturn
  <1>2. ASSUME NEW pc \in {"bind", "hide"}, GoTo(w, pc)
        PROVE  /\ CallSafe(w)'
               /\ \A x \in Callers : x # w => call'[x] = call[x]
    <2>1. /\ call'[w].pc = pc /\ call'[w].corr = call[w].corr
          /\ \A x \in Callers : x # w => call'[x] = call[x]
      BY <1>2, CallAfterGoTo
    <2> QED BY <2>1 DEF CallSafe
  <1> QED BY <1>1, <1>2 DEF Registered, Closed

\* A statement hides nothing, except that of soft-delete.
LEMMA StatementsHideNothing ==
  ASSUME IInv, NEW c \in Corrs
  PROVE  /\ \A row \in Rows : ~row.hidden /\ table' = Inserted(c, row) => NothingHidden
         /\ \A row \in Rows : table' = Updated(c, row) => NothingHidden
         /\ \A o \in Outcomes : table' = ResolvedAs(c, o) => NothingHidden
         /\ table' = [table EXCEPT ![c].bound = TRUE] => NothingHidden
         /\ table' = table => NothingHidden
  <1>1. /\ table \in [Corrs -> Rows] /\ table[c] \in Rows
        /\ \A row \in Rows : row.hidden \in BOOLEAN
    BY DEF IInv, TableOK, Rows
  <1>2. ASSUME NEW row \in Rows, ~row.hidden, table' = Inserted(c, row) PROVE NothingHidden
    BY <1>1, <1>2 DEF Inserted, NothingHidden
  <1>3. ASSUME NEW row \in Rows, table' = Updated(c, row) PROVE NothingHidden
    <2> DEFINE new == [table[c] EXCEPT !.status = row.status, !.owner = row.owner,
                          !.escalated = row.escalated, !.bound = row.bound]
    <2>1. new.hidden = table[c].hidden
      BY <1>1 DEF Rows
    <2>2. table' = table \/ table' = [table EXCEPT ![c] = new]
      BY <1>1, <1>3 DEF Updated, Rows
    <2> HIDE DEF new
    <2> QED BY <1>1, <2>1, <2>2 DEF NothingHidden
  <1>4. ASSUME NEW o \in Outcomes, table' = ResolvedAs(c, o) PROVE NothingHidden
    <2> DEFINE new == [table[c] EXCEPT !.status = "resolved", !.outcome = o]
    <2>1. new.hidden = table[c].hidden
      BY <1>1 DEF Rows
    <2>2. table' = table \/ table' = [table EXCEPT ![c] = new]
      BY <1>1, <1>4 DEF ResolvedAs, Rows
    <2> HIDE DEF new
    <2> QED BY <1>1, <2>1, <2>2 DEF NothingHidden
  <1>5. ASSUME table' = [table EXCEPT ![c].bound = TRUE] PROVE NothingHidden
    <2> DEFINE new == [table[c] EXCEPT !.bound = TRUE]
    <2>1. new.hidden = table[c].hidden
      BY <1>1 DEF Rows
    <2>2. table' = [table EXCEPT ![c] = new]
      BY <1>1, <1>5 DEF Rows
    <2> HIDE DEF new
    <2> QED BY <1>1, <2>1, <2>2 DEF NothingHidden
  <1>6. table' = table => NothingHidden
    BY DEF NothingHidden
  <1> QED BY <1>2, <1>3, <1>4, <1>5, <1>6

\* An UPDATE that matched has closed the episode.
LEMMA MatchedIsResolved ==
  ASSUME IInv, NEW c \in Corrs, NEW o \in Outcomes, Matches(c), table' = ResolvedAs(c, o)
  PROVE  table'[c].status = "resolved"
  BY DEF IInv, TableOK, Rows, ResolvedAs

\* A visible row that does not match is closed already.
LEMMA UnmatchedIsResolved ==
  ASSUME IInv, SafeInv, NEW c \in Corrs, faults = 0, table[c] # Absent, ~Matches(c)
  PROVE  table[c].status = "resolved"
  <1>1. table[c].status \in Open \cup {"absent", "resolved"} /\ table[c].status # "absent"
    BY DEF IInv, TableOK, Rows
  <1> QED BY <1>1 DEF SafeInv, HiddenIsClosed, Matches, Open

-----------------------------------------------------------------------------
\* The facts every step of a call may use.
LEMMA StepFacts ==
  ASSUME IInv, Next PROVE IInv' /\ RowsGrow
  BY StepOK, LifecycleGrows DEF IInv

\* Leaving the registrator without a failing store, the episode is closed.
LEMMA TryResolveCloses ==
  ASSUME IInv, SafeInv, NEW w \in Callers, TryResolve(w), faults = 0,
         Matches(call[w].corr) \/ ~(call'[w] # Idle /\ call'[w].pc \in Closing)
  PROVE  table'[call[w].corr].status = "resolved"
  <1>1. call[w] # Idle
    BY DEF TryResolve, Idle
  <1>2. call[w] \in Jobs /\ call[w].corr \in Corrs /\ call[w].outcome \in Outcomes
    BY <1>1, JobTyped DEF IInv
  <1>3. CASE Matches(call[w].corr)
    BY <1>2, <1>3, MatchedIsResolved DEF TryResolve
  <1>4. CASE ~Matches(call[w].corr)
    <2>1. call'[w].pc \in Closing
      <3>1. CASE GoTo(w, "readClosing") \/ GoTo(w, "retry")
        BY <1>1, <3>1, CallAfterGoTo DEF Closing
      <3>2. CASE call' = [call EXCEPT ![w].tries = @ + 1,
                            ![w].pc = IF call[w].tries + 1 = Retries THEN "insertLast" ELSE "retry"]
        BY <1>2, <3>2 DEF IInv, CallsOK, CallOK, Jobs, Closing
      <3> QED BY <1>4, <3>1, <3>2 DEF TryResolve
    <2>2. call'[w] # Idle
      BY <2>1 DEF Idle, Closing
    <2> QED BY <1>4, <2>1, <2>2
  <1> QED BY <1>3, <1>4

LEMMA TryResolveSafe ==
  ASSUME IInv, SafeInv, RowsGrow, NEW w \in Callers, TryResolve(w) PROVE SafeInv'
  <1> DEFINE c == call[w].corr
             next == IF call[w].tries + 1 = Retries THEN "insertLast" ELSE "retry"
  <1>1. call[w] # Idle
    BY DEF TryResolve, Idle
  <1>2. call[w] \in Jobs /\ c \in Corrs /\ call[w].outcome \in Outcomes
    BY <1>1, JobTyped DEF IInv
  <1>3. NothingHidden
    BY <1>2, StatementsHideNothing DEF TryResolve
  <1>4. faults' = faults
    BY DEF TryResolve
  <1>5. /\ CallSafe(w)'
        /\ \A x \in Callers : x # w => call'[x] = call[x]
    <2>1. CASE Matches(c)
      BY <1>1, <1>4, <2>1, TryResolveCloses, DoneIsSafe DEF TryResolve
    <2>2. CASE ~Matches(c) /\ call[w].pc = "try"
      BY <1>1, <2>2, CallAfterGoTo DEF TryResolve, CallSafe
    <2>3. CASE ~Matches(c) /\ call[w].pc = "tryAgain"
      <3>1. table'[c] # Absent
        BY <1>1, <1>2, <2>3 DEF SafeInv, CallSafe, RowsGrow
      <3> QED BY <1>1, <2>3, <3>1, CallAfterGoTo DEF TryResolve, CallSafe
    <2>4. CASE ~Matches(c) /\ call[w].pc = "retry"
      <3>1. table[c] # Absent /\ table'[c] # Absent
        BY <1>1, <1>2, <2>4 DEF SafeInv, CallSafe, RowsGrow
      <3>2. faults = 0 => table'[c].status = "resolved"
        BY <1>2, <2>4, <3>1, UnmatchedIsResolved DEF RowsGrow
      <3>3. call' = [call EXCEPT ![w].tries = @ + 1, ![w].pc = next]
        BY <2>4 DEF TryResolve
      <3>4. /\ call'[w].corr = c /\ call'[w].pc = next
            /\ \A x \in Callers : x # w => call'[x] = call[x]
        BY <1>2, <3>3 DEF IInv, CallsOK, CallOK, Jobs
      <3> QED BY <1>4, <3>1, <3>2, <3>4 DEF CallSafe
    <2> QED BY <2>1, <2>2, <2>3, <2>4 DEF TryResolve
  <1> QED BY <1>3, <1>4, <1>5, SafeAssembled

LEMMA ReadClosingSafe ==
  ASSUME IInv, SafeInv, RowsGrow, NEW w \in Callers, ReadClosing(w) PROVE SafeInv'
  <1>1. call[w] # Idle
    BY DEF ReadClosing, Idle
  <1>2. NothingHidden /\ faults' = faults
    BY DEF ReadClosing, NothingHidden
  <1>3. /\ CallSafe(w)'
        /\ \A x \in Callers : x # w => call'[x] = call[x]
    <2>1. CASE table[call[w].corr] = Absent
      BY <1>1, <2>1, CallAfterGoTo DEF ReadClosing, CallSafe
    <2>2. CASE table[call[w].corr] # Absent
      BY <1>1, <2>2, CallAfterGoTo DEF ReadClosing, CallSafe
    <2> QED BY <2>1, <2>2
  <1> QED BY <1>2, <1>3, SafeAssembled

LEMMA ClosedRowTyped ==
  ASSUME IInv, NEW w \in Callers, call[w] # Idle
  PROVE  ClosedRow(w) \in Rows /\ ~ClosedRow(w).hidden /\ ClosedRow(w).status = "resolved"
  <1>1. call[w].outcome \in Outcomes
    BY JobTyped DEF IInv
  <1> QED BY <1>1, JournalAssumption DEF ClosedRow, Rows

LEMMA InsertClosedCloses ==
  ASSUME IInv, SafeInv, RowsGrow, NEW w \in Callers, InsertClosed(w), faults = 0,
         ~(table[call[w].corr] # Absent /\ call[w].pc = "insertClosed")
  PROVE  table'[call[w].corr].status = "resolved"
  <1>1. call[w] # Idle
    BY DEF InsertClosed, Idle
  <1>2. call[w].corr \in Corrs /\ table \in [Corrs -> Rows]
    BY <1>1, JobTyped DEF IInv, TableOK
  <1>3. CASE table[call[w].corr] = Absent
    BY <1>1, <1>2, <1>3, ClosedRowTyped DEF InsertClosed, Inserted
  <1>4. CASE table[call[w].corr] # Absent
    <2>1. table[call[w].corr].status = "resolved"
      BY <1>1, <1>4 DEF InsertClosed, SafeInv, CallSafe
    <2> QED BY <1>2, <2>1 DEF RowsGrow
  <1> QED BY <1>3, <1>4

LEMMA InsertClosedSafe ==
  ASSUME IInv, SafeInv, RowsGrow, NEW w \in Callers, InsertClosed(w) PROVE SafeInv'
  <1> DEFINE c == call[w].corr
  <1>1. call[w] # Idle
    BY DEF InsertClosed, Idle
  <1>2. c \in Corrs
    BY <1>1, JobTyped DEF IInv
  <1>3. NothingHidden
    BY <1>1, <1>2, ClosedRowTyped, StatementsHideNothing DEF InsertClosed
  <1>4. faults' = faults
    BY DEF InsertClosed
  <1>5. /\ CallSafe(w)'
        /\ \A x \in Callers : x # w => call'[x] = call[x]
    <2>1. CASE table[c] # Absent /\ call[w].pc = "insertClosed"
      <3>1. table'[c] # Absent
        BY <1>2, <2>1 DEF RowsGrow
      <3> QED BY <1>1, <2>1, <3>1, CallAfterGoTo DEF InsertClosed, CallSafe
    <2>2. CASE ~(table[c] # Absent /\ call[w].pc = "insertClosed")
      BY <1>1, <1>4, <2>2, InsertClosedCloses, DoneIsSafe DEF InsertClosed
    <2> QED BY <2>1, <2>2
  <1> QED BY <1>3, <1>4, <1>5, SafeAssembled

LEMMA BindSafe ==
  ASSUME IInv, SafeInv, RowsGrow, NEW w \in Callers, Bind(w) PROVE SafeInv'
  <1>1. call[w] # Idle
    BY DEF Bind, Idle
  <1>2. call[w].corr \in Corrs
    BY <1>1, JobTyped DEF IInv
  <1>3. NothingHidden
    BY <1>2, StatementsHideNothing DEF Bind
  <1>4. faults = 0 => table'[call[w].corr].status = "resolved"
    BY <1>1, <1>2 DEF Bind, SafeInv, CallSafe, RowsGrow
  <1>5. /\ CallSafe(w)'
        /\ \A x \in Callers : x # w => call'[x] = call[x]
    BY <1>1, <1>4, DoneIsSafe DEF Bind
  <1> QED BY <1>3, <1>5, SafeAssembled DEF Bind

LEMMA LookSafe ==
  ASSUME IInv, SafeInv, RowsGrow, NEW w \in Callers, Look(w) PROVE SafeInv'
  <1>1. call[w] # Idle
    BY DEF Look, Idle
  <1>2. NothingHidden /\ faults' = faults /\ table' = table
    BY DEF Look, NothingHidden
  <1>3. /\ CallSafe(w)'
        /\ \A x \in Callers : x # w => call'[x] = call[x]
    <2>1. CASE Return(w)
      BY <2>1, CallAfterReturn
    <2>2. CASE \E pc \in {"show", "try", "direct"} : GoTo(w, pc)
      BY <1>1, <2>2, CallAfterGoTo DEF CallSafe
    <2>3. CASE GoTo(w, "hide") /\ table[call[w].corr].status = "resolved"
      BY <1>1, <1>2, <2>3, CallAfterGoTo DEF CallSafe
    <2> QED BY <2>1, <2>2, <2>3 DEF Look
  <1> QED BY <1>2, <1>3, SafeAssembled

LEMMA DirectSafe ==
  ASSUME IInv, SafeInv, RowsGrow, NEW w \in Callers, Direct(w) PROVE SafeInv'
  <1>1. call[w] # Idle
    BY DEF Direct, Idle
  <1>2. call[w].corr \in Corrs /\ call[w].outcome \in Outcomes
    BY <1>1, JobTyped DEF IInv
  <1>3. NothingHidden
    BY <1>2, StatementsHideNothing DEF Direct
  <1>4. /\ CallSafe(w)'
        /\ \A x \in Callers : x # w => call'[x] = call[x]
    <2>1. CASE Matches(call[w].corr)
      <3>1. table'[call[w].corr].status = "resolved"
        BY <1>2, <2>1, MatchedIsResolved DEF Direct
      <3> QED BY <1>1, <2>1, <3>1, DoneIsSafe DEF Direct
    <2>2. CASE ~Matches(call[w].corr)
      BY <2>2, CallAfterReturn DEF Direct
    <2> QED BY <2>1, <2>2
  <1> QED BY <1>3, <1>4, SafeAssembled DEF Direct

\* The only statement that hides a row: its episode is closed by then.
LEMMA HideOrShowSafe ==
  ASSUME IInv, SafeInv, RowsGrow, NEW w \in Callers, HideOrShow(w) PROVE SafeInv'
  <1> DEFINE c == call[w].corr
  <1>1. call[w] # Idle
    BY DEF HideOrShow, Idle
  <1>2. c \in Corrs /\ table \in [Corrs -> Rows]
    BY <1>1, JobTyped DEF IInv, TableOK
  <1>3. faults' = faults /\ Return(w)
    BY DEF HideOrShow
  <1>4. HiddenIsClosed'
    <2> SUFFICES ASSUME faults = 0, NEW d \in Corrs, table'[d].hidden
                 PROVE  table'[d].status = "resolved"
      BY <1>3 DEF HiddenIsClosed
    <2>1. CASE d = c /\ call[w].pc = "hide"
      BY <1>1, <2>1 DEF SafeInv, CallSafe, RowsGrow
    <2>2. CASE d # c \/ call[w].pc # "hide"
      <3>1. table[d].hidden
        <4> DEFINE row == [table[c] EXCEPT !.hidden = call[w].pc = "hide"]
        <4>1. row.hidden = (call[w].pc = "hide")
          BY <1>2 DEF Rows
        <4>2. table' = table \/ table' = [table EXCEPT ![c] = row]
          BY <1>2 DEF HideOrShow, Rows
        <4> HIDE DEF row
        <4> QED BY <1>2, <2>2, <4>1, <4>2
      <3> QED BY <3>1 DEF SafeInv, HiddenIsClosed, RowsGrow
    <2> QED BY <2>1, <2>2
  <1>5. CallSafe(w)' /\ \A x \in Callers : x # w => call'[x] = call[x]
    BY <1>3, CallAfterReturn
  <1>6. ASSUME NEW x \in Callers, x # w, call[x] # Idle PROVE CallSafe(x)'
    <2>1. call[x].corr \in Corrs /\ call'[x] = call[x] /\ CallSafe(x)
      BY <1>5, <1>6, JobTyped DEF IInv, SafeInv
    <2> QED BY <1>3, <2>1 DEF CallSafe, RowsGrow
  <1>7. ASSUME NEW x \in Callers, x # w, call[x] = Idle PROVE CallSafe(x)'
    BY <1>5, <1>7 DEF CallSafe
  <1> QED BY <1>4, <1>5, <1>6, <1>7 DEF SafeInv

\* The steps that neither close nor hide: they begin a call, or read, insert
\* or write back an open row.
LEMMA OpenRowVisible ==
  ASSUME IInv, NEW w \in Callers, call[w] # Idle,
         NEW owner \in {"transaq", "supervisor", "admin"}, NEW status \in Open
  PROVE  OpenRow(w, owner, status) \in Rows /\ ~OpenRow(w, owner, status).hidden
  BY JournalAssumption DEF OpenRow, Rows, Open

LEMMA OpeningSafe ==
  ASSUME IInv, SafeInv, RowsGrow, NEW w \in Callers, Insert(w) \/ Read(w) \/ Update(w)
  PROVE  SafeInv'
  <1>1. call[w] # Idle
    BY DEF Insert, Read, Update, Idle
  <1>2. call[w].corr \in Corrs /\ call[w] \in Jobs
    BY <1>1, JobTyped DEF IInv
  <1>3. CASE Insert(w)
    <2>1. PICK owner \in {"transaq", "supervisor", "admin"}, status \in Open :
             table' = Inserted(call[w].corr, OpenRow(w, owner, status))
      BY <1>3, Zenon DEF Insert, Open
    <2>2. NothingHidden
      BY <1>1, <1>2, <2>1, OpenRowVisible, StatementsHideNothing
    <2> QED BY <1>3, <2>2, CallAfterReturn, SafeAssembled DEF Insert
  <1>4. CASE Read(w)
    <2>1. NothingHidden
      BY <1>4 DEF Read, NothingHidden
    <2>2. /\ CallSafe(w)'
          /\ \A x \in Callers : x # w => call'[x] = call[x]
      <3>1. CASE Return(w)
        BY <3>1, CallAfterReturn
      <3>2. CASE ~Return(w)
        <4>1. /\ call'[w].pc \in {"insert", "update"}
              /\ \A x \in Callers : x # w => call'[x] = call[x]
          BY <1>2, <1>4, <3>2 DEF Read, IInv, CallsOK, CallOK, Jobs
        <4> QED BY <4>1 DEF CallSafe
      <3> QED BY <3>1, <3>2
    <2> QED BY <1>4, <2>1, <2>2, SafeAssembled DEF Read
  <1>5. CASE Update(w)
    <2>1. RowAfter(call[w]) \in Rows
      BY <1>1, <1>2, <1>5, RowAfterOpen, JobTyped DEF Update, IInv, CallsOK, SnapshotsOpen
    <2>2. NothingHidden
      BY <1>2, <1>5, <2>1, StatementsHideNothing DEF Update
    <2> QED BY <1>5, <2>2, CallAfterReturn, SafeAssembled DEF Update
  <1> QED BY <1>3, <1>4, <1>5

LEMMA BeginSafe ==
  ASSUME IInv, SafeInv, RowsGrow, NEW w \in Callers,
         BeginOpen(w) \/ BeginEvent(w) \/ BeginRequest(w)
  PROVE  SafeInv'
  <1>1. ASSUME NEW op, NEW pc \in {"insert", "read", "try", "look"}, NEW c, NEW o,
               Begin(w, op, pc, c, o)
        PROVE  SafeInv'
    <2>1. NothingHidden /\ faults' = faults
      BY <1>1 DEF Begin, NothingHidden
    <2>2. /\ CallSafe(w)'
          /\ \A x \in Callers : x # w => call'[x] = call[x]
      BY <1>1 DEF Begin, CallSafe, IInv, CallsOK, CallOK
    <2> QED BY <2>1, <2>2, SafeAssembled
  <1>2. CASE BeginOpen(w)
    BY <1>1, <1>2 DEF BeginOpen
  <1>3. CASE BeginEvent(w)
    BY <1>1, <1>3 DEF BeginEvent
  <1>4. CASE BeginRequest(w)
    BY <1>1, <1>4 DEF BeginRequest
  <1> QED BY <1>2, <1>3, <1>4

LEMMA StopSafe ==
  ASSUME IInv, SafeInv, RowsGrow, Restart \/ \E w \in Callers : Throw(w)
  PROVE  SafeInv'
  <1>1. CASE Restart
    <2>1. HiddenIsClosed'
      BY <1>1 DEF Restart, SafeInv, HiddenIsClosed
    <2>2. \A x \in Callers : CallSafe(x)'
      BY <1>1 DEF Restart, CallSafe
    <2> QED BY <2>1, <2>2 DEF SafeInv
  <1>2. ASSUME NEW w \in Callers, Throw(w) PROVE SafeInv'
    <2>1. faults' # 0 /\ call[w] # Idle /\ NothingHidden
      BY <1>2 DEF Throw, IInv, TypeOK, NothingHidden
    <2>2. /\ CallSafe(w)'
          /\ \A x \in Callers : x # w => call'[x] = call[x]
      BY <1>2, <2>1, DoneIsSafe, CallAfterReturn DEF Throw
    <2> QED BY <2>1, <2>2, SafeAssembled
  <1> QED BY <1>1, <1>2

LEMMA StepSafe == IInv /\ SafeInv /\ [Next]_vars => SafeInv'
  <1> SUFFICES ASSUME IInv, SafeInv, [Next]_vars PROVE SafeInv'
    OBVIOUS
  <1>1. CASE UNCHANGED vars
    BY <1>1 DEF vars, SafeInv, HiddenIsClosed, CallSafe
  <1>2. ASSUME Next PROVE SafeInv'
    <2>1. RowsGrow
      BY <1>2, StepFacts
    <2>2. ASSUME NEW w \in Callers, Step(w) PROVE SafeInv'
      BY <2>1, <2>2, BeginSafe, OpeningSafe, TryResolveSafe, ReadClosingSafe,
         InsertClosedSafe, BindSafe, LookSafe, DirectSafe, HideOrShowSafe, StopSafe DEF Step
    <2> QED BY <1>2, <2>1, <2>2, StopSafe DEF Next
  <1> QED BY <1>1, <1>2

LEMMA SafeInvHolds == Spec => []SafeInv
  <1>1. Init => SafeInv
    BY DEF Init, SafeInv, HiddenIsClosed, CallSafe, Absent
  <1> QED BY <1>1, StepSafe, JournalInvariant, PTL DEF Spec

\* A row the operator has soft-deleted is a closed one, however the delete
\* races the registrator's events, as long as no store call has failed.
THEOREM HiddenRowsAreClosed == Spec => []HiddenIsClosed
  BY SafeInvHolds, PTL DEF SafeInv

\* One step of ResolveReturnsClosed.
ClosedWhenDone ==
    \A w \in Callers :
      /\ call[w] # Idle /\ call[w].pc \in Closing
      /\ call'[w] = Idle \/ call'[w].pc \notin Closing
      /\ faults' = 0 /\ crashes' = crashes
      => table'[call[w].corr].status = "resolved"

\* A call inside the registrator moves on by a step of its own.
LEMMA OthersWait ==
  ASSUME IInv, NEW x \in Callers, Step(x)
  PROVE  \A w \in Callers : w # x => call'[w] = call[w]
  BY CallAfterReturn DEF IInv, CallsOK, CallOK, Step, BeginOpen, BeginEvent, BeginRequest,
     Begin, Insert, Read, Update, TryResolve, ReadClosing, InsertClosed, Bind, Look, Direct,
     HideOrShow, Throw, Registered, Closed, GoTo, Return

LEMMA StepClosesWhenDone ==
  ASSUME IInv, SafeInv, Next PROVE ClosedWhenDone
  <1> SUFFICES ASSUME NEW w \in Callers,
                      call[w] # Idle, call[w].pc \in Closing,
                      call'[w] = Idle \/ call'[w].pc \notin Closing,
                      faults' = 0, crashes' = crashes
               PROVE  table'[call[w].corr].status = "resolved"
    BY DEF ClosedWhenDone
  <1>1. RowsGrow
    BY StepFacts
  <1>2. ~Restart
    BY DEF Restart, IInv, TypeOK
  <1>3. PICK x \in Callers : Step(x)
    BY <1>2 DEF Next
  <1>4. call'[w] # call[w]
    OBVIOUS
  <1>5. x = w
    BY <1>3, <1>4, OthersWait
  <1>6. ~Throw(w)
    BY DEF Throw, IInv, TypeOK
  <1>7. TryResolve(w) \/ ReadClosing(w) \/ InsertClosed(w)
    BY <1>3, <1>5, <1>6 DEF Step, BeginOpen, BeginEvent, BeginRequest, Begin, Insert, Read,
       Update, Bind, Look, Direct, HideOrShow, Closing
  <1>8. faults = 0
    BY <1>7 DEF TryResolve, ReadClosing, InsertClosed
  <1>9. CASE TryResolve(w)
    BY <1>8, <1>9, TryResolveCloses
  <1>10. CASE ReadClosing(w)
    <2>1. call'[w].pc \in Closing
      BY <1>10, CallAfterGoTo DEF ReadClosing, Closing
    <2>2. call'[w] # Idle
      BY <2>1 DEF Idle, Closing
    <2> QED BY <2>1, <2>2
  <1>11. CASE InsertClosed(w)
    <2>1. ~(table[call[w].corr] # Absent /\ call[w].pc = "insertClosed")
      <3> SUFFICES ASSUME table[call[w].corr] # Absent, call[w].pc = "insertClosed" PROVE FALSE
        OBVIOUS
      <3>1. GoTo(w, "tryAgain")
        BY <1>11 DEF InsertClosed
      <3>2. call'[w].pc = "tryAgain"
        BY <3>1, CallAfterGoTo
      <3> QED BY <3>2 DEF Closing, Idle
    <2> QED BY <1>1, <1>8, <1>11, <2>1, InsertClosedCloses
  <1> QED BY <1>7, <1>9, <1>10, <1>11

\* RegisterBreakResolved keeps its word for any number of racing calls: when
\* the store has not failed, it returns only after the episode is closed, even
\* if the fire-and-forget open has not reached the table yet.
THEOREM ClosesBeforeReturning == Spec => ResolveReturnsClosed
  <1>1. IInv /\ SafeInv /\ [Next]_vars => [ClosedWhenDone]_vars
    BY StepClosesWhenDone
  <1>2. ResolveReturnsClosed <=> [][ClosedWhenDone]_vars
    BY PTL DEF ResolveReturnsClosed, ClosedWhenDone
  <1> QED BY <1>1, <1>2, JournalInvariant, SafeInvHolds, PTL DEF Spec
=============================================================================
