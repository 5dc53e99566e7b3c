------------------------- MODULE Connections_proofs -------------------------
(***************************************************************************)
(* What holds of the rows of the connections for every set of connections  *)
(* and every budget: no row stays busy or red for good.  The invariant     *)
(* says why: only a click makes a row busy, and the request it sends leads *)
(* to an answer, a list or a list that failed; whatever comes from the     *)
(* server is a settled status.                                             *)
(***************************************************************************)
EXTENDS Connections, TLAPS

Settled == {Absent, "disconnected", "waiting", "error"}

Events == [id : Ids, status : Settled]
ListCalls == [kind : {"list"}, seen : [Ids -> Settled]]
SaveCalls == [kind : {"save"}, id : Ids, edits : BOOLEAN, creds : BOOLEAN, mine : BOOLEAN,
              stage : {"check", "write", "creds", "done"}, status : Settled]
CallOK(r) ==
  \/ r \in ListCalls
  \/ r \in SaveCalls
  \/ r.kind \in {"connect", "disconnect", "delete"} /\ r.id \in Ids

ServerOK == /\ server \in [Ids -> Settled]
            /\ wire \in Seq(Events)
CallsOK == \A r \in requests : CallOK(r)
RowsOK == rows \in [Ids -> Settled \cup Busy] /\ flash \subseteq Ids
FormOK == form \in Ids \cup {NoForm, New}

\* The two halves of NothingHangs, of one connection.
FlashRuns(c) == rows[c] = "error" => c \in flash
Awaits(c) == \/ \E r \in requests : r.kind \in {"connect", "disconnect"} /\ r.id = c
             \/ \E r \in requests : r.kind = "list"
             \/ unlisted
AnswerComes(c) == rows[c] \in Busy => Awaits(c)
IInv == ServerOK /\ CallsOK /\ RowsOK /\ \A c \in Ids : FlashRuns(c) /\ AnswerComes(c)

-----------------------------------------------------------------------------
LEMMA InvSuffices == IInv => NothingHangs
  <1> SUFFICES ASSUME IInv, NEW c \in Ids
               PROVE  /\ rows[c] = "error" => c \in flash
                      /\ rows[c] \in Busy =>
                            \/ \E r \in InFlight("connect") \cup InFlight("disconnect") : r.id = c
                            \/ InFlight("list") # {}
                            \/ unlisted
    BY DEF NothingHangs
  <1> QED
    BY DEF IInv, FlashRuns, AnswerComes, Awaits, InFlight

LEMMA Applied ==
  ASSUME RowsOK, NEW c \in Ids, NEW status \in Settled \cup Busy,
         \A d \in Ids : FlashRuns(d), Becomes(ApplyConnectionStatus(c, status))
  PROVE  /\ RowsOK' /\ \A d \in Ids : FlashRuns(d)'
         /\ \A d \in Ids \ {c} : rows'[d] = rows[d]
         /\ rows'[c] \in {Absent, status}
  BY DEF RowsOK, FlashRuns, Becomes, ApplyConnectionStatus, Settled, Absent, Busy

LEMMA Upserted ==
  ASSUME RowsOK, NEW c \in Ids, NEW status \in Settled,
         \A d \in Ids : FlashRuns(d), Becomes(UpsertConnection(c, status))
  PROVE  /\ RowsOK' /\ \A d \in Ids : FlashRuns(d)'
         /\ \A d \in Ids \ {c} : rows'[d] = rows[d]
         /\ rows'[c] \in Settled
  <1>1. CASE status = "error"
    BY <1>1, Applied DEF UpsertConnection, Settled
  <1>2. CASE status # "error"
    BY <1>2 DEF RowsOK, FlashRuns, Becomes, UpsertConnection, Settled, Busy
  <1> QED
    BY <1>1, <1>2

LEMMA Listed ==
  ASSUME NEW seen \in [Ids -> Settled], RowsOK, Becomes(RefreshConnections(seen))
  PROVE  RowsOK' /\ \A d \in Ids : FlashRuns(d)' /\ rows'[d] \in Settled
  BY DEF RowsOK, FlashRuns, Becomes, RefreshConnections, Settled, Busy

\* The rows stand, nothing awaited is taken away.
LEMMA RowsStand ==
  ASSUME IInv, UNCHANGED <<rows, flash>>, ServerOK', CallsOK', unlisted => unlisted',
         \A r \in requests : r.kind \in {"connect", "disconnect", "list"} =>
           \/ r \in requests'
           \/ unlisted' \/ \E q \in requests' : q.kind = "list"
  PROVE  IInv'
  <1>1. RowsOK' /\ \A c \in Ids : FlashRuns(c)'
    BY DEF IInv, RowsOK, FlashRuns
  <1>2. ASSUME NEW c \in Ids, (rows[c] \in Busy)' PROVE Awaits(c)'
    <2>1. Awaits(c)
      BY <1>2 DEF IInv, AnswerComes
    <2> QED
      BY <2>1 DEF Awaits
  <1> QED
    BY <1>1, <1>2 DEF IInv, AnswerComes

\* One row is settled, its request answered: no other row loses what it awaits.
LEMMA RowSettled ==
  ASSUME IInv, NEW c \in Ids, RowsOK', \A d \in Ids : FlashRuns(d)',
         \A d \in Ids \ {c} : rows'[d] = rows[d], rows'[c] \notin Busy, ServerOK', CallsOK',
         unlisted' = unlisted,
         \A r \in requests \ requests' : r.kind \notin {"connect", "disconnect", "list"} \/ (r.kind # "list" /\ r.id = c)
  PROVE  IInv'
  <1>1. ASSUME NEW d \in Ids, (rows[d] \in Busy)' PROVE Awaits(d)'
    <2>1. d # c /\ Awaits(d)
      BY <1>1 DEF IInv, AnswerComes
    <2> QED
      BY <2>1 DEF Awaits
  <1> QED
    BY <1>1 DEF IInv, AnswerComes

-----------------------------------------------------------------------------
(***************************************************************************)
(* The server, the socket and the toggle.                                  *)
(***************************************************************************)
LEMMA Queued ==
  ASSUME NEW S, NEW q \in Seq(S)
  PROVE  /\ \A e \in S : Append(q, e) \in Seq(S)
         /\ q # <<>> => Head(q) \in S /\ Tail(q) \in Seq(S)
  OBVIOUS

LEMMA ListIsCall == ASSUME ServerOK PROVE CallOK(List) /\ List.kind = "list"
  BY DEF ServerOK, CallOK, List, ListCalls

LEMMA ServerKeeps ==
  ASSUME IInv, (\E c \in Ids : ServerMoves(c)) \/ Drop \/ Reconnect
  PROVE  IInv'
  <1>1. CASE \E c \in Ids : ServerMoves(c)
    <2>1. PICK c \in Ids : ServerMoves(c)
      BY <1>1
    <2>2. PICK status \in {"disconnected", "waiting", "error"} :
            /\ server' = [server EXCEPT ![c] = status]
            /\ wire' = IF online THEN Append(wire, [id |-> c, status |-> status]) ELSE wire
      BY <2>1 DEF ServerMoves
    <2>3. server' \in [Ids -> Settled] /\ status \in Settled
      BY <2>2 DEF IInv, ServerOK, Settled
    <2>4. [id |-> c, status |-> status] \in Events
      BY <2>3 DEF Events
    <2>5. ServerOK'
      BY <2>2, <2>3, <2>4, Queued DEF IInv, ServerOK
    <2>6. UNCHANGED <<rows, flash, requests, unlisted>>
      BY <2>1 DEF ServerMoves
    <2> QED
      BY <2>5, <2>6, RowsStand DEF IInv, CallsOK
  <1>2. CASE Drop
    <2>1. ServerOK' /\ UNCHANGED <<rows, flash, requests, unlisted>>
      BY <1>2 DEF Drop, IInv, ServerOK
    <2> QED
      BY <2>1, RowsStand DEF IInv, CallsOK
  <1>3. CASE Reconnect
    <2>1. ServerOK' /\ UNCHANGED <<rows, flash, unlisted>> /\ requests' = requests \cup {List}
      BY <1>3 DEF Reconnect, IInv, ServerOK
    <2>2. CallsOK'
      BY <2>1, ListIsCall DEF IInv, CallsOK
    <2> QED
      BY <2>1, <2>2, RowsStand
  <1> QED
    BY <1>1, <1>2, <1>3

LEMMA LiveKeeps == ASSUME IInv, OnLive PROVE IInv'
  <1> DEFINE e == Head(wire)
  <1>1. e \in Events /\ wire' \in Seq(Events)
    BY Queued DEF OnLive, IInv, ServerOK
  <1>2. Becomes(ApplyConnectionStatus(e.id, e.status)) /\ UNCHANGED <<server, requests, unlisted>>
    BY DEF OnLive
  <1> HIDE DEF e
  <1>3. e.id \in Ids /\ e.status \in Settled
    BY <1>1 DEF Events
  <1>4. /\ RowsOK' /\ \A d \in Ids : FlashRuns(d)'
        /\ \A d \in Ids \ {e.id} : rows'[d] = rows[d]
        /\ rows'[e.id] \in {Absent, e.status}
    BY <1>2, <1>3, Applied DEF IInv
  <1>5. rows'[e.id] \notin Busy
    BY <1>3, <1>4 DEF Settled, Absent, Busy
  <1>6. ServerOK' /\ CallsOK'
    BY <1>1, <1>2 DEF IInv, ServerOK, CallsOK
  <1> QED
    BY <1>2, <1>3, <1>4, <1>5, <1>6, RowSettled

LEMMA ToggleKeeps == ASSUME IInv, NEW c \in Ids, Toggle(c) PROVE IInv'
  <1>1. UNCHANGED <<server, wire, unlisted>> /\ ServerOK'
    BY DEF Toggle, IInv, ServerOK
  <1>2. CASE requests' = requests \cup {List} /\ UNCHANGED <<rows, flash>>
    <2>1. CallsOK'
      BY <1>2, ListIsCall DEF IInv, CallsOK
    <2> QED
      BY <1>1, <1>2, <2>1, RowsStand
  <1>3. ASSUME NEW status \in Busy, NEW kind \in {"connect", "disconnect"},
               Becomes(ApplyConnectionStatus(c, status)),
               requests' = requests \cup {Request(kind, c)}
        PROVE  IInv'
    <2>1. /\ RowsOK' /\ \A d \in Ids : FlashRuns(d)'
          /\ \A d \in Ids \ {c} : rows'[d] = rows[d]
      BY <1>3, Applied DEF IInv
    <2>2. Request(kind, c).kind = kind /\ Request(kind, c).id = c
      BY DEF Request
    <2>3. CallsOK'
      BY <1>3, <2>2 DEF IInv, CallsOK, CallOK
    <2>4. ASSUME NEW d \in Ids, (rows[d] \in Busy)' PROVE Awaits(d)'
      <3>1. CASE d = c
        BY <1>3, <2>2, <3>1 DEF Awaits
      <3>2. CASE d # c
        BY <1>1, <1>3, <2>1, <2>4, <3>2 DEF IInv, AnswerComes, Awaits
      <3> QED
        BY <3>1, <3>2
    <2> QED
      BY <1>1, <2>1, <2>3, <2>4 DEF IInv, AnswerComes
  <1>4. \/ requests' = requests \cup {List} /\ UNCHANGED <<rows, flash>>
        \/ /\ Becomes(ApplyConnectionStatus(c, "disconnecting"))
           /\ requests' = requests \cup {Request("disconnect", c)}
        \/ /\ Becomes(ApplyConnectionStatus(c, "connecting"))
           /\ requests' = requests \cup {Request("connect", c)}
    BY DEF Toggle
  <1> QED
    BY <1>2, <1>3, <1>4 DEF Busy

\* However a connect ends, its row is no longer busy.
LEMMA ConnectKeeps ==
  ASSUME IInv, NEW r \in InFlight("connect"), NEW answer \in {"waiting", "disconnected", "failure"},
         ConnectSettled(r, answer)
  PROVE  IInv'
  <1> DEFINE shown == IF answer \in {"failure", "disconnected"} THEN ApplyConnectionStatus(r.id, "error")
                      ELSE [UpsertConnection(r.id, answer) EXCEPT !.flash = @ \ {r.id}]
             more == IF shown.rows[r.id] = "connecting" THEN {List} ELSE {}
  <1>1. r \in requests /\ r.kind = "connect" /\ r.id \in Ids
    BY DEF InFlight, IInv, CallsOK, CallOK, ListCalls, SaveCalls
  <1>2. /\ Becomes(shown) /\ requests' = (requests \ {r}) \cup more
        /\ UNCHANGED <<server, wire, unlisted>>
    BY DEF ConnectSettled, Answered
  <1>3. more \subseteq {List}
    OBVIOUS
  <1> HIDE DEF more
  <1>4. /\ RowsOK' /\ \A d \in Ids : FlashRuns(d)'
        /\ \A d \in Ids \ {r.id} : rows'[d] = rows[d]
        /\ rows'[r.id] \notin Busy
    <2>1. CASE answer = "waiting"
      <3>1. shown = UpsertConnection(r.id, "waiting")
        BY <2>1 DEF UpsertConnection
      <3> QED
        BY <1>1, <1>2, <3>1, Upserted DEF IInv, Settled, Busy, Absent
    <2>2. CASE answer \in {"failure", "disconnected"}
      BY <1>1, <1>2, <2>2, Applied DEF IInv, Settled, Busy, Absent
    <2> QED
      BY <2>1, <2>2
  <1>5. ServerOK' /\ CallsOK'
    BY <1>2, <1>3, ListIsCall DEF IInv, ServerOK, CallsOK
  <1> QED
    BY <1>1, <1>2, <1>4, <1>5, RowSettled

LEMMA DisconnectKeeps == ASSUME IInv, DisconnectSettled PROVE IInv'
  <1>1. PICK r \in InFlight("disconnect") :
          /\ \/ Answered(r, UpsertConnection(r.id, "disconnected"), {})
             \/ Answered(r, Shown, AskAgain)
          /\ UNCHANGED <<server, wire, unlisted>>
    BY DEF DisconnectSettled
  <1>2. r \in requests /\ r.kind = "disconnect" /\ r.id \in Ids
    BY DEF InFlight, IInv, CallsOK, CallOK, ListCalls, SaveCalls
  <1>3. ServerOK'
    BY <1>1 DEF IInv, ServerOK
  <1>4. CASE Answered(r, UpsertConnection(r.id, "disconnected"), {})
    <2>1. Becomes(UpsertConnection(r.id, "disconnected")) /\ requests' = requests \ {r}
      BY <1>4 DEF Answered
    <2>2. /\ RowsOK' /\ \A d \in Ids : FlashRuns(d)'
          /\ \A d \in Ids \ {r.id} : rows'[d] = rows[d]
          /\ rows'[r.id] \notin Busy
      BY <1>2, <2>1, Upserted DEF IInv, Settled, Busy, Absent
    <2>3. CallsOK'
      BY <2>1 DEF IInv, CallsOK
    <2> QED
      BY <1>1, <1>2, <1>3, <2>1, <2>2, <2>3, RowSettled
  <1>5. CASE Answered(r, Shown, AskAgain)
    <2>1. UNCHANGED <<rows, flash>> /\ requests' = (requests \ {r}) \cup {List}
      BY <1>5 DEF Answered, Becomes, Shown, AskAgain
    <2>2. CallsOK'
      BY <2>1, ListIsCall DEF IInv, CallsOK
    <2> QED
      BY <1>1, <1>3, <2>1, <2>2, ListIsCall, RowsStand DEF IInv
  <1> QED
    BY <1>1, <1>4, <1>5

LEMMA ListKeeps == ASSUME IInv, ListAnswered \/ ListFailed PROVE IInv'
  <1>1. PICK r \in InFlight("list") :
          /\ \/ Answered(r, RefreshConnections(r.seen), {}) /\ unlisted' = FALSE
             \/ Answered(r, Shown, {}) /\ unlisted' = TRUE
          /\ UNCHANGED <<server, wire>>
    BY DEF ListAnswered, ListFailed
  <1>2. r \in requests /\ r.kind = "list" /\ r.seen \in [Ids -> Settled]
    BY DEF InFlight, IInv, CallsOK, CallOK, ListCalls, SaveCalls
  <1>3. ServerOK' /\ CallsOK'
    BY <1>1 DEF IInv, ServerOK, CallsOK, Answered
  <1>4. CASE Answered(r, RefreshConnections(r.seen), {})
    <2>1. RowsOK' /\ \A d \in Ids : FlashRuns(d)' /\ rows'[d] \in Settled
      BY <1>2, <1>4, Listed DEF IInv, Answered
    <2> QED
      BY <1>3, <2>1 DEF IInv, AnswerComes, Settled, Absent, Busy
  <1>5. CASE Answered(r, Shown, {}) /\ unlisted' = TRUE
    BY <1>3, <1>5, RowsStand DEF Answered, Becomes, Shown
  <1> QED
    BY <1>1, <1>4, <1>5

LEMMA FlashKeeps == ASSUME IInv, NEW c \in Ids, FlashEnds(c) PROVE IInv'
  <1>1. /\ RowsOK' /\ \A d \in Ids : FlashRuns(d)'
        /\ \A d \in Ids : rows'[d] \in Busy => rows[d] \in Busy
    BY DEF FlashEnds, IInv, RowsOK, FlashRuns, Settled, Busy
  <1>2. UNCHANGED <<server, wire, requests, unlisted>>
    BY DEF FlashEnds
  <1> QED
    BY <1>1, <1>2 DEF IInv, ServerOK, CallsOK, AnswerComes, Awaits

-----------------------------------------------------------------------------
(***************************************************************************)
(* The form and the deletion.                                              *)
(***************************************************************************)
\* A form that is left keeps every request; only a save is no longer its own.
LEMMA LeftKeeps ==
  ASSUME IInv
  PROVE  /\ \A r \in Left : CallOK(r)
         /\ \A r \in requests : r.kind # "save" => r \in Left
  <1>1. ASSUME NEW r \in requests, r.kind = "save"
        PROVE  CallOK([r EXCEPT !.mine = FALSE])
    <2>1. r \in SaveCalls
      BY <1>1 DEF IInv, CallsOK, CallOK, ListCalls
    <2>2. [r EXCEPT !.mine = FALSE] \in SaveCalls
      BY <2>1 DEF SaveCalls
    <2> QED
      BY <2>2 DEF CallOK
  <1> QED
    BY <1>1 DEF Left, IInv, CallsOK

LEMMA FormKeeps == ASSUME IInv, OpenForm \/ Submit PROVE IInv'
  <1>1. CASE OpenForm
    <2>1. UNCHANGED <<server, wire, rows, flash, unlisted>> /\ requests' \in {requests, Left}
      BY <1>1 DEF OpenForm
    <2>2. ServerOK' /\ CallsOK'
      BY <2>1, LeftKeeps DEF IInv, ServerOK, CallsOK
    <2> QED
      BY <2>1, <2>2, LeftKeeps, RowsStand
  <1>2. CASE Submit
    <2>1. PICK c \in Ids, withCreds \in BOOLEAN :
            requests' = requests \cup
              {[kind |-> "save", id |-> c, edits |-> form # New, creds |-> withCreds, mine |-> TRUE,
                stage |-> IF withCreds THEN "check" ELSE "write", status |-> Absent]}
      BY <1>2 DEF Submit
    <2> DEFINE r == [kind |-> "save", id |-> c, edits |-> form # New, creds |-> withCreds, mine |-> TRUE,
                     stage |-> IF withCreds THEN "check" ELSE "write", status |-> Absent]
    <2>2. CallOK(r)
      BY DEF CallOK, SaveCalls, Settled
    <2> HIDE DEF r
    <2>3. UNCHANGED <<server, wire, rows, flash, unlisted>>
      BY <1>2 DEF Submit
    <2>4. ServerOK' /\ CallsOK'
      BY <2>1, <2>2, <2>3 DEF IInv, ServerOK, CallsOK, r
    <2> QED
      BY <2>1, <2>3, <2>4, RowsStand
  <1> QED
    BY <1>1, <1>2

LEMMA SaveKeeps == ASSUME IInv, SaveAnswered \/ SaveFailed PROVE IInv'
  <1>1. CASE SaveAnswered
    <2>1. PICK r \in InFlight("save") :
            /\ Written(r) \/ UNCHANGED server
            /\ \/ NextStage(r).stage = "done" /\ Answered(r, UpsertConnection(r.id, NextStage(r).status), {})
               \/ Answered(r, Shown, {NextStage(r)})
            /\ UNCHANGED <<wire, unlisted>>
      BY <1>1 DEF SaveAnswered
    <2>2. r \in requests /\ r.kind = "save" /\ r \in SaveCalls
      BY DEF InFlight, IInv, CallsOK, CallOK, ListCalls
    <2>3. ServerOK'
      BY <2>1, <2>2 DEF Written, IInv, ServerOK, Settled
    <2>4. NextStage(r) \in SaveCalls
      <3>1. server'[r.id] \in Settled /\ r.id \in Ids /\ r.status \in Settled /\ r.creds \in BOOLEAN
        BY <2>2, <2>3 DEF ServerOK, SaveCalls
      <3>2. CASE r.stage = "check"
        BY <2>2, <3>2 DEF NextStage, SaveCalls
      <3>3. CASE r.stage # "check"
        BY <2>2, <3>1, <3>3 DEF NextStage, SaveCalls
      <3> QED
        BY <3>2, <3>3
    <2> DEFINE next == NextStage(r)
    <2>5. CASE Answered(r, UpsertConnection(r.id, next.status), {})
      <3>1. r.id \in Ids /\ next.status \in Settled
        BY <2>2, <2>4 DEF SaveCalls
      <3>2. Becomes(UpsertConnection(r.id, next.status)) /\ requests' = requests \ {r}
        BY <2>5 DEF Answered
      <3> HIDE DEF next
      <3>3. /\ RowsOK' /\ \A d \in Ids : FlashRuns(d)'
            /\ \A d \in Ids \ {r.id} : rows'[d] = rows[d]
            /\ rows'[r.id] \notin Busy
        BY <3>1, <3>2, Upserted DEF IInv, Settled, Busy, Absent
      <3>4. CallsOK'
        BY <3>2 DEF IInv, CallsOK
      <3> QED
        BY <2>1, <2>2, <2>3, <3>1, <3>2, <3>3, <3>4, RowSettled
    <2>6. CASE Answered(r, Shown, {next})
      <3>1. UNCHANGED <<rows, flash>> /\ requests' = (requests \ {r}) \cup {next}
        BY <2>6 DEF Answered, Becomes, Shown
      <3>2. CallOK(next)
        BY <2>4 DEF CallOK
      <3> HIDE DEF next
      <3>3. CallsOK'
        BY <3>1, <3>2 DEF IInv, CallsOK
      <3> QED
        BY <2>1, <2>2, <2>3, <3>1, <3>3, RowsStand
    <2> QED
      BY <2>1, <2>5, <2>6
  <1>2. CASE SaveFailed
    <2>1. PICK r \in InFlight("save") : Answered(r, Shown, {}) /\ UNCHANGED <<server, wire, unlisted>>
      BY <1>2 DEF SaveFailed
    <2>2. r.kind = "save" /\ UNCHANGED <<rows, flash>> /\ requests' = requests \ {r}
      BY <2>1 DEF Answered, Becomes, Shown, InFlight
    <2>3. ServerOK' /\ CallsOK'
      BY <2>1, <2>2 DEF IInv, ServerOK, CallsOK
    <2> QED
      BY <2>1, <2>2, <2>3, RowsStand
  <1> QED
    BY <1>1, <1>2

LEMMA DeleteKeeps ==
  ASSUME IInv, DeleteSettled \/ \E c \in Ids : DeleteConnection(c)
  PROVE  IInv'
  <1>1. ASSUME NEW c \in Ids, DeleteConnection(c) PROVE IInv'
    <2>1. /\ UNCHANGED <<server, wire, rows, flash, unlisted>>
          /\ \/ requests' = Left \cup {Request("delete", c)}
             \/ requests' = requests \cup {Request("delete", c)}
      BY <1>1 DEF DeleteConnection
    <2>2. CallOK(Request("delete", c))
      BY DEF CallOK, Request
    <2>3. ServerOK' /\ CallsOK'
      BY <2>1, <2>2, LeftKeeps DEF IInv, ServerOK, CallsOK
    <2> QED
      BY <2>1, <2>3, LeftKeeps, RowsStand
  <1>2. CASE DeleteSettled
    <2>1. PICK r \in InFlight("delete") :
            /\ \/ /\ server' = [server EXCEPT ![r.id] = Absent]
                  /\ Answered(r, [Shown EXCEPT !.rows[r.id] = Absent], {})
               \/ UNCHANGED server /\ Answered(r, Shown, {})
            /\ UNCHANGED <<wire, unlisted>>
      BY <1>2 DEF DeleteSettled
    <2>2. r \in requests /\ r.kind = "delete" /\ r.id \in Ids
      BY DEF InFlight, IInv, CallsOK, CallOK, ListCalls, SaveCalls
    <2>3. ServerOK'
      BY <2>1, <2>2 DEF IInv, ServerOK, Settled
    <2>4. CallsOK' /\ requests' = requests \ {r}
      BY <2>1 DEF IInv, CallsOK, Answered
    <2>5. \/ rows' = [rows EXCEPT ![r.id] = Absent] /\ flash' = flash
          \/ UNCHANGED <<rows, flash>>
      BY <2>1 DEF Answered, Becomes, Shown
    <2>6. CASE rows' = [rows EXCEPT ![r.id] = Absent] /\ flash' = flash
      <3>1. /\ RowsOK' /\ \A d \in Ids : FlashRuns(d)'
            /\ \A d \in Ids \ {r.id} : rows'[d] = rows[d]
            /\ rows'[r.id] \notin Busy
        BY <2>2, <2>6 DEF IInv, RowsOK, FlashRuns, Settled, Absent, Busy
      <3> QED
        BY <2>1, <2>2, <2>3, <2>4, <3>1, RowSettled
    <2>7. CASE UNCHANGED <<rows, flash>>
      BY <2>1, <2>2, <2>3, <2>4, <2>7, RowsStand
    <2> QED
      BY <2>5, <2>6, <2>7
  <1> QED
    BY <1>1, <1>2

-----------------------------------------------------------------------------
\* For every set of connections and every budget: statuses from the server are settled,
\* and a row that is busy or red has what will change it.
THEOREM RowsInvariant == Spec => []IInv
  <1>1. Init => IInv
    <2> SUFFICES ASSUME Init PROVE IInv
      OBVIOUS
    <2>1. ServerOK
      BY DEF Init, ServerOK, Settled
    <2>2. CallsOK
      BY <2>1, ListIsCall DEF Init, CallsOK
    <2>3. RowsOK /\ \A c \in Ids : rows[c] = Absent
      BY DEF Init, RowsOK, Settled
    <2> QED
      BY <2>1, <2>2, <2>3 DEF IInv, FlashRuns, AnswerComes, Absent, Busy
  <1>2. IInv /\ [Next]_deskVars => IInv'
    <2> SUFFICES ASSUME IInv, [Next]_deskVars PROVE IInv'
      OBVIOUS
    <2>1. CASE \E c \in Ids : ServerMoves(c) \/ Toggle(c) \/ FlashEnds(c) \/ DeleteConnection(c)
      BY <2>1, ServerKeeps, ToggleKeeps, FlashKeeps, DeleteKeeps
    <2>2. CASE OnLive \/ Drop \/ Reconnect
      BY <2>2, LiveKeeps, ServerKeeps
    <2>3. CASE ConnectAnswered \/ ConnectFailed
      BY <2>3, ConnectKeeps DEF ConnectAnswered, ConnectFailed
    <2>4. CASE DisconnectSettled \/ ListAnswered \/ ListFailed
      BY <2>4, DisconnectKeeps, ListKeeps
    <2>5. CASE OpenForm \/ Submit \/ SaveAnswered \/ SaveFailed \/ DeleteSettled
      BY <2>5, FormKeeps, SaveKeeps, DeleteKeeps
    <2>6. CASE UNCHANGED deskVars
      BY <2>6, RowsStand DEF deskVars, IInv, ServerOK, CallsOK
    <2> QED
      BY <2>1, <2>2, <2>3, <2>4, <2>5, <2>6 DEF Next
  <1> QED
    BY <1>1, <1>2, PTL DEF Spec

\* No row stays busy or red for good (the toggle, the time-outs and the list read again in
\* OhsStore): a red row has its flash running, a busy one awaits an answer or a list,
\* unless the last list failed.
THEOREM RowsGoOn == Spec => []NothingHangs
  BY RowsInvariant, InvSuffices, PTL
=============================================================================
