----------------------------- MODULE Connections -----------------------------
(***************************************************************************)
(* The rows of the connections as the browser shows them: the toggle, its  *)
(* requests, the events of the socket, the list read again, the red flash  *)
(* of an error and the form that creates or edits a connection.  What the  *)
(* server does with a link is in LinkBreak; here its statuses come and go. *)
(* "active" and "degraded" are drawn and clicked like "waiting".           *)
(***************************************************************************)
EXTENDS Integers, Sequences, FiniteSets

CONSTANTS
  Ids,              \* connections that may exist
  DeskBudgets       \* bounds: clicks of the toggle, moves of the server, cuts of
                    \* the socket, uses of the form, failures

VARIABLES
  server,           \* status of each connection on the server, or Absent
  wire,             \* statuses on their way over the socket
  online,           \* the socket is up
  rows,             \* connections$: the status shown, or Absent
  flash,            \* connectionErrorTimers
  requests,         \* asked and not answered
  form,             \* the open form: NoForm, New or the connection it edits
  unlisted,         \* ghost: the last answer to a list was a failure
  spent             \* what is left of the bounds, and a number for each request

deskVars == <<server, wire, online, rows, flash, requests, form, unlisted, spent>>

Absent == "absent"
NoForm == "no form"
New == "new"
Busy == {"connecting", "disconnecting"}

Costs(k) == spent[k] > 0 /\ spent' = [spent EXCEPT ![k] = @ - 1]
Request(kind, c) == [kind |-> kind, id |-> c, no |-> spent]
List == [kind |-> "list", seen |-> server]
InFlight(kind) == {r \in requests : r.kind = kind}

(***************************************************************************)
(* One row: [rows, flash] after a status or an answer.                     *)
(***************************************************************************)
Shown == [rows |-> rows, flash |-> flash]
ApplyConnectionStatus(c, status) ==
  [rows |-> IF rows[c] = Absent THEN rows ELSE [rows EXCEPT ![c] = status],
   flash |-> IF status = "error" THEN flash \cup {c} ELSE flash \ {c}]
UpsertConnection(c, status) ==
  IF status = "error" THEN ApplyConnectionStatus(c, status)
  ELSE [rows |-> [rows EXCEPT ![c] = status], flash |-> flash \ {c}]
\* Mutant: an error in the list is painted and never fades.
ListWithoutFlash(seen) == [rows |-> seen, flash |-> flash]
RefreshConnections(seen) ==
  [rows |-> seen,
   flash |-> {c \in Ids : seen[c] = "error" \/ (seen[c] = Absent /\ c \in flash)}]

Becomes(shown) == rows' = shown.rows /\ flash' = shown.flash
Answered(r, shown, more) == Becomes(shown) /\ requests' = (requests \ {r}) \cup more

(***************************************************************************)
(* The server and the socket.                                              *)
(***************************************************************************)
ServerMoves(c) ==
  /\ server[c] # Absent
  /\ Costs("moves")
  /\ \E status \in {"disconnected", "waiting", "error"} \ {server[c]} :
       /\ server' = [server EXCEPT ![c] = status]
       /\ wire' = IF online THEN Append(wire, [id |-> c, status |-> status]) ELSE wire
  /\ UNCHANGED <<online, rows, flash, requests, form, unlisted>>

OnLive ==
  /\ wire # <<>>
  /\ Becomes(ApplyConnectionStatus(Head(wire).id, Head(wire).status))
  /\ wire' = Tail(wire)
  /\ UNCHANGED <<server, online, requests, form, unlisted, spent>>

Drop ==
  /\ online
  /\ Costs("cuts")
  /\ online' = FALSE
  /\ wire' = <<>>
  /\ UNCHANGED <<server, rows, flash, requests, form, unlisted>>
Reconnect ==
  /\ ~online
  /\ online' = TRUE
  /\ requests' = requests \cup {List}
  /\ UNCHANGED <<server, wire, rows, flash, form, unlisted, spent>>

(***************************************************************************)
(* The toggle.                                                             *)
(***************************************************************************)
\* A busy toggle only asks what is true; dead while the host is away.
Toggle(c) ==
  /\ online
  /\ rows[c] # Absent
  /\ Costs("clicks")
  /\ CASE rows[c] \in Busy -> requests' = requests \cup {List} /\ UNCHANGED <<rows, flash>>
       [] rows[c] = "waiting" ->
            /\ Becomes(ApplyConnectionStatus(c, "disconnecting"))
            /\ requests' = requests \cup {Request("disconnect", c)}
       [] OTHER ->
            /\ Becomes(ApplyConnectionStatus(c, "connecting"))
            /\ requests' = requests \cup {Request("connect", c)}
  /\ UNCHANGED <<server, wire, online, form, unlisted>>

\* A failure, the time-out of 35 s or an answer that says disconnected shows as an error; any other
\* answer is shown, without a flash.  A row still connecting after it all is read again.  This host
\* answers with "waiting" or not at all.
ConnectSettled(r, answer) ==
  LET shown == IF answer \in {"failure", "disconnected"} THEN ApplyConnectionStatus(r.id, "error")
               ELSE [UpsertConnection(r.id, answer) EXCEPT !.flash = @ \ {r.id}]
  IN  /\ Answered(r, shown, IF shown.rows[r.id] = "connecting" THEN {List} ELSE {})
      /\ UNCHANGED <<server, wire, online, form, unlisted>>
ConnectAnswered ==
  \E r \in InFlight("connect") : ConnectSettled(r, "waiting") /\ UNCHANGED spent
ConnectFailed ==
  \E r \in InFlight("connect") : ConnectSettled(r, "failure") /\ Costs("failures")

AskAgain == {List}
DisconnectSettled ==
  \E r \in InFlight("disconnect") :
     /\ \/ Answered(r, UpsertConnection(r.id, "disconnected"), {}) /\ UNCHANGED spent
        \/ Answered(r, Shown, AskAgain) /\ Costs("failures")
     /\ UNCHANGED <<server, wire, online, form, unlisted>>

ListAnswered ==
  \E r \in InFlight("list") :
     /\ Answered(r, RefreshConnections(r.seen), {})
     /\ unlisted' = FALSE
     /\ UNCHANGED <<server, wire, online, form, spent>>
ListFailed ==
  \E r \in InFlight("list") :
     /\ Costs("failures")
     /\ Answered(r, Shown, {})
     /\ unlisted' = TRUE
     /\ UNCHANGED <<server, wire, online, form>>

FlashEnds(c) ==
  /\ c \in flash
  /\ flash' = flash \ {c}
  /\ rows' = IF rows[c] = "error" THEN [rows EXCEPT ![c] = "disconnected"] ELSE rows
  /\ UNCHANGED <<server, wire, online, requests, form, unlisted, spent>>

(***************************************************************************)
(* The form and the deletion.  A save runs through its stages: the check   *)
(* of the credentials, the write, the credentials; "mine" while the form   *)
(* that began it is on the screen.                                         *)
(***************************************************************************)
Left == {IF r.kind = "save" THEN [r EXCEPT !.mine = FALSE] ELSE r : r \in requests}
FormIsBusy == \E r \in InFlight("save") : r.mine

\* The plus, the context menu and, while nothing is saved, a click outside.
OpenForm ==
  /\ Costs("forms")
  /\ \E f \in {NoForm, New} \cup {c \in Ids : rows[c] # Absent} :
       /\ f # form
       /\ f = NoForm => form = New \/ ~FormIsBusy
       /\ form' = f
       \* From one edited connection to another the form stays mounted, busy or not.
       /\ requests' = IF form \in Ids /\ f \in Ids THEN requests ELSE Left
  /\ UNCHANGED <<server, wire, online, rows, flash, unlisted>>

\* Without credentials, which only an edit allows, neither check nor third stage.
Submit ==
  /\ form # NoForm
  /\ ~FormIsBusy
  /\ \E c \in Ids, withCreds \in BOOLEAN :
       /\ IF form = New THEN server[c] = Absent /\ withCreds ELSE c = form
       /\ requests' = requests \cup
            {[kind |-> "save", id |-> c, edits |-> form # New, creds |-> withCreds, mine |-> TRUE,
              stage |-> IF withCreds THEN "check" ELSE "write", status |-> Absent]}
  /\ UNCHANGED <<server, wire, online, rows, flash, form, unlisted, spent>>

\* The write answers with the status of that moment; a deleted connection is not found.
Written(r) ==
  /\ r.stage = "write"
  /\ r.edits => server[r.id] # Absent
  /\ server' = IF server[r.id] = Absent THEN [server EXCEPT ![r.id] = "disconnected"] ELSE server
NextStage(r) ==
  IF r.stage = "check" THEN [r EXCEPT !.stage = "write"]
  ELSE [r EXCEPT !.stage = IF @ = "write" /\ r.creds THEN "creds" ELSE "done",
                 !.status = IF r.stage = "write" THEN server'[r.id] ELSE @]

\* At the end it closes the form on the screen, if that is of its sort.
SaveAnswered ==
  \E r \in InFlight("save") :
     /\ Written(r) \/ (r.stage # "write" /\ UNCHANGED server)
     /\ LET next == NextStage(r)
        IN  IF next.stage = "done"
              THEN /\ Answered(r, UpsertConnection(r.id, next.status), {})
                   /\ form' = IF form # NoForm /\ (form \in Ids) = r.edits THEN NoForm ELSE form
            ELSE Answered(r, Shown, {next}) /\ UNCHANGED form
     /\ UNCHANGED <<wire, online, unlisted, spent>>
SaveFailed ==
  \E r \in InFlight("save") :
     /\ Costs("failures")
     /\ Answered(r, Shown, {})
     /\ UNCHANGED <<server, wire, online, form, unlisted>>

DeleteConnection(c) ==
  /\ rows[c] # Absent
  /\ Costs("forms")
  /\ form' = IF form = c THEN NoForm ELSE form
  /\ requests' = (IF form = c THEN Left ELSE requests) \cup {Request("delete", c)}
  /\ UNCHANGED <<server, wire, online, rows, flash, unlisted>>
DeleteSettled ==
  \E r \in InFlight("delete") :
     /\ \/ /\ server' = [server EXCEPT ![r.id] = Absent]
           /\ Answered(r, [Shown EXCEPT !.rows[r.id] = Absent], {})
           /\ UNCHANGED spent
        \/ UNCHANGED server /\ Answered(r, Shown, {}) /\ Costs("failures")
     /\ UNCHANGED <<wire, online, form, unlisted>>

-----------------------------------------------------------------------------
Init ==
  /\ server \in [Ids -> {Absent, "disconnected", "waiting"}]
  /\ wire = <<>>
  /\ online = TRUE
  /\ rows = [c \in Ids |-> Absent]
  /\ flash = {}
  /\ requests = {List}
  /\ form = NoForm
  /\ unlisted = FALSE
  /\ spent \in DeskBudgets

Next ==
  \/ \E c \in Ids : ServerMoves(c) \/ Toggle(c) \/ FlashEnds(c) \/ DeleteConnection(c)
  \/ OnLive
  \/ Drop
  \/ Reconnect
  \/ ConnectAnswered
  \/ ConnectFailed
  \/ DisconnectSettled
  \/ ListAnswered
  \/ ListFailed
  \/ OpenForm
  \/ Submit
  \/ SaveAnswered
  \/ SaveFailed
  \/ DeleteSettled

Spec == Init /\ [][Next]_deskVars

-----------------------------------------------------------------------------
\* Nothing stays on a row for good: a red row has its flash running, and a busy
\* one waits for an answer, unless the list that would have corrected it failed.
NothingHangs ==
  \A c \in Ids :
     /\ rows[c] = "error" => c \in flash
     /\ rows[c] \in Busy => \/ \E r \in InFlight("connect") \cup InFlight("disconnect") : r.id = c
                            \/ InFlight("list") # {}
                            \/ unlisted
=============================================================================
