--------------------------- MODULE RibbonRefresh ---------------------------
(***************************************************************************)
(* How the layers of the ribbon are kept up to date.  Whatever changes     *)
(* what a layer depends on asks for a refresh; the requests of a burst are *)
(* one, and it starts a pass that asks the server for the layers one after *)
(* another.  A new pass abandons the running one.  A pass fixes window,    *)
(* context and source as it starts, for the journal of incidents window    *)
(* and connection when its turn comes; the journal also has a quick        *)
(* refresh of its own.  A layer's content is abstracted to the key it was  *)
(* asked for.                                                              *)
(***************************************************************************)
EXTENDS SessionAxis, FiniteSets

CONSTANTS
  Frames,        \* time frames chosen
  Windows,       \* windows of the axis
  Contexts,      \* what the instrument list shows: [instruments, source, connection]
  Connections,   \* connections chosen as active
  Budgets        \* bounds: changes of what is shown, losses of the server, quick
                 \* refreshes of the journal, requests of a pass that fail

VARIABLES
  frame,         \* timeframe$
  window,        \* window$
  context,       \* activityContext: at most one
  source,        \* livenessSourceId: at most one
  connection,    \* activeConnectionId$: at most one
  extentAsked,   \* All is chosen and its window still to come
  down,          \* the optimistic crash is open
  due,           \* a refresh is asked for
  pass,          \* the running pass: at most one
  lightDue,      \* the quick refresh is asked for
  light,         \* the quick refresh under way: at most one key
  layers,        \* what each layer shows: the key it was asked for
  missed,        \* ghost: layers whose last request failed, or a late answer spoilt
  budget         \* what is left of the bounds

ribbonVars == <<frame, window, context, source, connection, extentAsked, down, due, pass,
                lightDue, light, layers, missed, budget>>
inputs == <<frame, window, context, source, connection, extentAsked>>

Layers == {"coverage", "activity", "writeGaps", "capture", "link", "incidents"}
Empty == {}            \* a layer with nothing to show

\* What a layer depends on; {} when there is nothing to ask for.
Key(layer, w, f, ctx, src, conn) ==
  CASE layer = "coverage" -> {<<w>>}
    [] layer = "activity" -> {<<w, BucketSeconds(f), c.source, c.instruments>> : c \in {x \in ctx : x.instruments # {}}}
    [] layer = "writeGaps" -> {<<w, c.connection, c.instruments>> : c \in {x \in ctx : x.instruments # {}}}
    [] layer \in {"capture", "link"} -> {<<w, s>> : s \in src}
    [] OTHER -> IF src = {} THEN {} ELSE {<<w, c>> : c \in conn}
Wanted(layer) == Key(layer, window, frame, context, source, connection)

(***************************************************************************)
(* What asks for a refresh.                                                *)
(***************************************************************************)
Spend(k) == budget[k] > 0 /\ budget' = [budget EXCEPT ![k] = @ - 1]
Move == Spend("moves")
Machinery == <<down, pass, lightDue, light, layers, missed>>

ChooseTimeframe(f, w) ==
  /\ Move
  /\ frame' = f
  /\ IF f.kind = "all" THEN extentAsked' = TRUE /\ UNCHANGED <<window, due>>
     ELSE window' = w /\ due' = TRUE /\ UNCHANGED extentAsked
  /\ UNCHANGED <<context, source, connection>>
  /\ UNCHANGED Machinery

SetWindow(w) ==
  /\ IF extentAsked THEN UNCHANGED budget ELSE Move
  /\ window' = w
  /\ extentAsked' = FALSE
  /\ due' = TRUE
  /\ UNCHANGED <<frame, context, source, connection>>
  /\ UNCHANGED Machinery

SetActivityContext(ctx) ==
  /\ Move
  /\ context' = {ctx}
  /\ source' = {ctx.source}
  /\ due' = (due \/ context # context' \/ source # source')
  /\ UNCHANGED <<frame, window, connection, extentAsked>>
  /\ UNCHANGED Machinery

\* Mutant: the journal is not asked for anew.
ConnectionOnly(c) ==
  /\ Move
  /\ connection' = c
  /\ UNCHANGED <<frame, window, context, source, extentAsked, due>>
  /\ UNCHANGED Machinery

SetActiveConnection(c) ==
  /\ Move
  /\ connection' = c
  /\ due' = (due \/ connection # c)
  /\ UNCHANGED <<frame, window, context, source, extentAsked>>
  /\ UNCHANGED Machinery

\* The poll, and a trade of an instrument without an active segment.
Poll ==
  /\ due' = TRUE
  /\ UNCHANGED <<inputs, budget>>
  /\ UNCHANGED Machinery

BackendDrop ==
  /\ Spend("drops")
  /\ down' = TRUE
  /\ UNCHANGED <<inputs, due, pass, lightDue, light, layers, missed>>

BackendReachable ==
  /\ down
  /\ down' = FALSE
  /\ due' = TRUE
  /\ UNCHANGED <<inputs, budget, pass, lightDue, light, layers, missed>>

(***************************************************************************)
(* The pass.                                                               *)
(***************************************************************************)
\* The layers in the order they are asked for.
Steps(p) ==
  <<"coverage">>
    \o (IF \E c \in p.context : c.instruments # {} THEN <<"activity", "writeGaps">> ELSE <<>>)
    \o (IF p.source # {} /\ p.live THEN <<"capture", "link", "incidents">> ELSE <<>>)

\* The quiet after a burst: what there is nothing to ask for is cleared at once.
RunRibbonRefresh ==
  LET p == [todo |-> <<>>, window |-> window, frame |-> frame, context |-> context,
            source |-> source, connection |-> connection, live |-> ~down]
      cleared == {l \in Layers \ {"incidents"} : Wanted(l) = {}}
                   \cup (IF source = {} THEN {"incidents"} ELSE {})
  IN  /\ due
      /\ due' = FALSE
      /\ pass' = {[p EXCEPT !.todo = Steps(p)]}
      /\ layers' = [l \in Layers |-> IF l \in cleared THEN Empty ELSE layers[l]]
      /\ missed' = (missed \ cleared) \cup (IF down THEN {"capture", "link", "incidents"} \ cleared ELSE {})
      /\ UNCHANGED <<inputs, budget, down, lightDue, light>>

\* The pass turns to its next layer; the journal's window and connection are read now.
Turn(p) ==
  CASE p.todo = <<>> -> {}
    [] p.todo = <<"incidents">> -> {[p EXCEPT !.window = window, !.connection = connection]}
    [] OTHER -> {p}

Answered(ok) ==
  \E p \in pass :
    LET l == Head(p.todo)
        next == Turn([p EXCEPT !.todo = Tail(@)])
        \* No connection, no journal: it is cleared and the pass is over.
        bare == \E q \in next : Head(q.todo) = "incidents" /\ q.connection = {}
        loaded == [layers EXCEPT ![l] = IF ok THEN Key(l, p.window, p.frame, p.context, p.source, p.connection)
                                        ELSE @]
    IN  /\ pass' = IF bare THEN {} ELSE next
        /\ layers' = IF bare THEN [loaded EXCEPT !["incidents"] = Empty] ELSE loaded
        /\ missed' = (IF ok THEN missed \ {l} ELSE missed \cup {l}) \ (IF bare THEN {"incidents"} ELSE {})
        /\ IF ok THEN UNCHANGED budget ELSE Spend("fails")
        /\ UNCHANGED <<inputs, down, due, lightDue, light>>

(***************************************************************************)
(* The quick refresh of the journal, on a notification of its life cycle.  *)
(***************************************************************************)
JournalChanged ==
  /\ Spend("lights")
  /\ lightDue' = TRUE
  /\ UNCHANGED <<inputs, down, due, pass, light, layers, missed>>

FetchConnectionIncidents ==
  /\ lightDue
  /\ lightDue' = FALSE
  /\ light' = {<<window, c>> : c \in connection}
  /\ layers' = IF connection = {} THEN [layers EXCEPT !["incidents"] = Empty] ELSE layers
  /\ missed' = IF connection = {} THEN missed \ {"incidents"} ELSE missed
  /\ UNCHANGED <<inputs, budget, down, due, pass>>

\* An answer for a window or a connection already left spoils the layer.
LightAnswered ==
  /\ \E key \in light :
       /\ layers' = [layers EXCEPT !["incidents"] = {key}]
       /\ missed' = IF {key} = Wanted("incidents") THEN missed \ {"incidents"} ELSE missed \cup {"incidents"}
  /\ light' = {}
  /\ UNCHANGED <<inputs, budget, down, due, pass, lightDue>>

LightFailed ==
  /\ light # {}
  /\ light' = {}
  /\ UNCHANGED <<inputs, budget, down, due, pass, lightDue, layers, missed>>

Init ==
  /\ frame \in Frames
  /\ frame.kind = "sessions"
  /\ window \in Windows
  /\ context = {}
  /\ source = {}
  /\ connection \in {{}} \cup {{c} : c \in Connections}
  /\ extentAsked = FALSE
  /\ down = FALSE
  /\ due = TRUE
  /\ pass = {}
  /\ lightDue = FALSE
  /\ light = {}
  /\ layers = [l \in Layers |-> Empty]
  /\ missed = {}
  /\ budget \in Budgets

Next ==
  \/ \E f \in Frames, w \in Windows : ChooseTimeframe(f, w)
  \/ \E w \in Windows : SetWindow(w)
  \/ \E ctx \in Contexts : SetActivityContext(ctx)
  \/ \E c \in {{}} \cup {{x} : x \in Connections} : SetActiveConnection(c)
  \/ Poll
  \/ BackendDrop
  \/ BackendReachable
  \/ RunRibbonRefresh
  \/ \E ok \in BOOLEAN : Answered(ok)
  \/ JournalChanged
  \/ FetchConnectionIncidents
  \/ LightAnswered
  \/ LightFailed

Spec == Init /\ [][Next]_ribbonVars

-----------------------------------------------------------------------------
\* Whenever no refresh is asked for or under way, every layer of the ribbon whose last
\* request was answered belongs to the window, the instruments, the source, the bucket
\* and the connection shown now, in whatever order these changed while requests ran.
RestIsCurrent ==
  (~due /\ pass = {} /\ ~down /\ ~extentAsked) =>
     \A l \in Layers \ missed : layers[l] = Wanted(l)
=============================================================================
