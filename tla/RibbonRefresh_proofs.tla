------------------------ MODULE RibbonRefresh_proofs ------------------------
(***************************************************************************)
(* What holds of the refresh of the ribbons for every set of frames,       *)
(* windows, contexts and connections and every budget: at rest each layer  *)
(* belongs to what is shown.  The invariant says why: unless a refresh is  *)
(* due, the running pass has fixed what is shown now, and every layer it   *)
(* has left behind is of it.                                               *)
(***************************************************************************)
EXTENDS RibbonRefresh, TLAPS

In(l, s) == \E i \in 1..Len(s) : s[i] = l
IsPass(p) ==
  p = [todo |-> p.todo, window |-> p.window, frame |-> p.frame, context |-> p.context,
       source |-> p.source, connection |-> p.connection, live |-> p.live]
\* The journal of incidents comes last.
OfTodo(s) == s \in Seq(Layers) /\ s # <<>> /\ \A i \in 1..(Len(s) - 1) : s[i] # "incidents"
Current(p) ==
  /\ p.window = window /\ p.frame = frame /\ p.context = context
  /\ p.source = source /\ p.connection = connection /\ p.live
LeftBehind(l) == \A p \in pass : ~In(l, p.todo)

LayersOK == layers = [l \in Layers |-> layers[l]]
PassOK == /\ \A p \in pass : IsPass(p) /\ OfTodo(p.todo)
          /\ \A p, q \in pass : p = q
Fresh == ~due /\ ~down /\ ~extentAsked
PassCurrent == Fresh => \A p \in pass : Current(p)
LeftCurrent == Fresh => \A l \in Layers \ missed : LeftBehind(l) => layers[l] = Wanted(l)
IInv == LayersOK /\ PassOK /\ PassCurrent /\ LeftCurrent

-----------------------------------------------------------------------------
LEMMA Found ==
  ASSUME NEW s, NEW l, NEW i \in 1..Len(s), s[i] = l
  PROVE  In(l, s)
  BY DEF In

\* The pass starts with the coverage, keeps the journal for the end, and takes
\* every layer there is something to ask for.
LEMMA StepsOfPass ==
  ASSUME NEW p
  PROVE  /\ OfTodo(Steps(p))
         /\ In("coverage", Steps(p))
         /\ (\E c \in p.context : c.instruments # {}) => In("activity", Steps(p)) /\ In("writeGaps", Steps(p))
         /\ (p.source # {} /\ p.live) => In("capture", Steps(p)) /\ In("link", Steps(p)) /\ In("incidents", Steps(p))
  <1>1. CASE (\E c \in p.context : c.instruments # {}) /\ p.source # {} /\ p.live
    <2>1. Steps(p) \in Seq(Layers)
      <3>1. Steps(p) = (<<"coverage">> \o <<"activity", "writeGaps">>) \o <<"capture", "link", "incidents">>
        BY <1>1 DEF Steps
      <3>2. /\ <<"coverage">> \o <<"activity", "writeGaps">> \in Seq(Layers)
            /\ <<"capture", "link", "incidents">> \in Seq(Layers)
        BY DEF Layers
      <3> HIDE DEF Steps
      <3> QED
        BY <3>1, <3>2
    <2>2. Len(Steps(p)) = 6
      BY <1>1 DEF Steps
    <2>3. /\ Steps(p)[1] = "coverage"
          /\ Steps(p)[2] = "activity"
          /\ Steps(p)[3] = "writeGaps"
          /\ Steps(p)[4] = "capture"
          /\ Steps(p)[5] = "link"
          /\ Steps(p)[6] = "incidents"
      BY <1>1 DEF Steps
    <2>4. OfTodo(Steps(p))
      BY <2>1, <2>2, <2>3 DEF OfTodo
    <2>5. /\ In("coverage", Steps(p))
          /\ In("activity", Steps(p))
          /\ In("writeGaps", Steps(p))
          /\ In("capture", Steps(p))
          /\ In("link", Steps(p))
          /\ In("incidents", Steps(p))
      <3>1. In("coverage", Steps(p))
        BY <2>2, <2>3, 1 \in 1..6, Found
      <3>2. In("activity", Steps(p))
        BY <2>2, <2>3, 2 \in 1..6, Found
      <3>3. In("writeGaps", Steps(p))
        BY <2>2, <2>3, 3 \in 1..6, Found
      <3>4. In("capture", Steps(p))
        BY <2>2, <2>3, 4 \in 1..6, Found
      <3>5. In("link", Steps(p))
        BY <2>2, <2>3, 5 \in 1..6, Found
      <3>6. In("incidents", Steps(p))
        BY <2>2, <2>3, 6 \in 1..6, Found
      <3> QED
        BY <3>1, <3>2, <3>3, <3>4, <3>5, <3>6
    <2> QED
      BY <1>1, <2>4, <2>5
  <1>2. CASE (\E c \in p.context : c.instruments # {}) /\ ~(p.source # {} /\ p.live)
    <2>1. Steps(p) \in Seq(Layers)
      BY <1>2 DEF Steps, Layers
    <2>2. Len(Steps(p)) = 3
      BY <1>2 DEF Steps
    <2>3. /\ Steps(p)[1] = "coverage"
          /\ Steps(p)[2] = "activity"
          /\ Steps(p)[3] = "writeGaps"
      BY <1>2 DEF Steps
    <2>4. OfTodo(Steps(p))
      BY <2>1, <2>2, <2>3 DEF OfTodo
    <2>5. /\ In("coverage", Steps(p))
          /\ In("activity", Steps(p))
          /\ In("writeGaps", Steps(p))
      <3>1. In("coverage", Steps(p))
        BY <2>2, <2>3, 1 \in 1..3, Found
      <3>2. In("activity", Steps(p))
        BY <2>2, <2>3, 2 \in 1..3, Found
      <3>3. In("writeGaps", Steps(p))
        BY <2>2, <2>3, 3 \in 1..3, Found
      <3> QED
        BY <3>1, <3>2, <3>3
    <2> QED
      BY <1>2, <2>4, <2>5
  <1>3. CASE ~(\E c \in p.context : c.instruments # {}) /\ p.source # {} /\ p.live
    <2>1. Steps(p) \in Seq(Layers)
      BY <1>3 DEF Steps, Layers
    <2>2. Len(Steps(p)) = 4
      BY <1>3 DEF Steps
    <2>3. /\ Steps(p)[1] = "coverage"
          /\ Steps(p)[2] = "capture"
          /\ Steps(p)[3] = "link"
          /\ Steps(p)[4] = "incidents"
      BY <1>3 DEF Steps
    <2>4. OfTodo(Steps(p))
      BY <2>1, <2>2, <2>3 DEF OfTodo
    <2>5. /\ In("coverage", Steps(p))
          /\ In("capture", Steps(p))
          /\ In("link", Steps(p))
          /\ In("incidents", Steps(p))
      <3>1. In("coverage", Steps(p))
        BY <2>2, <2>3, 1 \in 1..4, Found
      <3>2. In("capture", Steps(p))
        BY <2>2, <2>3, 2 \in 1..4, Found
      <3>3. In("link", Steps(p))
        BY <2>2, <2>3, 3 \in 1..4, Found
      <3>4. In("incidents", Steps(p))
        BY <2>2, <2>3, 4 \in 1..4, Found
      <3> QED
        BY <3>1, <3>2, <3>3, <3>4
    <2> QED
      BY <1>3, <2>4, <2>5
  <1>4. CASE ~(\E c \in p.context : c.instruments # {}) /\ ~(p.source # {} /\ p.live)
    <2>1. Steps(p) \in Seq(Layers)
      BY <1>4 DEF Steps, Layers
    <2>2. Len(Steps(p)) = 1
      BY <1>4 DEF Steps
    <2>3. Steps(p)[1] = "coverage"
      BY <1>4 DEF Steps
    <2>4. OfTodo(Steps(p))
      BY <2>1, <2>2, <2>3 DEF OfTodo
    <2>5. In("coverage", Steps(p))
      <3>1. In("coverage", Steps(p))
        BY <2>2, <2>3, 1 \in 1..1, Found
      <3> QED
        BY <3>1
    <2> QED
      BY <1>4, <2>4, <2>5
  <1> QED
    BY <1>1, <1>2, <1>3, <1>4

\* A change that leaves inputs, layers and the pass alone disturbs nothing.
LEMMA NothingMoved ==
  ASSUME IInv, UNCHANGED <<inputs, down, due, pass, layers, missed>>
  PROVE  IInv'
  BY DEF IInv, LayersOK, PassOK, PassCurrent, LeftCurrent, Fresh, Current, LeftBehind, Wanted, inputs

\* A change that makes a refresh due, or leaves one to come, may change any input.
LEMMA ToBeRefreshed ==
  ASSUME IInv, UNCHANGED <<pass, layers>>, ~Fresh'
  PROVE  IInv'
  BY DEF IInv, LayersOK, PassOK, PassCurrent, LeftCurrent

LEMMA MoveKeeps ==
  ASSUME IInv,
         \/ \E f \in Frames, w \in Windows : ChooseTimeframe(f, w)
         \/ \E w \in Windows : SetWindow(w)
         \/ \E ctx \in Contexts : SetActivityContext(ctx)
         \/ \E c \in {{}} \cup {{x} : x \in Connections} : SetActiveConnection(c)
         \/ Poll \/ BackendDrop \/ BackendReachable \/ JournalChanged
  PROVE  IInv'
  <1>1. CASE \E f \in Frames, w \in Windows : ChooseTimeframe(f, w)
    <2>1. UNCHANGED <<pass, layers>> /\ ~Fresh'
      BY <1>1 DEF ChooseTimeframe, Machinery, Fresh
    <2> QED
      BY <2>1, ToBeRefreshed
  <1>2. CASE \E w \in Windows : SetWindow(w)
    <2>1. UNCHANGED <<pass, layers>> /\ ~Fresh'
      BY <1>2 DEF SetWindow, Machinery, Fresh
    <2> QED
      BY <2>1, ToBeRefreshed
  <1>3. CASE \E ctx \in Contexts : SetActivityContext(ctx)
    <2>1. UNCHANGED <<frame, window, connection, extentAsked, down, pass, layers, missed>>
      BY <1>3 DEF SetActivityContext, Machinery
    <2>2. due' = (due \/ context # context' \/ source # source')
      BY <1>3 DEF SetActivityContext
    <2>3. CASE context # context' \/ source # source'
      <3>1. ~Fresh'
        BY <2>2, <2>3 DEF Fresh
      <3> QED
        BY <2>1, <3>1, ToBeRefreshed
    <2>4. CASE context = context' /\ source = source'
      <3>1. Fresh' => Fresh
        BY <2>1, <2>2, <2>4 DEF Fresh
      <3> QED
        BY <2>1, <2>4, <3>1 DEF IInv, LayersOK, PassOK, PassCurrent, LeftCurrent, Current, LeftBehind, Wanted
    <2> QED
      BY <2>3, <2>4
  <1>4. CASE \E c \in {{}} \cup {{x} : x \in Connections} : SetActiveConnection(c)
    <2>1. UNCHANGED <<frame, window, context, source, extentAsked, down, pass, layers, missed>>
      BY <1>4 DEF SetActiveConnection, Machinery
    <2>2. due' = (due \/ connection # connection')
      BY <1>4 DEF SetActiveConnection
    <2>3. CASE connection # connection'
      <3>1. ~Fresh'
        BY <2>2, <2>3 DEF Fresh
      <3> QED
        BY <2>1, <3>1, ToBeRefreshed
    <2>4. CASE connection = connection'
      <3>1. Fresh' => Fresh
        BY <2>1, <2>2, <2>4 DEF Fresh
      <3> QED
        BY <2>1, <2>4, <3>1 DEF IInv, LayersOK, PassOK, PassCurrent, LeftCurrent, Current, LeftBehind, Wanted
    <2> QED
      BY <2>3, <2>4
  <1>5. CASE Poll
    <2>1. UNCHANGED <<pass, layers>> /\ ~Fresh'
      BY <1>5 DEF Poll, Machinery, Fresh
    <2> QED
      BY <2>1, ToBeRefreshed
  <1>6. CASE BackendDrop
    <2>1. UNCHANGED <<pass, layers>> /\ ~Fresh'
      BY <1>6 DEF BackendDrop, Fresh
    <2> QED
      BY <2>1, ToBeRefreshed
  <1>7. CASE BackendReachable
    <2>1. UNCHANGED <<pass, layers>> /\ ~Fresh'
      BY <1>7 DEF BackendReachable, Fresh
    <2> QED
      BY <2>1, ToBeRefreshed
  <1>8. CASE JournalChanged
    BY <1>8, NothingMoved DEF JournalChanged
  <1> QED
    BY <1>1, <1>2, <1>3, <1>4, <1>5, <1>6, <1>7, <1>8

\* The quick refresh clears the journal only when there is no connection to ask for, and
\* an answer for another window or connection counts as missed.
LEMMA LightKeeps ==
  ASSUME IInv, FetchConnectionIncidents \/ LightAnswered \/ LightFailed
  PROVE  IInv'
  <1>1. CASE FetchConnectionIncidents
    <2>1. UNCHANGED <<inputs, down, due, pass>>
      BY <1>1 DEF FetchConnectionIncidents
    <2>2. CASE connection = {}
      <3>1. layers' = [layers EXCEPT !["incidents"] = Empty] /\ missed' = missed \ {"incidents"}
        BY <1>1, <2>2 DEF FetchConnectionIncidents
      <3>2. Wanted("incidents") = Empty
        BY <2>2 DEF Wanted, Key, Empty
      <3>3. LayersOK'
        BY <3>1 DEF IInv, LayersOK
      <3>4. LeftCurrent'
        <4> SUFFICES ASSUME Fresh', NEW l \in Layers, l \notin missed', LeftBehind(l)'
                     PROVE  (layers[l] = Wanted(l))'
          BY DEF LeftCurrent
        <4>1. Fresh /\ LeftBehind(l) /\ Wanted(l)' = Wanted(l)
          BY <2>1 DEF Fresh, LeftBehind, Wanted, inputs
        <4>2. CASE l = "incidents"
          BY <3>1, <3>2, <4>1, <4>2 DEF IInv, LayersOK
        <4>3. CASE l # "incidents"
          BY <3>1, <4>1, <4>3 DEF IInv, LayersOK, LeftCurrent
        <4> QED
          BY <4>2, <4>3
      <3> QED
        BY <2>1, <3>3, <3>4 DEF IInv, PassOK, PassCurrent, Fresh, Current, inputs
    <2>3. CASE connection # {}
      <3>1. UNCHANGED <<layers, missed>>
        BY <1>1, <2>3 DEF FetchConnectionIncidents
      <3> QED
        BY <2>1, <3>1, NothingMoved
    <2> QED
      BY <2>2, <2>3
  <1>2. CASE LightAnswered
    <2>1. UNCHANGED <<inputs, down, due, pass>>
      BY <1>2 DEF LightAnswered
    <2>2. PICK key \in light :
            /\ layers' = [layers EXCEPT !["incidents"] = {key}]
            /\ missed' = IF {key} = Wanted("incidents") THEN missed \ {"incidents"}
                                                        ELSE missed \cup {"incidents"}
      BY <1>2 DEF LightAnswered
    <2>3. LayersOK'
      BY <2>2 DEF IInv, LayersOK
    <2>4. LeftCurrent'
      <3> SUFFICES ASSUME Fresh', NEW l \in Layers, l \notin missed', LeftBehind(l)'
                   PROVE  (layers[l] = Wanted(l))'
        BY DEF LeftCurrent
      <3>1. Fresh /\ LeftBehind(l) /\ Wanted(l)' = Wanted(l)
        BY <2>1 DEF Fresh, LeftBehind, Wanted, inputs
      <3>2. CASE l = "incidents"
        BY <2>2, <3>1, <3>2 DEF IInv, LayersOK
      <3>3. CASE l # "incidents"
        BY <2>2, <3>1, <3>3 DEF IInv, LayersOK, LeftCurrent
      <3> QED
        BY <3>2, <3>3
    <2> QED
      BY <2>1, <2>3, <2>4 DEF IInv, PassOK, PassCurrent, Fresh, Current, inputs
  <1>3. CASE LightFailed
    BY <1>3, NothingMoved DEF LightFailed
  <1> QED
    BY <1>1, <1>2, <1>3

\* A pass that starts has fixed what is shown, and what it will not ask for is cleared.
LEMMA RunKeeps ==
  ASSUME IInv, RunRibbonRefresh
  PROVE  IInv'
  <1> DEFINE p0 == [todo |-> <<>>, window |-> window, frame |-> frame, context |-> context,
                    source |-> source, connection |-> connection, live |-> ~down]
             p1 == [p0 EXCEPT !.todo = Steps(p0)]
             cleared == {l \in Layers \ {"incidents"} : Wanted(l) = {}}
                          \cup (IF source = {} THEN {"incidents"} ELSE {})
  <1>1. /\ pass' = {p1}
        /\ layers' = [l \in Layers |-> IF l \in cleared THEN Empty ELSE layers[l]]
        /\ missed' = (missed \ cleared)
                       \cup (IF down THEN {"capture", "link", "incidents"} \ cleared ELSE {})
        /\ UNCHANGED <<inputs, down>>
    BY DEF RunRibbonRefresh
  <1>2. /\ p1.todo = Steps(p0) /\ p1.window = window /\ p1.frame = frame /\ p1.context = context
        /\ p1.source = source /\ p1.connection = connection /\ p1.live = ~down
        /\ IsPass(p1)
        /\ p0.context = context /\ p0.source = source /\ p0.live = ~down
    BY DEF IsPass
  <1>3. OfTodo(Steps(p0)) /\ In("coverage", Steps(p0))
    BY StepsOfPass
  <1>4. (\E c \in context : c.instruments # {}) => In("activity", Steps(p0)) /\ In("writeGaps", Steps(p0))
    BY <1>2, StepsOfPass
  <1>5. (source # {} /\ ~down) => In("capture", Steps(p0)) /\ In("link", Steps(p0)) /\ In("incidents", Steps(p0))
    BY <1>2, StepsOfPass
  <1> HIDE DEF p0, p1
  <1>6. PassOK'
    BY <1>1, <1>2, <1>3 DEF PassOK
  <1>7. PassCurrent'
    BY <1>1, <1>2 DEF PassCurrent, Fresh, Current, inputs
  <1>8. LayersOK'
    BY <1>1 DEF LayersOK
  <1>9. LeftCurrent'
    <2> SUFFICES ASSUME Fresh', NEW l \in Layers, l \notin missed', LeftBehind(l)'
                 PROVE  (layers[l] = Wanted(l))'
      BY DEF LeftCurrent
    <2>1. ~down /\ ~In(l, Steps(p0)) /\ Wanted(l)' = Wanted(l)
      BY <1>1, <1>2 DEF Fresh, LeftBehind, Wanted, inputs
    <2>2. l # "coverage"
      BY <1>3, <2>1
    <2>3. Wanted(l) = {} /\ (l = "incidents" => source = {})
      <3>1. CASE l = "activity"
        BY <1>4, <2>1, <3>1 DEF Wanted, Key
      <3>2. CASE l = "writeGaps"
        BY <1>4, <2>1, <3>2 DEF Wanted, Key
      <3>3. CASE l = "capture"
        BY <1>5, <2>1, <3>3 DEF Wanted, Key
      <3>4. CASE l = "link"
        BY <1>5, <2>1, <3>4 DEF Wanted, Key
      <3>5. CASE l = "incidents"
        BY <1>5, <2>1, <3>5 DEF Wanted, Key
      <3> QED
        BY <2>2, <3>1, <3>2, <3>3, <3>4, <3>5 DEF Layers
    <2>4. l \in cleared
      BY <2>3
    <2> HIDE DEF cleared
    <2> QED
      BY <1>1, <2>1, <2>3, <2>4 DEF Empty
  <1> QED
    BY <1>6, <1>7, <1>8, <1>9 DEF IInv

\* What remains of a pass when its first layer is answered.
LEMMA RestOfPass ==
  ASSUME NEW s, OfTodo(s)
  PROVE  /\ Head(s) \in Layers
         /\ Tail(s) # <<>> => OfTodo(Tail(s))
         /\ \A l : In(l, s) => l = Head(s) \/ In(l, Tail(s))
         /\ \A l : Tail(s) = <<>> => ~In(l, Tail(s))
         /\ \A l : Tail(s) # <<>> /\ Head(Tail(s)) = "incidents" /\ In(l, Tail(s)) => l = "incidents"
  <1>1. s \in Seq(Layers) /\ s # <<>> /\ Len(s) \in Nat \ {0}
    BY DEF OfTodo
  <1>2. /\ Tail(s) \in Seq(Layers) /\ Len(Tail(s)) = Len(s) - 1
        /\ \A i \in 1..(Len(s) - 1) : Tail(s)[i] = s[i + 1]
    BY <1>1
  <1>3. Head(s) = s[1] /\ s[1] \in Layers
    BY <1>1
  <1>4. Tail(s) # <<>> => OfTodo(Tail(s))
    BY <1>1, <1>2 DEF OfTodo
  <1>5. ASSUME NEW l, In(l, s), l # Head(s) PROVE In(l, Tail(s))
    <2>1. PICK i \in 1..Len(s) : s[i] = l
      BY <1>5 DEF In
    <2>2. i # 1 /\ (i - 1) \in 1..Len(Tail(s)) /\ Tail(s)[i - 1] = l
      BY <1>1, <1>2, <1>3, <1>5, <2>1
    <2> QED
      BY <2>2, Found
  <1>6. ASSUME NEW l, Tail(s) = <<>> PROVE ~In(l, Tail(s))
    <2>1. ~In(l, <<>>)
      BY DEF In
    <2> QED
      BY <1>6, <2>1
  <1>7. ASSUME NEW l, Tail(s) # <<>>, Head(Tail(s)) = "incidents", In(l, Tail(s)) PROVE l = "incidents"
    <2>1. Len(Tail(s)) \in Nat \ {0} /\ Tail(s)[1] = "incidents"
      BY <1>2, <1>7
    <2>2. Len(Tail(s)) = 1
      BY <1>1, <1>2, <2>1 DEF OfTodo
    <2> QED
      BY <1>7, <2>1, <2>2 DEF In
  <1> QED
    BY <1>3, <1>4, <1>5, <1>6, <1>7

\* A pass keeps the rest when what it has to ask for is replaced.
LEMMA WithTodo ==
  ASSUME NEW p, IsPass(p), NEW t
  PROVE  LET r == [p EXCEPT !.todo = t]
         IN  /\ r.todo = t /\ r.window = p.window /\ r.frame = p.frame
             /\ r.context = p.context /\ r.source = p.source
             /\ r.connection = p.connection /\ r.live = p.live /\ IsPass(r)
  BY DEF IsPass

\* Turning to its next layer, the pass reads window and connection again for the journal.
LEMMA TurnsTo ==
  ASSUME NEW r, IsPass(r), NEW q \in Turn(r)
  PROVE  /\ q.todo = r.todo /\ q.todo # <<>> /\ IsPass(q) /\ Turn(r) = {q}
         /\ q.frame = r.frame /\ q.context = r.context /\ q.source = r.source /\ q.live = r.live
         /\ q.window \in {window, r.window} /\ q.connection \in {connection, r.connection}
  <1>1. CASE r.todo = <<"incidents">>
    <2>1. r.todo # <<>>
      BY <1>1
    <2>2. q = [r EXCEPT !.window = window, !.connection = connection] /\ Turn(r) = {q}
      BY <1>1, <2>1 DEF Turn
    <2> DEFINE fields == [todo |-> r.todo, window |-> r.window, frame |-> r.frame, context |-> r.context,
                          source |-> r.source, connection |-> r.connection, live |-> r.live]
    <2>3. q = [fields EXCEPT !.window = window, !.connection = connection]
      BY <2>2 DEF IsPass
    <2>4. q = [todo |-> r.todo, window |-> window, frame |-> r.frame, context |-> r.context,
               source |-> r.source, connection |-> connection, live |-> r.live]
      BY <2>3
    <2> HIDE DEF fields
    <2>5. /\ q.todo = r.todo /\ q.window = window /\ q.frame = r.frame /\ q.context = r.context
          /\ q.source = r.source /\ q.connection = connection /\ q.live = r.live /\ IsPass(q)
      BY <2>4 DEF IsPass
    <2>6. Turn(r) = {q}
      BY <2>2
    <2> QED
      BY <2>1, <2>5, <2>6
  <1>2. CASE r.todo # <<"incidents">>
    BY <1>2 DEF Turn
  <1> QED
    BY <1>1, <1>2

\* An answer for a pass that has fixed what is shown makes its layer current.
LEMMA AnsweredKeeps ==
  ASSUME IInv, NEW ok \in BOOLEAN, Answered(ok)
  PROVE  IInv'
  <1> DEFINE Rest(p) == [p EXCEPT !.todo = Tail(@)]
             Bare(p) == \E q \in Turn(Rest(p)) : Head(q.todo) = "incidents" /\ q.connection = {}
             Asked(p) == Key(Head(p.todo), p.window, p.frame, p.context, p.source, p.connection)
             Loaded(p) == [layers EXCEPT ![Head(p.todo)] = IF ok THEN Asked(p) ELSE @]
  <1>1. PICK p \in pass :
          /\ pass' = IF Bare(p) THEN {} ELSE Turn(Rest(p))
          /\ layers' = IF Bare(p) THEN [Loaded(p) EXCEPT !["incidents"] = Empty] ELSE Loaded(p)
          /\ missed' = (IF ok THEN missed \ {Head(p.todo)} ELSE missed \cup {Head(p.todo)})
                          \ (IF Bare(p) THEN {"incidents"} ELSE {})
          /\ UNCHANGED <<inputs, down, due>>
    BY DEF Answered
  <1>2. IsPass(p) /\ OfTodo(p.todo) /\ pass = {p}
    BY DEF IInv, PassOK
  <1>3. /\ Rest(p).todo = Tail(p.todo) /\ Rest(p).window = p.window /\ Rest(p).frame = p.frame
        /\ Rest(p).context = p.context /\ Rest(p).source = p.source
        /\ Rest(p).connection = p.connection /\ Rest(p).live = p.live /\ IsPass(Rest(p))
    BY <1>2, WithTodo
  <1> HIDE DEF Rest
  <1>4. ASSUME NEW q \in Turn(Rest(p))
        PROVE  /\ q.todo = Tail(p.todo) /\ q.todo # <<>> /\ IsPass(q) /\ OfTodo(q.todo)
               /\ q.frame = p.frame /\ q.context = p.context /\ q.source = p.source /\ q.live = p.live
               /\ q.window \in {window, p.window} /\ q.connection \in {connection, p.connection}
               /\ Turn(Rest(p)) = {q}
    <2> DEFINE r == Rest(p)
    <2>1. IsPass(r) /\ q \in Turn(r)
      BY <1>3
    <2>2. /\ q.todo = r.todo /\ q.todo # <<>> /\ IsPass(q) /\ Turn(r) = {q}
          /\ q.frame = r.frame /\ q.context = r.context /\ q.source = r.source /\ q.live = r.live
          /\ q.window \in {window, r.window} /\ q.connection \in {connection, r.connection}
      <3> HIDE DEF r
      <3> QED
        BY <2>1, TurnsTo
    <2>3. OfTodo(Tail(p.todo))
      BY <1>2, <1>3, <2>2, RestOfPass
    <2> QED
      BY <1>3, <2>2, <2>3
  <1>5. Turn(Rest(p)) = {} => Tail(p.todo) = <<>>
    BY <1>3 DEF Turn
  <1>6. Head(p.todo) \in Layers
    BY <1>2, RestOfPass
  <1>7. LayersOK'
    BY <1>1, <1>6 DEF IInv, LayersOK
  <1>8. PassOK'
    BY <1>1, <1>4 DEF PassOK
  <1>9. Fresh' => Fresh /\ Current(p)
    BY <1>1, <1>2 DEF IInv, PassCurrent, Fresh, inputs
  <1>10. PassCurrent'
    <2> SUFFICES ASSUME Fresh', NEW q \in pass'
                 PROVE  Current(q)'
      BY DEF PassCurrent
    <2>1. q \in Turn(Rest(p)) /\ UNCHANGED inputs
      BY <1>1
    <2>2. Current(q)
      BY <1>4, <1>9, <2>1 DEF Current
    <2> QED
      BY <2>1, <2>2 DEF Current, inputs
  <1>11. LeftCurrent'
    <2> SUFFICES ASSUME Fresh', NEW l \in Layers, l \notin missed', LeftBehind(l)'
                 PROVE  (layers[l] = Wanted(l))'
      BY DEF LeftCurrent
    <2>1. Fresh /\ Current(p) /\ Wanted(l)' = Wanted(l)
      BY <1>1, <1>9 DEF Wanted, inputs
    <2>2. Asked(p) = Wanted(Head(p.todo))
      BY <2>1 DEF Wanted, Current
    <2>3. CASE Bare(p) /\ l = "incidents"
      <3>1. PICK q \in Turn(Rest(p)) : q.connection = {}
        BY <2>3
      <3>2. connection = {}
        BY <1>4, <2>1, <3>1 DEF Current
      <3>3. Wanted(l) = Empty
        BY <2>3, <3>2 DEF Wanted, Key, Empty
      <3> QED
        BY <1>1, <1>6, <2>1, <2>3, <3>3 DEF IInv, LayersOK
    <2>4. CASE ~(Bare(p) /\ l = "incidents")
      <3>1. ~In(l, Tail(p.todo))
        <4>1. CASE Bare(p)
          <5>1. PICK q \in Turn(Rest(p)) : Head(q.todo) = "incidents"
            BY <4>1
          <5>2. Tail(p.todo) # <<>> /\ Head(Tail(p.todo)) = "incidents"
            BY <1>4, <5>1
          <5> QED
            BY <1>2, <2>4, <4>1, <5>2, RestOfPass
        <4>2. CASE ~Bare(p) /\ Turn(Rest(p)) = {}
          BY <1>2, <1>5, <4>2, RestOfPass
        <4>3. CASE ~Bare(p) /\ Turn(Rest(p)) # {}
          <5>1. PICK q \in Turn(Rest(p)) : TRUE
            BY <4>3
          <5>2. q \in pass' /\ q.todo = Tail(p.todo)
            BY <1>1, <1>4, <4>3, <5>1
          <5> QED
            BY <5>2 DEF LeftBehind
        <4> QED
          BY <4>1, <4>2, <4>3
      <3>2. layers'[l] = Loaded(p)[l]
        BY <1>1, <1>6, <2>4 DEF IInv, LayersOK
      <3>3. CASE l = Head(p.todo)
        <4>1. ok
          BY <1>1, <2>4, <3>3
        <4> QED
          BY <2>1, <2>2, <3>2, <3>3, <4>1 DEF IInv, LayersOK
      <3>4. CASE l # Head(p.todo)
        <4>1. LeftBehind(l) /\ l \notin missed
          BY <1>1, <1>2, <2>4, <3>1, <3>4, RestOfPass DEF LeftBehind
        <4> QED
          BY <2>1, <3>2, <3>4, <4>1 DEF IInv, LayersOK, LeftCurrent
      <3> QED
        BY <3>3, <3>4
    <2> QED
      BY <2>3, <2>4
  <1> QED
    BY <1>7, <1>8, <1>10, <1>11 DEF IInv

-----------------------------------------------------------------------------
\* For all frames, windows, contexts, connections and budgets: the pass and the layers
\* keep their shape, and unless a refresh is due both are of what is shown now.
THEOREM RefreshInvariant == Spec => []IInv
  <1>1. Init => IInv
    BY DEF Init, IInv, LayersOK, PassOK, PassCurrent, LeftCurrent, Fresh
  <1>2. IInv /\ [Next]_ribbonVars => IInv'
    <2> SUFFICES ASSUME IInv, [Next]_ribbonVars
                 PROVE  IInv'
      OBVIOUS
    <2>1. CASE \E ok \in BOOLEAN : Answered(ok)
      BY <2>1, AnsweredKeeps
    <2>2. CASE RunRibbonRefresh
      BY <2>2, RunKeeps
    <2>3. CASE FetchConnectionIncidents \/ LightAnswered \/ LightFailed
      BY <2>3, LightKeeps
    <2>4. CASE UNCHANGED ribbonVars
      BY <2>4, NothingMoved DEF ribbonVars, inputs
    <2> QED
      BY <2>1, <2>2, <2>3, <2>4, MoveKeeps DEF Next
  <1> QED
    BY <1>1, <1>2, PTL DEF Spec

\* Whenever no refresh is asked for or under way, the layers on the screen are those of
\* the window, instruments, source, bucket and connection shown (requestRibbonRefresh and
\* the pass it starts in OhsStore).
THEOREM LayersAreCurrent == Spec => []RestIsCurrent
  <1>1. IInv => RestIsCurrent
    BY DEF IInv, LeftCurrent, LeftBehind, Fresh, RestIsCurrent
  <1> QED
    BY <1>1, RefreshInvariant, PTL
=============================================================================
