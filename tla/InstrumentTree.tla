--------------------------- MODULE InstrumentTree ---------------------------
(***************************************************************************)
(* The catalogue of instruments in the browser: its chips and its query,   *)
(* the list read page by page, the tree from a future to its series of     *)
(* options, the stars, what the star filter opens by itself, the recording *)
(* of a whole series, and all of it after a reload.  There is one future;  *)
(* a page of the list is what it was asked for, not its rows.              *)
(***************************************************************************)
EXTENDS Integers, FiniteSets

CONSTANTS
  OptionsOf,      \* the options of each series
  CatalogueBudgets \* bounds: clicks, failures, reloads, moves of the server

VARIABLES
  chips,          \* activeFilters$
  query,          \* instrumentQuery$: [category, recording, ids, ancestors, page]
  scope,          \* selectionScope$
  selected,       \* selectedInstruments$, kept in storage
  list,           \* instruments$: the query its pages answer, and the pages
  fetching,       \* the GET behind instrumentsLoading$: at most one query
  open,           \* expandedFutures$ and expandedSeries$
  loaded,         \* seriesByFutures$ and strikesBySeries$
  leaves,         \* selectionLeafIds$: options the star filter opened the tree for
  asks,           \* other requests in flight
  busy,           \* seriesBusy$
  recs,           \* recordings$
  stored,         \* the view in storage
  link,           \* status of the connection on the screen
  recording,      \* options the server records
  missed,         \* ghost: nodes whose reading failed
  rest            \* what is left of the bounds

catalogueVars ==
  <<chips, query, scope, selected, list, fetching, open, loaded, leaves, asks, busy, recs, stored, link,
    recording, missed, rest>>
lists == <<query, scope, list, fetching>>
nodes == <<open, loaded, leaves, missed>>
series == <<busy, recs, recording>>

Future == "future"
Series == DOMAIN OptionsOf
Options == UNION {OptionsOf[s] : s \in Series}
NoIds == {"no ids"}  \* a value no set of options takes: the query names none
Pages == 0..1
\* What the server ever says of a link.
LinkStatuses == {"disconnected", "waiting", "active", "degraded", "error"}

Costs(k) == rest[k] > 0 /\ rest' = [rest EXCEPT ![k] = @ - 1]
View == [chips |-> chips, category |-> query.category, recording |-> query.recording,
         selected |-> query.ids # NoIds, scope |-> scope, open |-> open]
\* After every change of the view; the other changes leave it as it was.
PersistView == stored' = View'

(***************************************************************************)
(* What is asked of the server.                                            *)
(***************************************************************************)
\* resolveOptionConnectionId: the link the window of options is loaded through.
OptionConnection == link = "connected"
Live == link \in {"active", "waiting", "degraded"}
Strikes(s, why) ==
  [kind |-> "strikes", of |-> s, why |-> why, live |-> Live, ensures |-> OptionConnection /\ why \notin {"star", "stop"}]
LoadSeries == [kind |-> "series", of |-> Future]
Recordings == [kind |-> "recordings", seen |-> recording]
\* Auto changes no recording, and only the others read the recordings again.
Targets(s, why) ==
  CASE why = "start" -> OptionsOf[s] \ recs
    [] why = "stop" -> OptionsOf[s] \cap recs
    [] OTHER -> {}
Bulk(s, why) == [kind |-> "bulk", of |-> s, targets |-> Targets(s, why), why |-> why]
ReadAgain(why, now) == IF why = "auto" THEN {} ELSE {[Recordings EXCEPT !.seen = now]}
\* Mutant: the series that were open are not read again.
LoadFuture(nodesOpen, have) == IF Future \in nodesOpen \ have THEN {LoadSeries} ELSE {}
LoadOpen(nodesOpen, have) ==
  LoadFuture(nodesOpen, have) \cup {Strikes(s, "open") : s \in (nodesOpen \ have) \ {Future}}

(***************************************************************************)
(* The query and the list.                                                 *)
(***************************************************************************)
FetchInstruments(q, append) ==
  fetching' = IF fetching = {} THEN {[query |-> q, append |-> append]} ELSE fetching
SetInstrumentFilter(q) ==
  /\ query' = [q EXCEPT !.page = 0]
  /\ open' = {}
  /\ FetchInstruments(query', FALSE)

SetCategory ==
  /\ "instruments" \in chips
  /\ \E on \in BOOLEAN : SetInstrumentFilter([query EXCEPT !.category = on])
  /\ UNCHANGED <<chips, scope, selected>>
SetSelectionConditions ==
  /\ "selection" \in chips
  /\ \E rec, stars \in BOOLEAN :
       SetInstrumentFilter([query EXCEPT !.recording = rec, !.ids = IF stars THEN selected ELSE NoIds,
                                         !.ancestors = scope # "base"])
  /\ UNCHANGED <<chips, scope, selected>>
SetSelectionScope ==
  /\ "selection" \in chips
  /\ scope' = IF scope = "all" THEN "base" ELSE "all"
  /\ SetInstrumentFilter([query EXCEPT !.ancestors = scope' # "base"])
  /\ UNCHANGED <<chips, selected>>
AddFilter ==
  /\ \E key \in {"instruments", "selection", "baskets"} \ chips : chips' = chips \cup {key}
  /\ UNCHANGED <<query, scope, selected, fetching, open>>
\* Mutant: the star condition outlives its chip.
ClearedButIds(key) ==
  IF key = "instruments" THEN [query EXCEPT !.category = FALSE]
  ELSE [query EXCEPT !.recording = FALSE, !.ancestors = FALSE]
ClearedFieldsFor(key) ==
  IF key = "instruments" THEN [query EXCEPT !.category = FALSE]
  ELSE [query EXCEPT !.recording = FALSE, !.ids = NoIds, !.ancestors = FALSE]
RemoveFilter ==
  /\ \E key \in chips :
       /\ chips' = chips \ {key}
       /\ IF key = "baskets" THEN UNCHANGED <<query, fetching, open>>
          ELSE SetInstrumentFilter(ClearedFieldsFor(key))
  /\ UNCHANGED <<scope, selected>>
NoQuery == [category |-> FALSE, recording |-> FALSE, ids |-> NoIds, ancestors |-> FALSE, page |-> 0]
ClearFilters ==
  /\ chips' = {}
  /\ scope' = "all"
  /\ SetInstrumentFilter(NoQuery)
  /\ UNCHANGED selected
SetBasketEnabledSelection ==
  /\ "baskets" \in chips
  /\ FetchInstruments(query, FALSE)
  /\ UNCHANGED <<chips, query, scope, selected, open>>
LoadMoreInstruments ==
  /\ fetching = {}
  /\ list.pages # {}
  /\ list.pages # Pages
  /\ query' = [query EXCEPT !.page = 1]
  /\ FetchInstruments(query', TRUE)
  /\ UNCHANGED <<chips, scope, selected, open>>

\* A star, on an option whose row is there; the filter follows it.
Stars(ids) ==
  /\ selected' = ids
  /\ IF query.ids = NoIds THEN UNCHANGED <<query, fetching, open>>
     ELSE SetInstrumentFilter([query EXCEPT !.ids = ids])
ToggleInstrumentSelection ==
  /\ \E o \in Options :
       /\ \E s \in open \cap loaded : s # Future /\ o \in OptionsOf[s]
       /\ Stars(IF o \in selected THEN selected \ {o} ELSE selected \cup {o})
  /\ UNCHANGED <<chips, scope>>

EditQuery ==
  /\ Costs("clicks")
  /\ \/ SetCategory
     \/ SetSelectionConditions
     \/ SetSelectionScope
     \/ AddFilter
     \/ RemoveFilter
     \/ ClearFilters
     \/ SetBasketEnabledSelection
     \/ LoadMoreInstruments
     \/ ToggleInstrumentSelection
  /\ UNCHANGED <<list, loaded, leaves, asks, series, link, missed>>
  /\ PersistView

\* With conditions on all instruments the matching options are asked for, to open the tree on them.
HasSelection == query.recording \/ query.ids # NoIds
Matching ==
  {o \in Options : (query.recording => o \in recording) /\ (query.ids # NoIds => o \in query.ids)}
ListAnswered ==
  \E f \in fetching :
     /\ list' = [query |-> [f.query EXCEPT !.page = 0],
                 pages |-> {f.query.page} \cup IF f.append THEN list.pages ELSE {}]
     /\ fetching' = {}
     /\ IF f.append THEN UNCHANGED <<leaves, asks>>
        ELSE IF HasSelection /\ scope # "base" /\ ~(query.ids = {} /\ ~query.recording)
          THEN asks' = asks \cup {[kind |-> "spine", of |-> Matching]} /\ UNCHANGED leaves
        ELSE leaves' = {} /\ UNCHANGED asks
     /\ UNCHANGED <<chips, query, scope, selected, open, loaded, series, stored, link, missed, rest>>
ListFailed ==
  /\ fetching # {}
  /\ Costs("failures")
  /\ fetching' = {}
  /\ UNCHANGED <<chips, query, scope, selected, list, nodes, asks, series, stored, link>>

ExpandSelectedSpine ==
  \E r \in asks :
     /\ r.kind = "spine"
     /\ leaves' = r.of
     /\ open' = open \cup IF r.of = {} THEN {}
                          ELSE {Future} \cup {s \in Series : OptionsOf[s] \cap r.of # {}}
     /\ asks' = (asks \ {r}) \cup LoadOpen(open' \ open, loaded) \cup LoadFuture(open', loaded)
     /\ UNCHANGED <<chips, lists, selected, loaded, series, link, missed, rest>>
     /\ PersistView

(***************************************************************************)
(* The tree.                                                               *)
(***************************************************************************)
Visible(s) == s \in Series /\ {Future} \subseteq open \cap loaded /\ (leaves = {} \/ OptionsOf[s] \cap leaves # {})
ToggleNode ==
  /\ list.pages # {}
  /\ Costs("clicks")
  /\ \E n \in {Future} \cup Series :
       /\ n = Future \/ Visible(n)
       /\ open' = IF n \in open THEN open \ {n} ELSE open \cup {n}
       /\ asks' = asks \cup LoadOpen(open' \ open, loaded)
  /\ UNCHANGED <<chips, lists, selected, loaded, leaves, series, link, missed>>
  /\ PersistView

SeriesAnswered ==
  \E r \in asks :
     /\ r.kind = "series"
     /\ loaded' = loaded \cup {Future}
     /\ missed' = missed \ {Future}
     /\ asks' = asks \ {r}
     /\ UNCHANGED <<chips, lists, selected, open, leaves, series, stored, link, rest>>

(***************************************************************************)
(* A series as a whole: its star, the start and the stop of its recording  *)
(* and its Auto.  The options are read first, unless they are in the cache *)
(* and need no window; what follows runs under the key of the series.      *)
(***************************************************************************)
Finished(s) == busy' = busy \ {s}
Go(r, others) ==
  LET s == r.of
  IN  CASE r.why = "open" -> asks' = others /\ UNCHANGED <<busy, selected, query, fetching, open>>
        [] r.why = "star" ->
             /\ Stars(IF OptionsOf[s] \subseteq selected THEN selected \ OptionsOf[s] ELSE selected \cup OptionsOf[s])
             /\ asks' = others
             /\ UNCHANGED busy
        [] r.why = "start" /\ Targets(s, "start") = {} ->
             /\ Finished(s)
             /\ asks' = others \cup {Recordings}
             /\ UNCHANGED <<selected, query, fetching, open>>
        [] OTHER ->
             /\ asks' = others \cup {Bulk(s, r.why)}
             /\ UNCHANGED <<busy, selected, query, fetching, open>>

MayRun(s, why) == s \notin busy \/ why = "star"
\* A start needs a live link or an Auto that is on; Auto is not kept here, so it may always come.
OnSeries ==
  /\ Costs("clicks")
  /\ \E s \in Series, why \in {"star", "start", "stop", "auto"} :
       /\ Visible(s)
       /\ why \in {"start", "stop"} => (s \notin busy /\ (why = "stop" <=> s \in loaded /\ OptionsOf[s] \cap recs # {}))
       /\ MayRun(s, why)
       /\ LET r == Strikes(s, why)
          IN  IF s \in loaded /\ ~r.ensures
                THEN IF why = "star" THEN Go(r, asks)
                     ELSE /\ busy' = busy \cup {s}
                          /\ asks' = asks \cup {Bulk(s, why)}
                          /\ UNCHANGED <<selected, query, fetching, open>>
              ELSE /\ asks' = asks \cup {r}
                   /\ busy' = IF why = "star" THEN busy ELSE busy \cup {s}
                   /\ UNCHANGED <<selected, query, fetching, open>>
  /\ UNCHANGED <<chips, scope, list, loaded, leaves, recs, recording, link, missed>>
  /\ PersistView

StrikesAnswered ==
  \E r \in asks :
     /\ r.kind = "strikes"
     /\ loaded' = loaded \cup {r.of}
     /\ missed' = missed \ {r.of}
     /\ Go(r, asks \ {r})
     /\ UNCHANGED <<chips, scope, list, leaves, recs, recording, link, rest>>
     /\ PersistView

\* One item that fails does not stop the others.
BulkAnswered ==
  \E r \in asks :
     /\ r.kind = "bulk"
     /\ \E done \in {r.targets, {}} :
          recording' = IF r.why = "start" THEN recording \cup done ELSE recording \ done
     /\ Finished(r.of)
     /\ asks' = (asks \ {r}) \cup ReadAgain(r.why, recording')
     /\ UNCHANGED <<chips, lists, selected, nodes, recs, stored, link, rest>>

RecordingsAnswered ==
  \E r \in asks :
     /\ r.kind = "recordings"
     /\ recs' = r.seen
     /\ asks' = asks \ {r}
     /\ UNCHANGED <<chips, lists, selected, nodes, busy, recording, stored, link, rest>>

AskFailed ==
  \E r \in asks :
     /\ Costs("failures")
     /\ missed' = IF r.kind = "series" \/ (r.kind = "strikes" /\ r.why = "open") THEN missed \cup {r.of} ELSE missed
     /\ IF r.kind = "strikes" /\ r.why \in {"start", "stop", "auto"}
          THEN Finished(r.of) /\ asks' = (asks \ {r}) \cup ReadAgain(r.why, recording)
        ELSE r.kind # "bulk" /\ asks' = asks \ {r} /\ UNCHANGED busy
     /\ UNCHANGED <<chips, lists, selected, open, loaded, leaves, recs, recording, stored, link>>

(***************************************************************************)
(* The server and the page.                                                *)
(***************************************************************************)
LinkChanges ==
  /\ Costs("moves")
  /\ link' \in LinkStatuses \ {link}
  /\ UNCHANGED <<chips, lists, selected, nodes, asks, series, stored>>
RecordingChanges ==
  /\ Costs("moves")
  /\ \E o \in Options :
       recording' = IF o \in recording THEN recording \ {o} ELSE recording \cup {o}
  /\ asks' = asks \cup {[Recordings EXCEPT !.seen = recording']}
  /\ UNCHANGED <<chips, lists, selected, nodes, busy, recs, stored, link>>

HydrateExpanded(nodesOpen) == LoadOpen(nodesOpen, {})
RestoreViewState(v) ==
  /\ chips' = v.chips
  /\ query' = [NoQuery EXCEPT !.category = v.category, !.recording = v.recording,
                              !.ids = IF v.selected THEN selected ELSE NoIds, !.ancestors = v.scope # "base"]
  /\ scope' = v.scope
  /\ open' = v.open
Reload ==
  /\ Costs("reloads")
  /\ RestoreViewState(stored)
  /\ list' = [query |-> NoQuery, pages |-> {}]
  /\ fetching' = {[query |-> query', append |-> FALSE]}
  /\ loaded' = {}
  /\ leaves' = {}
  /\ asks' = HydrateExpanded(stored.open) \cup {Recordings}
  /\ busy' = {}
  /\ recs' = {}
  /\ missed' = {}
  /\ UNCHANGED <<selected, stored, link, recording>>

Init ==
  /\ chips = {}
  /\ query = NoQuery
  /\ scope = "all"
  /\ selected = {}
  /\ list = [query |-> NoQuery, pages |-> {}]
  /\ fetching = {[query |-> NoQuery, append |-> FALSE]}
  /\ open = {}
  /\ loaded = {}
  /\ leaves = {}
  /\ asks = {}
  /\ busy = {}
  /\ recs = {}
  /\ stored = View
  /\ link \in {"disconnected", "active"}
  /\ recording = {}
  /\ missed = {}
  /\ rest \in CatalogueBudgets

Next ==
  \/ EditQuery
  \/ ListAnswered
  \/ ListFailed
  \/ ExpandSelectedSpine
  \/ ToggleNode
  \/ SeriesAnswered
  \/ OnSeries
  \/ StrikesAnswered
  \/ BulkAnswered
  \/ RecordingsAnswered
  \/ AskFailed
  \/ LinkChanges
  \/ RecordingChanges
  \/ Reload

Spec == Init /\ [][Next]_catalogueVars

-----------------------------------------------------------------------------
\* What is open on the screen is there, on its way, or failed to come, whether a click,
\* the star filter or a reload opened it.
OpenIsLoaded ==
  \A n \in open : \/ n \in loaded \cup missed
                  \/ \E r \in asks : r.kind \in {"series", "strikes"} /\ r.of = n
\* One operation at a time runs on a series, and its key is busy for as long as that.
OneAtATime ==
  \A s \in Series :
     Cardinality({r \in asks : /\ r.kind \in {"strikes", "bulk"}
                               /\ r.of = s
                               /\ r.kind = "strikes" => r.why \notin {"open", "star"}}) = IF s \in busy THEN 1 ELSE 0
\* No condition works without its chip, the star filter asks for the present stars,
\* and the futures come along as the scope says, after a reload as before.
QueryIsOfChips ==
  /\ query.category => "instruments" \in chips
  /\ HasSelection => "selection" \in chips /\ query.ancestors = (scope # "base")
  /\ query.ids \in {NoIds, selected}
TreeIsServed == OpenIsLoaded /\ OneAtATime /\ QueryIsOfChips

\* The options of a series opened or recorded while the link is live are loaded through it first.
OptionsAreEnsured ==
  \A r \in asks : (r.kind = "strikes" /\ r.live /\ r.why \in {"open", "start"}) => r.ensures
=============================================================================
