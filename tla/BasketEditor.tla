---------------------------- MODULE BasketEditor ----------------------------
(***************************************************************************)
(* The sets of instruments (baskets) of a connection in the browser: the   *)
(* list with its ticks, and the editor with the rules of one set, the      *)
(* preview of what they match and the pages of what could be added.  The   *)
(* editor stays mounted between two openings.                              *)
(***************************************************************************)
EXTENDS Integers, FiniteSets

CONSTANTS
  Baskets,        \* identifiers a set can get
  TypeOf,         \* the type of each instrument; a glob matches one of them
  BasketBudgets   \* bounds: clicks, failures, moves of another client

VARIABLES
  sets,           \* the server's sets: [globs, secType, enabled] by identifier
  baskets,        \* baskets$
  editor,         \* ProviderCard's basketEditor: [open, basketId]
  draft,          \* the fields: [globs, secType], saving, and the set they were read from
  match,          \* the preview: what it is of, loading, failed, and the requests still listened to
  available,      \* the pages below: shown, loading, first pages listened to, later ones
  calls,          \* other requests in flight
  left            \* what is left of the bounds

basketVars == <<sets, baskets, editor, draft, match, available, calls, left>>

Globs == DOMAIN TypeOf
New == "new"      \* in the place of an identifier: no stored set
SecTypes == {"any"} \cup {TypeOf[g] : g \in Globs}
NoRules == [globs |-> {}, secType |-> "any"]
Rules(b) == [globs |-> b.globs, secType |-> b.secType]
Fits(g, type) == type \in {"any", TypeOf[g]}
Costs(k) == left[k] > 0 /\ left' = [left EXCEPT ![k] = @ - 1]
Spend == Costs("clicks")

ListCall(s) == [kind |-> "list", rows |-> s]
\* editing: the set of the open editor, as long as the list has it.
Editing(e, rows) == IF e.basketId \in DOMAIN rows THEN e.basketId ELSE New

(***************************************************************************)
(* What the editor does after a change of what its effects depend on.  The *)
(* cleanup of an effect's previous run makes that run's answer ignored.    *)
(***************************************************************************)
\* Mutant: an earlier preview is not cancelled.
PreviewOnTop(rules) ==
  IF rules.globs = {} THEN [of |-> NoRules, loading |-> FALSE, failed |-> FALSE, asks |-> match.asks]
  ELSE [of |-> match.of, loading |-> TRUE, failed |-> FALSE, asks |-> match.asks \cup {rules}]
Preview(rules) ==
  IF rules.globs = {} THEN [of |-> NoRules, loading |-> FALSE, failed |-> FALSE, asks |-> {}]
  ELSE [of |-> match.of, loading |-> TRUE, failed |-> FALSE, asks |-> {rules}]
Effects ==
  LET opened == editor'.open /\ ~editor.open
  IN  IF ~editor'.open
        THEN /\ match' = [match EXCEPT !.asks = {}]
             /\ available' = [available EXCEPT !.first = {}]
        ELSE /\ match' = IF opened \/ Rules(draft') # Rules(draft) THEN Preview(Rules(draft')) ELSE match
             /\ available' = IF opened \/ draft'.secType # draft.secType
                               THEN [available EXCEPT !.loading = TRUE, !.first = {draft'.secType}]
                               ELSE available
\* The fields are read from the set when the editor opens and whenever editing is another object.
ReadFields(e, rows) ==
  LET id == Editing(e, rows)
      of == IF id = New THEN NoRules ELSE Rules(rows[id])
  IN  [globs |-> of.globs, secType |-> of.secType, saving |-> draft.saving, of |-> id]
ReadAgain(e, rows) ==
  IF ~e.open \/ {Editing(e, baskets), Editing(e, rows)} = {New} THEN draft ELSE ReadFields(e, rows)

(***************************************************************************)
(* Clicks.                                                                 *)
(***************************************************************************)
RefreshBaskets(s, others) == calls' = others \cup {ListCall(s)}
ShowBaskets ==
  /\ Spend
  /\ ~editor.open
  /\ RefreshBaskets(sets, calls)
  /\ UNCHANGED <<sets, baskets, editor, draft, match, available>>
\* The tick of a set is what the screen does not show.
SetBasketEnabledSelection ==
  /\ Spend
  /\ ~editor.open
  /\ \E b \in DOMAIN baskets : calls' = calls \cup {[kind |-> "patch", id |-> b, on |-> ~baskets[b].enabled]}
  /\ UNCHANGED <<sets, baskets, editor, draft, match, available>>

OpenEditor ==
  /\ Spend
  /\ ~editor.open
  /\ \E b \in DOMAIN baskets \cup {New} : editor' = [open |-> TRUE, basketId |-> b]
  /\ draft' = ReadFields(editor', baskets)
  /\ Effects
  /\ UNCHANGED <<sets, baskets, calls>>
Closed == [open |-> FALSE, basketId |-> New]
CloseEditor ==
  /\ Spend
  /\ editor.open
  /\ editor' = Closed
  /\ UNCHANGED <<sets, baskets, draft, calls>>
  /\ Effects

EditRules ==
  /\ Spend
  /\ editor.open
  /\ \/ \E globs \in SUBSET Globs : draft' = [draft EXCEPT !.globs = globs]
     \/ \E type \in SecTypes : draft' = [draft EXCEPT !.secType = type]
  /\ UNCHANGED <<sets, baskets, editor, calls>>
  /\ Effects
\* An instrument dropped on the preview joins the rules, unless it is already there.
AddInstrumentPattern ==
  /\ Spend
  /\ editor.open
  /\ \E g \in Globs :
       /\ \E p \in available.pages : Fits(g, p[1])
       /\ ~(g \in match.of.globs /\ Fits(g, match.of.secType))
       /\ draft' = [draft EXCEPT !.globs = @ \cup {g}]
  /\ UNCHANGED <<sets, baskets, editor, calls>>
  /\ Effects
LoadMoreAvailable ==
  /\ Spend
  /\ editor.open
  /\ ~available.loading
  /\ Cardinality(available.pages) = 1
  /\ available' = [available EXCEPT !.loading = TRUE, !.more = @ \cup {draft.secType}]
  /\ UNCHANGED <<sets, baskets, editor, draft, match, calls>>

Save ==
  /\ Spend
  /\ editor.open
  /\ ~draft.saving
  /\ draft.globs # {}
  /\ LET id == Editing(editor, baskets)
     IN  calls' = calls \cup {[kind |-> "save", id |-> id, rules |-> Rules(draft), from |-> draft.of,
                               enabled |-> IF id = New THEN TRUE ELSE baskets[id].enabled]}
  /\ draft' = [draft EXCEPT !.saving = TRUE]
  /\ UNCHANGED <<sets, baskets, editor, match, available>>
DoDelete ==
  /\ Spend
  /\ editor.open
  /\ ~draft.saving
  /\ Editing(editor, baskets) # New
  /\ calls' = calls \cup {[kind |-> "delete", id |-> Editing(editor, baskets)]}
  /\ draft' = [draft EXCEPT !.saving = TRUE]
  /\ UNCHANGED <<sets, baskets, editor, match, available>>

(***************************************************************************)
(* Answers.                                                                *)
(***************************************************************************)
ListAnswered ==
  \E c \in calls :
     /\ c.kind = "list"
     /\ baskets' = c.rows
     /\ calls' = calls \ {c}
     /\ draft' = ReadAgain(editor, c.rows)
     /\ UNCHANGED <<sets, editor, left>>
     /\ Effects

With(s, id, b) == [x \in DOMAIN s \cup {id} |-> IF x = id THEN b ELSE s[x]]
Without(s, id) == [x \in DOMAIN s \ {id} |-> s[x]]
Stored(c) == [globs |-> c.rules.globs, secType |-> c.rules.secType, enabled |-> c.enabled]
\* Whatever the editor shows by then, a success closes it.
SaveAnswered ==
  \E c \in calls :
     /\ c.kind \in {"save", "delete"}
     /\ \/ c.id = New /\ \E id \in Baskets \ (DOMAIN sets \cup DOMAIN baskets) : sets' = With(sets, id, Stored(c))
        \/ c.kind = "save" /\ c.id \in DOMAIN sets /\ sets' = With(sets, c.id, Stored(c))
        \/ c.kind = "delete" /\ sets' = Without(sets, c.id)
     /\ RefreshBaskets(sets', calls \ {c})
     /\ draft' = [draft EXCEPT !.saving = FALSE]
     /\ editor' = Closed
     /\ UNCHANGED <<baskets, left>>
     /\ Effects
PatchAnswered ==
  \E c \in calls :
     /\ c.kind = "patch"
     /\ c.id \in DOMAIN sets
     /\ sets' = [sets EXCEPT ![c.id].enabled = c.on]
     /\ RefreshBaskets(sets', calls \ {c})
     /\ UNCHANGED <<baskets, editor, draft, match, available, left>>
\* A request fails, or its set is no longer there.
CallFailed ==
  \E c \in calls :
     /\ IF c.kind \in {"save", "patch"} /\ c.id # New /\ c.id \notin DOMAIN sets
          THEN UNCHANGED left ELSE Costs("failures")
     /\ calls' = calls \ {c}
     /\ draft' = IF c.kind \in {"save", "delete"} THEN [draft EXCEPT !.saving = FALSE] ELSE draft
     /\ UNCHANGED <<sets, baskets, editor, match, available>>

PreviewAnswered ==
  \E r \in match.asks :
     /\ \/ match' = [of |-> r, loading |-> FALSE, failed |-> FALSE, asks |-> match.asks \ {r}] /\ UNCHANGED left
        \/ Costs("failures")
           /\ match' = [of |-> NoRules, loading |-> FALSE, failed |-> TRUE, asks |-> match.asks \ {r}]
     /\ UNCHANGED <<sets, baskets, editor, draft, available, calls>>
\* A later page is appended to whatever list it finds.
AvailableAnswered ==
  /\ \/ \E t \in available.first :
          available' = [available EXCEPT !.first = {}, !.loading = FALSE, !.pages = {<<t, 0>>}]
     \/ \E t \in available.more :
          available' = [available EXCEPT !.more = @ \ {t}, !.loading = FALSE, !.pages = @ \cup {<<t, 1>>}]
  /\ UNCHANGED <<sets, baskets, editor, draft, match, calls, left>>

\* Another client changes or deletes a set.
OtherClient ==
  /\ Costs("moves")
  /\ \E id \in DOMAIN sets :
       \/ sets' = Without(sets, id)
       \/ \E globs \in SUBSET Globs \ {{}} : sets' = [sets EXCEPT ![id].globs = globs]
  /\ UNCHANGED <<baskets, editor, draft, match, available, calls>>

Init ==
  /\ \E b \in Baskets, g \in Globs : sets = [x \in {b} |-> [globs |-> {g}, secType |-> "any", enabled |-> TRUE]]
  /\ baskets = Without(sets, CHOOSE b \in DOMAIN sets : TRUE)
  /\ editor = Closed
  /\ draft = [globs |-> {}, secType |-> "any", saving |-> FALSE, of |-> New]
  /\ match = [of |-> NoRules, loading |-> FALSE, failed |-> FALSE, asks |-> {}]
  /\ available = [pages |-> {}, loading |-> FALSE, first |-> {}, more |-> {}]
  /\ calls = {ListCall(sets)}
  /\ left \in BasketBudgets

Next ==
  \/ ShowBaskets
  \/ SetBasketEnabledSelection
  \/ OpenEditor
  \/ CloseEditor
  \/ EditRules
  \/ AddInstrumentPattern
  \/ LoadMoreAvailable
  \/ Save
  \/ DoDelete
  \/ ListAnswered
  \/ SaveAnswered
  \/ PatchAnswered
  \/ CallFailed
  \/ PreviewAnswered
  \/ AvailableAnswered
  \/ OtherClient

Spec == Init /\ [][Next]_basketVars

-----------------------------------------------------------------------------
\* A preview that is neither on its way nor failed is of the rules in the fields.
MatchIsOfRules ==
  (editor.open /\ ~match.loading /\ ~match.failed) =>
     match.of = IF draft.globs = {} THEN NoRules ELSE Rules(draft)
\* The fields on the screen were read from the set a click on OK would overwrite,
\* and whatever is on its way to a set was edited as that set.
FieldsAreOfSet ==
  /\ editor.open => draft.of = Editing(editor, baskets)
  /\ \A c \in calls : c.kind = "save" => c.from = c.id
\* What the editor shows, and what it sends, belongs to the set it edits: the preview that has
\* answered last is of the present rules, and no fields of one set are written over another,
\* though lists, previews and saves answer in any order under an editor that is never unmounted.
EditorIsTrue == MatchIsOfRules /\ FieldsAreOfSet
=============================================================================
