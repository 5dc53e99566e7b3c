------------------------- MODULE IncidentLifecycle -------------------------
(***************************************************************************)
(* What the incident journal promises for every correlation id, whoever    *)
(* writes and in whatever order: an episode appears once, alternates       *)
(* between active and recovering while it is open, is resolved once and    *)
(* then keeps its outcome.  Visibility (soft-delete) is an axis of its own *)
(* that never touches the lifecycle, and while it hides a row the row's    *)
(* lifecycle stands still.                                                 *)
(***************************************************************************)
CONSTANTS Corrs,       \* correlation ids of episodes
          Outcomes     \* how an episode may end

VARIABLES phase,       \* phase[c]: absent, active, recovering or resolved
          result,      \* result[c]: the outcome, "none" while not resolved
          hidden       \* hidden[c]: the row is soft-deleted

vars == <<phase, result, hidden>>

Init == /\ phase = [c \in Corrs |-> "absent"]
        /\ result = [c \in Corrs |-> "none"]
        /\ hidden = [c \in Corrs |-> FALSE]

\* The first row for c: open, or closed at once when the close overtook it.
Appear(c) ==
    /\ phase[c] = "absent"
    /\ \/ /\ \E p \in {"active", "recovering"} : phase' = [phase EXCEPT ![c] = p]
          /\ UNCHANGED result
       \/ \E o \in Outcomes : /\ phase' = [phase EXCEPT ![c] = "resolved"]
                              /\ result' = [result EXCEPT ![c] = o]
    /\ UNCHANGED hidden

Work(c) ==
    /\ phase[c] \in {"active", "recovering"} /\ ~hidden[c]
    /\ \E p \in {"active", "recovering"} : phase' = [phase EXCEPT ![c] = p]
    /\ UNCHANGED <<result, hidden>>

Resolve(c) ==
    /\ phase[c] \in {"active", "recovering"} /\ ~hidden[c]
    /\ phase' = [phase EXCEPT ![c] = "resolved"]
    /\ \E o \in Outcomes : result' = [result EXCEPT ![c] = o]
    /\ UNCHANGED hidden

HideOrShow(c) ==
    /\ phase[c] # "absent"
    /\ hidden' = [hidden EXCEPT ![c] = ~@]
    /\ UNCHANGED <<phase, result>>

Next == \E c \in Corrs : Appear(c) \/ Work(c) \/ Resolve(c) \/ HideOrShow(c)

Spec == Init /\ [][Next]_vars
=============================================================================
