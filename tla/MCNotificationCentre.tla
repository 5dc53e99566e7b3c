------------------------ MODULE MCNotificationCentre ------------------------
(***************************************************************************)
(* The notification centre on small instances of its screens.              *)
(***************************************************************************)
EXTENDS NotificationCentre

(***************************************************************************)
(* The feed: two parallel 500s; one with late stamps, a cut and a reload;  *)
(* one and a link incident; a link incident with late stamps and a mark; a *)
(* longer one with ticks that overflows the ring around a cut; two         *)
(* incidents, more than an answer holds, deleted and restored around a     *)
(* reload.                                                                 *)
(***************************************************************************)
Scene(cast, atoms, late) ==
  [cast |-> cast, atoms |-> atoms, late |-> late, journal |-> <<>>, drops |-> 0,
   reloads |-> 0, hides |-> 0, marks |-> 0]
MCScenes ==
  {Scene({"r1", "r2"}, 4, 0),
   [Scene({"r1"}, 3, 1) EXCEPT !.drops = 1, !.reloads = 1],
   Scene({"r1", "link"}, 3, 0),
   [Scene({"link"}, 3, 1) EXCEPT !.marks = 1],
   [Scene({"link"}, 4, 0) EXCEPT !.drops = 1],
   [Scene({"link", "other"}, 1, 0) EXCEPT !.reloads = 1, !.hides = 2, !.journal = <<"other">>]}

(***************************************************************************)
(* The dock, over one thread of two entries, old marks and an old store.   *)
(***************************************************************************)
Chips == INSTANCE DockFilter
Event(id, severity, words) ==
  [id |-> id, severity |-> severity, sourceType |-> "system", interaction |-> Chips!Absent,
   localization |-> Chips!Absent, status |-> "active", corr |-> "link", kind |-> "break",
   area |-> "connection", writerModule |-> FALSE, ids |-> {1}, words |-> words, ts |-> 0]
DockThread ==
  [itemKind |-> "thread", uid |-> "link", threadStatus |-> "active", words |-> {},
   notifications |-> <<Event("e1", "error", {"q"}), Event("e2", "ok", {})>>]
NoMarks == [id \in {"link", "e1", "e2"} |-> {}]
DockStore ==
  [there |-> TRUE, active |-> {"choice"}, group |-> TRUE, polarity |-> "none",
   filter |-> [Chips!EmptyFilter EXCEPT !.choices = {"left", "favorite"}]]
MCOptions ==
  [severity |-> {"ok", "error"}, interaction |-> {"user", "system"},
   localization |-> {"internal", "external"}, status |-> {"active", "resolved"},
   threadStatus |-> {"active", "resolved"}, choice |-> {"favorite", "left", "deleted"}]
MCThreads == {DockThread}
MCOldMarks == {NoMarks, [NoMarks EXCEPT !["link"] = {"isFavorite", "isLeft"}]}
MCOldStores == {DockStore}
MCInstants == {-9, -5, -4, -1, 0, 3, 4}
=============================================================================
