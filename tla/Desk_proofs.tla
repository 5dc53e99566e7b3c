----------------------------- MODULE Desk_proofs -----------------------------
(***************************************************************************)
(* What holds of the screens of the desk for all values of their           *)
(* constants.  The refresh of the ribbons and the connections have proofs  *)
(* of their own, which are cited; the sets, the catalogue, the editor of a *)
(* schedule, the ribbon of a link and the axis with its kept view are      *)
(* proved here, each with its inductive invariant.  A behaviour of the     *)
(* desk in which a screen plays is one of that screen, and in any other    *)
(* its properties claim nothing.                                           *)
(***************************************************************************)
EXTENDS Desk, FiniteSetTheorems, WellFoundedInduction, TLAPS

-----------------------------------------------------------------------------
(* Counting and folding. *)

\* A set of numbers has a least one.
LEMMA LeastOf ==
  ASSUME NEW S \in SUBSET Nat, S # {}
  PROVE  \E k \in S : \A m \in S : k <= m
  <1> DEFINE R == OpToRel(<, Nat)
  <1>1. \A k, m \in Nat : m < k => <<m, k>> \in R
    BY Zenon DEF OpToRel
  <1>2. IsWellFoundedOn(R, Nat)
    BY NatLessThanWellFounded
  <1> HIDE DEF R
  <1>3. PICK k \in S : \A m \in S : ~ (<<m, k>> \in R)
    BY <1>2, WFMin
  <1>4. k \in Nat /\ \A m \in S : m \in Nat /\ ~(m < k)
    BY <1>1, <1>3
  <1> QED
    BY <1>4

\* Counting up from zero.
LEMMA UpTo ==
  ASSUME NEW m \in Nat, NEW S, 0 \in S, \A k \in 0..(m - 1) : k \in S => k + 1 \in S
  PROVE  \A k \in 0..m : k \in S
  <1> DEFINE T == {k \in 0..m : k \notin S}
  <1> SUFFICES ASSUME T # {} PROVE FALSE
    OBVIOUS
  <1>1. T \in SUBSET Nat
    OBVIOUS
  <1>2. PICK k \in T : \A l \in T : k <= l
    BY <1>1, LeastOf
  <1>3. k \in 1..m
    BY <1>2
  <1>4. k - 1 \in 0..(m - 1) /\ (k - 1) + 1 = k /\ ~(k <= k - 1)
    BY <1>3
  <1>5. k - 1 \in S
    BY <1>2, <1>4
  <1> QED
    BY <1>2, <1>4, <1>5

Greatest(S) == CHOOSE x \in S : \A y \in S : x >= y
LEMMA GreatestOf ==
  ASSUME NEW S \in SUBSET Int, NEW k \in S, \A x \in S : x <= k
  PROVE  Greatest(S) = k
  <1>1. \E x \in S : \A y \in S : x >= y
    OBVIOUS
  <1>2. Greatest(S) \in S /\ \A y \in S : Greatest(S) >= y
    BY <1>1 DEF Greatest
  <1>3. \A x \in S : (\A y \in S : x >= y) => x = k
    OBVIOUS
  <1> QED
    BY <1>2, <1>3

\* What is folded: the gaps of an answer, the windows of a day, the time between them.
StepOf(kind, acc, x) ==
  CASE kind = "gap" -> Ribbon!Coalesce(acc, x)
    [] kind = "join" -> Schedule!JoinHalfOpen(acc, x)
    [] kind = "void" -> Schedule!VoidBefore(acc, x)
    [] kind = "pick" -> IF x.taken THEN Append(acc, x.value) ELSE acc
    [] kind = "offset" -> acc + Axis!Dur(x)

\* The values a fold has for the sets of places, and for the places one after the other.
Fold(kind, g, r, seq, k) ==
  g = [s \in SUBSET (1..k) |-> IF s = {} THEN r
                               ELSE StepOf(kind, g[s \ {Greatest(s)}], seq[Greatest(s)])]
Steps(kind, a, r, seq, n) == a[0] = r /\ \A k \in 1..n : a[k] = StepOf(kind, a[k - 1], seq[k])

LEMMA FoldExists ==
  ASSUME NEW kind, NEW m \in Nat, NEW r, NEW seq
  PROVE  \E g : Fold(kind, g, r, seq, m)
  <1> DEFINE S == {k \in 0..m : \E g : Fold(kind, g, r, seq, k)}
  <1>1. 0 \in S
    <2> DEFINE g == [s \in SUBSET (1..0) |-> r]
    <2>1. SUBSET (1..0) = {{}}
      OBVIOUS
    <2>2. Fold(kind, g, r, seq, 0)
      BY <2>1 DEF Fold
    <2> QED
      BY <2>2
  <1>2. \A k \in 0..(m - 1) : k \in S => k + 1 \in S
    <2> SUFFICES ASSUME NEW k \in 0..(m - 1), NEW g, Fold(kind, g, r, seq, k)
                 PROVE  \E h : Fold(kind, h, r, seq, k + 1)
      OBVIOUS
    <2> DEFINE one(h, s) == StepOf(kind, h[s \ {Greatest(s)}], seq[Greatest(s)])
               h == [s \in SUBSET (1..(k + 1)) |->
                      IF k + 1 \in s THEN StepOf(kind, g[s \ {k + 1}], seq[k + 1]) ELSE g[s]]
    <2>1. g = [s \in SUBSET (1..k) |-> IF s = {} THEN r ELSE one(g, s)]
      BY Zenon DEF Fold
    <2>2. 1..(k + 1) = 1..k \cup {k + 1} /\ k + 1 \notin 1..k
      OBVIOUS
    <2>3. \A s \in SUBSET (1..(k + 1)) : h[s] = IF s = {} THEN r ELSE one(h, s)
      <3> TAKE s \in SUBSET (1..(k + 1))
      <3>1. CASE k + 1 \in s
        <4>1. Greatest(s) = k + 1
          <5>1. s \in SUBSET Int /\ \A x \in s : x <= k + 1
            BY <2>2
          <5> QED
            BY <3>1, <5>1, GreatestOf
        <4>2. s \ {k + 1} \in SUBSET (1..(k + 1)) /\ k + 1 \notin s \ {k + 1} /\ s # {}
          BY <3>1
        <4>3. h[s] = StepOf(kind, g[s \ {k + 1}], seq[k + 1]) /\ h[s \ {k + 1}] = g[s \ {k + 1}]
          BY <3>1, <4>2
        <4> HIDE DEF h
        <4> QED
          BY <4>1, <4>2, <4>3, Zenon
      <3>2. CASE k + 1 \notin s
        <4>1. s \in SUBSET (1..k)
          BY <2>2, <3>2
        <4>2. h[s] = g[s]
          BY <3>2
        <4>3. g[s] = IF s = {} THEN r ELSE one(g, s)
          <5> HIDE DEF one
          <5> QED
            BY <2>1, <4>1
        <4>4. s \ {Greatest(s)} \in SUBSET (1..(k + 1)) /\ k + 1 \notin s \ {Greatest(s)}
          BY <3>2
        <4>5. h[s \ {Greatest(s)}] = g[s \ {Greatest(s)}]
          BY <4>4
        <4> HIDE DEF h
        <4>6. one(h, s) = one(g, s)
          BY <4>5
        <4> HIDE DEF one
        <4> QED
          BY <4>2, <4>3, <4>6, Zenon
      <3> QED
        BY <3>1, <3>2
    <2>4. h = [s \in SUBSET (1..(k + 1)) |-> h[s]]
      OBVIOUS
    <2> HIDE DEF h
    <2>5. h = [s \in SUBSET (1..(k + 1)) |-> IF s = {} THEN r ELSE one(h, s)]
      BY <2>3, <2>4, Zenon
    <2>6. Fold(kind, h, r, seq, k + 1)
      BY <2>5, Zenon DEF Fold
    <2> QED
      BY <2>6
  <1> HIDE DEF S
  <1>3. m \in S
    BY <1>1, <1>2, UpTo
  <1> QED
    BY <1>3 DEF S

LEMMA FoldInSteps ==
  ASSUME NEW kind, NEW n \in Nat, NEW r, NEW seq, NEW g, Fold(kind, g, r, seq, n)
  PROVE  \E a : Steps(kind, a, r, seq, n) /\ a[n] = g[1..n]
  <1> DEFINE a == [k \in 0..n |-> g[1..k]]
  <1>1. \A s \in SUBSET (1..n) :
           g[s] = IF s = {} THEN r ELSE StepOf(kind, g[s \ {Greatest(s)}], seq[Greatest(s)])
    BY DEF Fold
  <1>2. a[0] = r
    <2>1. 1..0 = {} /\ {} \in SUBSET (1..n)
      OBVIOUS
    <2>2. g[1..0] = r
      BY <1>1, <2>1, Zenon
    <2> QED
      BY <2>2
  <1>3. \A k \in 1..n : a[k] = StepOf(kind, a[k - 1], seq[k])
    <2> TAKE k \in 1..n
    <2>1. k \in 1..k /\ (1..k) \ {k} = 1..(k - 1) /\ 1..k \in SUBSET (1..n) /\ 1..k # {} /\ k - 1 \in 0..n /\ k \in 0..n
      OBVIOUS
    <2>2. Greatest(1..k) = k
      <3>1. 1..k \in SUBSET Int /\ \A x \in 1..k : x <= k
        OBVIOUS
      <3> QED
        BY <2>1, <3>1, GreatestOf
    <2>3. g[1..k] = StepOf(kind, g[1..(k - 1)], seq[k])
      BY <1>1, <2>1, <2>2, Zenon
    <2> QED
      BY <2>1, <2>3
  <1>4. a[n] = g[1..n]
    OBVIOUS
  <1> HIDE DEF a
  <1> QED
    BY <1>2, <1>3, <1>4 DEF Steps

\* A fold is its last step, be it a recursive function ...
Recursion(kind, f, r, seq, n) ==
  f = [k \in 0..n |-> IF k = 0 THEN r ELSE StepOf(kind, f[k - 1], seq[k])]
LEMMA RecursionInSteps ==
  ASSUME NEW kind, NEW n \in Nat, NEW r, NEW seq
  PROVE  /\ \E f : Recursion(kind, f, r, seq, n)
         /\ \A f : Recursion(kind, f, r, seq, n) => Steps(kind, f, r, seq, n)
  <1>1. PICK a : Steps(kind, a, r, seq, n)
    BY FoldExists, FoldInSteps
  <1> DEFINE g == [k \in 0..n |-> a[k]]
  <1>2. \A k \in 0..n : g[k] = IF k = 0 THEN r ELSE StepOf(kind, g[k - 1], seq[k])
    <2> TAKE k \in 0..n
    <2>1. CASE k = 0
      BY <1>1, <2>1 DEF Steps
    <2>2. CASE k # 0
      <3>1. k \in 1..n /\ k - 1 \in 0..n
        BY <2>2
      <3> QED
        BY <1>1, <2>2, <3>1 DEF Steps
    <2> QED
      BY <2>1, <2>2
  <1>3. g = [k \in 0..n |-> g[k]]
    OBVIOUS
  <1> HIDE DEF g
  <1>4. Recursion(kind, g, r, seq, n)
    BY <1>2, <1>3, Zenon DEF Recursion
  <1>5. ASSUME NEW f, Recursion(kind, f, r, seq, n) PROVE Steps(kind, f, r, seq, n)
    <2>1. f[0] = r
      BY <1>5 DEF Recursion
    <2>2. ASSUME NEW k \in 1..n PROVE f[k] = StepOf(kind, f[k - 1], seq[k])
      <3>1. k \in 0..n /\ k # 0
        OBVIOUS
      <3> QED
        BY <1>5, <3>1 DEF Recursion
    <2> QED
      BY <2>1, <2>2 DEF Steps
  <1> QED
    BY <1>4, <1>5

GapFold(f, raw, n) ==
  f = [k \in 0..n |-> IF k = 0 THEN <<>> ELSE Ribbon!Coalesce(f[k - 1], raw[k])]
LEMMA GapsFold ==
  ASSUME NEW rows, NEW n \in Nat, Len(rows) = n
  PROVE  \E a : Steps("gap", a, <<>>, Ribbon!RawGaps(rows), n) /\ Ribbon!QueryGaps(rows) = a[n]
  <1> DEFINE raw == Ribbon!RawGaps(rows)
             F == CHOOSE f : GapFold(f, raw, n)
  <1>1. Ribbon!QueryGaps(rows) = F[n]
    BY Zenon DEF Ribbon!QueryGaps, GapFold
  <1> HIDE DEF raw
  <1>2. \A f : GapFold(f, raw, n) <=> Recursion("gap", f, <<>>, raw, n)
    <2> TAKE f
    <2> DEFINE one(k) == IF k = 0 THEN <<>> ELSE Ribbon!Coalesce(f[k - 1], raw[k])
               two(k) == IF k = 0 THEN <<>> ELSE StepOf("gap", f[k - 1], raw[k])
    <2>1. \A k : one(k) = two(k)
      BY DEF StepOf
    <2> HIDE DEF one, two
    <2>2. [k \in 0..n |-> one(k)] = [k \in 0..n |-> two(k)]
      BY <2>1, Zenon
    <2> QED
      BY <2>2, Zenon DEF GapFold, Recursion, one, two
  <1>3. GapFold(F, raw, n)
    BY <1>2, RecursionInSteps, Zenon
  <1> HIDE DEF F
  <1> QED
    BY <1>1, <1>2, <1>3, RecursionInSteps DEF raw

\* ... the places picked of a sequence, or where the stretches of an axis begin ...
PickFold(f, seq, places, n) ==
  f = [k \in 0..n |-> IF k = 0 THEN <<>>
                       ELSE IF k \in places THEN Append(f[k - 1], seq[k]) ELSE f[k - 1]]
Picks(a, seq, places, n) ==
  /\ a[0] = <<>>
  /\ \A k \in 1..n : a[k] = IF k \in places THEN Append(a[k - 1], seq[k]) ELSE a[k - 1]
LEMMA PicksFold ==
  ASSUME NEW seq, NEW places, NEW n \in Nat, Len(seq) = n
  PROVE  \E a : Picks(a, seq, places, n) /\ Axis!Picked(seq, places) = a[n]
  <1> DEFINE raw == [k \in 1..n |-> [taken |-> k \in places, value |-> seq[k]]]
             F == CHOOSE f : PickFold(f, seq, places, n)
  <1>1. Axis!Picked(seq, places) = F[n]
    BY Zenon DEF Axis!Picked, PickFold
  <1>2. \A k \in 1..n : raw[k].taken = (k \in places) /\ raw[k].value = seq[k]
    OBVIOUS
  <1> HIDE DEF raw
  <1>3. \A k \in 1..n : \A acc : StepOf("pick", acc, raw[k]) = IF k \in places THEN Append(acc, seq[k]) ELSE acc
    BY <1>2 DEF StepOf
  <1>4. PICK f : Recursion("pick", f, <<>>, raw, n)
    BY RecursionInSteps
  <1>5. \A g : PickFold(g, seq, places, n) <=> Recursion("pick", g, <<>>, raw, n)
    <2> TAKE g
    <2> DEFINE one(k) == IF k = 0 THEN <<>> ELSE IF k \in places THEN Append(g[k - 1], seq[k]) ELSE g[k - 1]
               two(k) == IF k = 0 THEN <<>> ELSE StepOf("pick", g[k - 1], raw[k])
    <2>1. \A k \in 0..n : one(k) = two(k)
      <3> TAKE k \in 0..n
      <3>1. CASE k = 0
        BY <3>1
      <3>2. CASE k # 0
        <4>1. k \in 1..n
          BY <3>2
        <4> QED
          BY <3>2, <4>1, <1>3
      <3> QED
        BY <3>1, <3>2
    <2> HIDE DEF one, two
    <2>2. [k \in 0..n |-> one(k)] = [k \in 0..n |-> two(k)]
      BY <2>1
    <2> QED
      BY <2>2, Zenon DEF PickFold, Recursion, one, two
  <1>6. PickFold(F, seq, places, n)
    BY <1>4, <1>5, Zenon
  <1> HIDE DEF F
  <1>7. Steps("pick", F, <<>>, raw, n)
    BY <1>5, <1>6, RecursionInSteps
  <1>8. F[0] = <<>> /\ \A k \in 1..n : F[k] = IF k \in places THEN Append(F[k - 1], seq[k]) ELSE F[k - 1]
    BY <1>3, <1>7 DEF Steps
  <1> QED
    BY <1>1, <1>8, Zenon DEF Picks

OffsetFold(f, parts, n) ==
  f = [i \in 1..(n + 1) |-> IF i = 1 THEN 0 ELSE f[i - 1] + Axis!Dur(parts[i - 1])]
LEMMA OffsetsFold ==
  ASSUME NEW parts, NEW n \in Nat
  PROVE  LET F == CHOOSE f : OffsetFold(f, parts, n)
         IN  DOMAIN F = 1..(n + 1) /\ F[1] = 0 /\ \A i \in 1..n : F[i + 1] = F[i] + Axis!Dur(parts[i])
  <1> DEFINE F == CHOOSE f : OffsetFold(f, parts, n)
  <1>1. PICK a : Steps("offset", a, 0, parts, n)
    BY FoldExists, FoldInSteps
  <1> DEFINE g == [i \in 1..(n + 1) |-> a[i - 1]]
  <1>2. \A i \in 1..(n + 1) : g[i] = IF i = 1 THEN 0 ELSE g[i - 1] + Axis!Dur(parts[i - 1])
    <2> TAKE i \in 1..(n + 1)
    <2>1. CASE i = 1
      BY <1>1, <2>1 DEF Steps
    <2>2. CASE i # 1
      <3>1. i - 1 \in 1..n /\ i - 1 \in 1..(n + 1)
        BY <2>2
      <3>2. a[i - 1] = a[(i - 1) - 1] + Axis!Dur(parts[i - 1])
        BY <1>1, <3>1 DEF Steps, StepOf
      <3> QED
        BY <2>2, <3>1, <3>2
    <2> QED
      BY <2>1, <2>2
  <1>3. g = [i \in 1..(n + 1) |-> g[i]]
    OBVIOUS
  <1> HIDE DEF g
  <1>4. OffsetFold(g, parts, n)
    BY <1>2, <1>3, Zenon DEF OffsetFold
  <1>5. OffsetFold(F, parts, n)
    BY <1>4, Zenon
  <1> HIDE DEF F
  <1>6. DOMAIN F = 1..(n + 1) /\ \A i \in 1..(n + 1) : F[i] = IF i = 1 THEN 0 ELSE F[i - 1] + Axis!Dur(parts[i - 1])
    BY <1>5 DEF OffsetFold
  <1>7. \A i \in 1..n : i + 1 \in 1..(n + 1) /\ i + 1 # 1 /\ (i + 1) - 1 = i
    OBVIOUS
  <1>8. F[1] = 0 /\ \A i \in 1..n : F[i + 1] = F[i] + Axis!Dur(parts[i])
    BY <1>6, <1>7
  <1> QED
    BY <1>6, <1>8 DEF F

\* ... or one over sets of places.
JoinFold(g, r, seq, k) ==
  g = [s \in SUBSET (1..k) |-> IF s = {} THEN r
                               ELSE Schedule!JoinHalfOpen(g[s \ {Greatest(s)}], seq[Greatest(s)])]
LEMMA JoinsFold ==
  ASSUME NEW r, NEW seq, NEW n \in Nat, DOMAIN seq = 1..n
  PROVE  \E a : Steps("join", a, r, seq, n) /\ Schedule!FoldLeft(Schedule!JoinHalfOpen, r, seq) = a[n]
  <1> DEFINE F == CHOOSE g : JoinFold(g, r, seq, n)
  <1>1. \A g : JoinFold(g, r, seq, n) <=> Fold("join", g, r, seq, n)
    <2>1. \A acc, x : StepOf("join", acc, x) = Schedule!JoinHalfOpen(acc, x)
      BY DEF StepOf
    <2> QED
      BY <2>1, Zenon DEF JoinFold, Fold
  <1>2. JoinFold(F, r, seq, n)
    BY <1>1, FoldExists, Zenon
  <1>3. Schedule!FoldLeft(Schedule!JoinHalfOpen, r, seq) = F[1..n]
    BY Zenon DEF Schedule!FoldLeft, Schedule!MapThenFoldSet, Schedule!Max, JoinFold, Greatest
  <1> HIDE DEF F
  <1> QED
    BY <1>1, <1>2, <1>3, FoldInSteps
VoidFold(g, r, seq, k) ==
  g = [s \in SUBSET (1..k) |-> IF s = {} THEN r
                               ELSE Schedule!VoidBefore(g[s \ {Greatest(s)}], seq[Greatest(s)])]
LEMMA VoidsFold ==
  ASSUME NEW r, NEW seq, NEW n \in Nat, DOMAIN seq = 1..n
  PROVE  \E a : Steps("void", a, r, seq, n) /\ Schedule!FoldLeft(Schedule!VoidBefore, r, seq) = a[n]
  <1> DEFINE F == CHOOSE g : VoidFold(g, r, seq, n)
  <1>1. \A g : VoidFold(g, r, seq, n) <=> Fold("void", g, r, seq, n)
    <2>1. \A acc, x : StepOf("void", acc, x) = Schedule!VoidBefore(acc, x)
      BY DEF StepOf
    <2> QED
      BY <2>1, Zenon DEF VoidFold, Fold
  <1>2. VoidFold(F, r, seq, n)
    BY <1>1, FoldExists, Zenon
  <1>3. Schedule!FoldLeft(Schedule!VoidBefore, r, seq) = F[1..n]
    BY Zenon DEF Schedule!FoldLeft, Schedule!MapThenFoldSet, Schedule!Max, VoidFold, Greatest
  <1> HIDE DEF F
  <1> QED
    BY <1>1, <1>2, <1>3, FoldInSteps

-----------------------------------------------------------------------------
(* The sets of instruments. *)
IsDraft(d) == d = [globs |-> d.globs, secType |-> d.secType, saving |-> d.saving, of |-> d.of]
IsMatch(m) == m = [of |-> m.of, loading |-> m.loading, failed |-> m.failed, asks |-> m.asks]

Heard == /\ ~editor.open => match.asks = {}
         /\ editor.open => match.asks \subseteq {Sets!Rules(basketDraft)}
         /\ editor.open /\ basketDraft.globs = {} => match.asks = {}
PreviewOK == IsMatch(match) /\ Heard /\ Sets!MatchIsOfRules
SetsInv == IsDraft(basketDraft) /\ PreviewOK /\ Sets!FieldsAreOfSet

-----------------------------------------------------------------------------
LEMMA RulesAreFields ==
  ASSUME NEW d, NEW e, Sets!Rules(d) = Sets!Rules(e)
  PROVE  d.globs = e.globs /\ d.secType = e.secType
  <1>1. /\ Sets!Rules(d).globs = d.globs /\ Sets!Rules(e).globs = e.globs
        /\ Sets!Rules(d).secType = d.secType /\ Sets!Rules(e).secType = e.secType
    BY DEF Sets!Rules
  <1> QED
    BY <1>1

\* The effects leave a preview of the fields behind, whatever has changed.
LEMMA EffectsKeep ==
  ASSUME PreviewOK, Sets!Effects
  PROVE  PreviewOK'
  <1>1. CASE ~editor'.open
    <2>1. match' = [match EXCEPT !.asks = {}]
      BY <1>1 DEF Sets!Effects
    <2>2. IsMatch(match') /\ match'.asks = {}
      BY <2>1 DEF PreviewOK, IsMatch
    <2> QED
      BY <1>1, <2>2 DEF PreviewOK, Heard, Sets!MatchIsOfRules
  <1>2. CASE editor'.open /\ (~editor.open \/ Sets!Rules(basketDraft') # Sets!Rules(basketDraft))
    <2>1. match' = Sets!Preview(Sets!Rules(basketDraft'))
      BY <1>2 DEF Sets!Effects
    <2>2. Sets!Rules(basketDraft').globs = basketDraft'.globs
      BY DEF Sets!Rules
    <2>3. CASE basketDraft'.globs = {}
      <3>1. /\ IsMatch(match') /\ match'.asks = {} /\ match'.of = Sets!NoRules
        BY <2>1, <2>2, <2>3 DEF Sets!Preview, IsMatch
      <3> QED
        BY <1>2, <2>3, <3>1 DEF PreviewOK, Heard, Sets!MatchIsOfRules
    <2>4. CASE basketDraft'.globs # {}
      <3>1. IsMatch(match') /\ match'.asks = {Sets!Rules(basketDraft')} /\ match'.loading = TRUE
        BY <2>1, <2>2, <2>4 DEF Sets!Preview, IsMatch
      <3> QED
        BY <1>2, <2>4, <3>1 DEF PreviewOK, Heard, Sets!MatchIsOfRules
    <2> QED
      BY <2>3, <2>4
  <1>3. CASE editor'.open /\ editor.open /\ Sets!Rules(basketDraft') = Sets!Rules(basketDraft)
    <2>1. match' = match
      BY <1>3 DEF Sets!Effects
    <2>2. basketDraft'.globs = basketDraft.globs
      BY <1>3, RulesAreFields
    <2> QED
      BY <1>3, <2>1, <2>2 DEF PreviewOK, Heard, Sets!MatchIsOfRules
  <1> QED
    BY <1>1, <1>2, <1>3

\* A step that leaves editor, fields, preview and list alone only has to watch its requests.
LEMMA SetStands ==
  ASSUME SetsInv, UNCHANGED <<baskets, editor, basketDraft, match>>,
         \A c \in calls' \ calls : c.kind = "save" => c.from = c.id
  PROVE  SetsInv'
  BY DEF SetsInv, PreviewOK, Heard, Sets!MatchIsOfRules, Sets!FieldsAreOfSet

LEMMA SavingKeeps ==
  ASSUME SetsInv, NEW b
  PROVE  LET d == [basketDraft EXCEPT !.saving = b]
         IN  IsDraft(d) /\ Sets!Rules(d) = Sets!Rules(basketDraft) /\ d.globs = basketDraft.globs /\ d.of = basketDraft.of
  BY DEF SetsInv, IsDraft, Sets!Rules

\* What is read is of the set it is read from.
LEMMA FieldsRead ==
  ASSUME NEW e, NEW rows
  PROVE  IsDraft(Sets!ReadFields(e, rows)) /\ Sets!ReadFields(e, rows).of = Sets!Editing(e, rows)
  BY DEF Sets!ReadFields, IsDraft

-----------------------------------------------------------------------------
LEMMA SetListsKeep ==
  ASSUME SetsInv, Sets!ShowBaskets \/ Sets!SetBasketEnabledSelection \/ Sets!LoadMoreAvailable \/ Sets!PatchAnswered
               \/ Sets!AvailableAnswered \/ Sets!OtherClient
  PROVE  SetsInv'
  <1>1. UNCHANGED <<baskets, editor, basketDraft, match>>
    BY DEF Sets!ShowBaskets, Sets!SetBasketEnabledSelection, Sets!LoadMoreAvailable, Sets!PatchAnswered, Sets!AvailableAnswered, Sets!OtherClient
  <1>2. \A c \in calls' \ calls : c.kind # "save"
    <2>1. Sets!ListCall(sets).kind = "list" /\ Sets!ListCall(sets').kind = "list"
      BY DEF Sets!ListCall
    <2>2. CASE Sets!ShowBaskets
      BY <2>1, <2>2 DEF Sets!ShowBaskets, Sets!RefreshBaskets
    <2>3. CASE Sets!SetBasketEnabledSelection
      <3>1. PICK b, on : calls' = calls \cup {[kind |-> "patch", id |-> b, on |-> on]}
        BY <2>3 DEF Sets!SetBasketEnabledSelection
      <3>2. [kind |-> "patch", id |-> b, on |-> on].kind = "patch"
        OBVIOUS
      <3> QED
        BY <3>1, <3>2
    <2>4. CASE Sets!PatchAnswered
      BY <2>1, <2>4 DEF Sets!PatchAnswered, Sets!RefreshBaskets
    <2>5. CASE Sets!LoadMoreAvailable \/ Sets!AvailableAnswered \/ Sets!OtherClient
      BY <2>5 DEF Sets!LoadMoreAvailable, Sets!AvailableAnswered, Sets!OtherClient
    <2> QED
      BY <2>2, <2>3, <2>4, <2>5
  <1> QED
    BY <1>1, <1>2, SetStands

LEMMA OpenEditorKeeps == ASSUME SetsInv, Sets!OpenEditor PROVE SetsInv'
  <1>1. basketDraft' = Sets!ReadFields(editor', baskets) /\ Sets!Effects /\ UNCHANGED <<sets, baskets, calls>>
    BY DEF Sets!OpenEditor
  <1>2. IsDraft(basketDraft') /\ basketDraft'.of = Sets!Editing(editor', baskets)
    BY <1>1, FieldsRead
  <1>3. PreviewOK'
    BY <1>1, EffectsKeep DEF SetsInv
  <1> QED
    BY <1>1, <1>2, <1>3 DEF SetsInv, Sets!FieldsAreOfSet

LEMMA CloseEditorKeeps == ASSUME SetsInv, Sets!CloseEditor PROVE SetsInv'
  <1>1. PreviewOK'
    BY EffectsKeep DEF SetsInv, Sets!CloseEditor
  <1> QED
    BY <1>1 DEF Sets!CloseEditor, Sets!Closed, SetsInv, Sets!FieldsAreOfSet

LEMMA EditKeeps == ASSUME SetsInv, Sets!EditRules \/ Sets!AddInstrumentPattern PROVE SetsInv'
  <1>1. Sets!Effects /\ UNCHANGED <<sets, baskets, editor, calls>>
    BY DEF Sets!EditRules, Sets!AddInstrumentPattern
  <1>2. (\E g : basketDraft' = [basketDraft EXCEPT !.globs = g]) \/ (\E type : basketDraft' = [basketDraft EXCEPT !.secType = type])
    BY DEF Sets!EditRules, Sets!AddInstrumentPattern
  <1>3. IsDraft(basketDraft') /\ basketDraft'.of = basketDraft.of
    BY <1>2 DEF SetsInv, IsDraft
  <1>4. PreviewOK'
    BY <1>1, EffectsKeep DEF SetsInv
  <1> QED
    BY <1>1, <1>3, <1>4 DEF SetsInv, Sets!FieldsAreOfSet

\* What is sent is of the set it is sent to.
LEMMA SaveKeeps == ASSUME SetsInv, Sets!Save \/ Sets!DoDelete PROVE SetsInv'
  <1>1. editor.open /\ basketDraft' = [basketDraft EXCEPT !.saving = TRUE] /\ UNCHANGED <<sets, baskets, editor, match>>
    BY DEF Sets!Save, Sets!DoDelete
  <1>2. IsDraft(basketDraft') /\ Sets!Rules(basketDraft') = Sets!Rules(basketDraft) /\ basketDraft'.globs = basketDraft.globs /\ basketDraft'.of = basketDraft.of
    BY <1>1, SavingKeeps
  <1>3. \A c \in calls' \ calls : c.kind = "save" => c.from = c.id
    <2>1. CASE Sets!Save
      <3> DEFINE id == Sets!Editing(editor, baskets)
                 sent == [kind |-> "save", id |-> id, rules |-> Sets!Rules(basketDraft), from |-> basketDraft.of,
                          enabled |-> IF id = Sets!New THEN TRUE ELSE baskets[id].enabled]
      <3>1. calls' = calls \cup {sent}
        BY <2>1 DEF Sets!Save
      <3>2. sent.from = basketDraft.of /\ sent.id = id
        OBVIOUS
      <3>3. basketDraft.of = id
        BY <1>1 DEF SetsInv, Sets!FieldsAreOfSet
      <3> HIDE DEF sent
      <3> QED
        BY <3>1, <3>2, <3>3
    <2>2. CASE Sets!DoDelete
      <3> DEFINE sent == [kind |-> "delete", id |-> Sets!Editing(editor, baskets)]
      <3>1. calls' = calls \cup {sent}
        BY <2>2 DEF Sets!DoDelete
      <3>2. sent.kind # "save"
        OBVIOUS
      <3> HIDE DEF sent
      <3> QED
        BY <3>1, <3>2
    <2> QED
      BY <2>1, <2>2
  <1>4. PreviewOK'
    BY <1>1, <1>2 DEF SetsInv, PreviewOK, Heard, Sets!MatchIsOfRules
  <1> QED
    BY <1>1, <1>2, <1>3, <1>4 DEF SetsInv, Sets!FieldsAreOfSet

\* A list that changes the edited set, or takes it away, is read into the fields.
LEMMA ListAnsweredKeeps == ASSUME SetsInv, Sets!ListAnswered PROVE SetsInv'
  <1>1. PICK c \in calls :
          /\ baskets' = c.rows
          /\ calls' = calls \ {c}
          /\ basketDraft' = Sets!ReadAgain(editor, c.rows)
          /\ UNCHANGED editor
          /\ Sets!Effects
    BY DEF Sets!ListAnswered
  <1>2. PreviewOK'
    BY <1>1, EffectsKeep DEF SetsInv
  <1>3. IsDraft(basketDraft') /\ (editor.open => basketDraft'.of = Sets!Editing(editor, c.rows))
    <2>1. CASE ~editor.open \/ {Sets!Editing(editor, baskets), Sets!Editing(editor, c.rows)} = {Sets!New}
      BY <1>1, <2>1 DEF Sets!ReadAgain, SetsInv, Sets!FieldsAreOfSet
    <2>2. CASE ~(~editor.open \/ {Sets!Editing(editor, baskets), Sets!Editing(editor, c.rows)} = {Sets!New})
      BY <1>1, <2>2, FieldsRead DEF Sets!ReadAgain
    <2> QED
      BY <2>1, <2>2
  <1> QED
    BY <1>1, <1>2, <1>3 DEF SetsInv, Sets!FieldsAreOfSet

LEMMA SaveAnsweredKeeps == ASSUME SetsInv, Sets!SaveAnswered PROVE SetsInv'
  <1>1. PICK c \in calls :
          /\ calls' = (calls \ {c}) \cup {Sets!ListCall(sets')}
          /\ basketDraft' = [basketDraft EXCEPT !.saving = FALSE]
          /\ editor' = Sets!Closed
          /\ UNCHANGED baskets
          /\ Sets!Effects
    BY DEF Sets!SaveAnswered, Sets!RefreshBaskets
  <1>2. PreviewOK'
    BY <1>1, EffectsKeep DEF SetsInv
  <1>3. IsDraft(basketDraft') /\ ~editor'.open
    BY <1>1, SavingKeeps DEF Sets!Closed
  <1>4. Sets!ListCall(sets').kind = "list"
    BY DEF Sets!ListCall
  <1> QED
    BY <1>1, <1>2, <1>3, <1>4 DEF SetsInv, Sets!FieldsAreOfSet

LEMMA CallFailedKeeps == ASSUME SetsInv, Sets!CallFailed PROVE SetsInv'
  <1>1. UNCHANGED <<baskets, editor, match>> /\ calls' \subseteq calls
        /\ (basketDraft' = basketDraft \/ basketDraft' = [basketDraft EXCEPT !.saving = FALSE])
    BY DEF Sets!CallFailed
  <1>2. IsDraft(basketDraft') /\ Sets!Rules(basketDraft') = Sets!Rules(basketDraft) /\ basketDraft'.globs = basketDraft.globs /\ basketDraft'.of = basketDraft.of
    BY <1>1, SavingKeeps DEF SetsInv
  <1>3. PreviewOK'
    BY <1>1, <1>2 DEF SetsInv, PreviewOK, Heard, Sets!MatchIsOfRules
  <1> QED
    BY <1>1, <1>2, <1>3 DEF SetsInv, Sets!FieldsAreOfSet

LEMMA PreviewAnsweredKeeps == ASSUME SetsInv, Sets!PreviewAnswered PROVE SetsInv'
  <1>1. PICK r \in match.asks :
          \/ match' = [of |-> r, loading |-> FALSE, failed |-> FALSE, asks |-> match.asks \ {r}]
          \/ match' = [of |-> Sets!NoRules, loading |-> FALSE, failed |-> TRUE, asks |-> match.asks \ {r}]
    BY DEF Sets!PreviewAnswered
  <1>2. UNCHANGED <<sets, baskets, editor, basketDraft, calls>>
    BY DEF Sets!PreviewAnswered
  <1>3. editor.open /\ r = Sets!Rules(basketDraft) /\ basketDraft.globs # {}
    BY DEF SetsInv, PreviewOK, Heard
  <1>4. /\ IsMatch(match') /\ match'.asks = match.asks \ {r}
        /\ match'.of = r \/ match'.failed = TRUE
    BY <1>1 DEF IsMatch
  <1>5. PreviewOK'
    BY <1>2, <1>3, <1>4 DEF SetsInv, PreviewOK, Heard, Sets!MatchIsOfRules
  <1> QED
    BY <1>2, <1>5 DEF SetsInv, Sets!FieldsAreOfSet

-----------------------------------------------------------------------------
\* For all instruments, sets and budgets: the fields, the preview and the requests still
\* listened to belong to the set that is edited.
THEOREM EditorInvariant == Sets!Spec => []SetsInv
  <1>1. Sets!Init => SetsInv
    BY DEF Sets!Init, SetsInv, IsDraft, PreviewOK, IsMatch, Heard, Sets!MatchIsOfRules, Sets!FieldsAreOfSet, Sets!Closed, Sets!ListCall
  <1>2. SetsInv /\ [Sets!Next]_(Sets!basketVars) => SetsInv'
    <2> SUFFICES ASSUME SetsInv, [Sets!Next]_(Sets!basketVars) PROVE SetsInv'
      OBVIOUS
    <2>1. CASE Sets!ShowBaskets \/ Sets!SetBasketEnabledSelection \/ Sets!LoadMoreAvailable \/ Sets!PatchAnswered
               \/ Sets!AvailableAnswered \/ Sets!OtherClient
      BY <2>1, SetListsKeep
    <2>2. CASE Sets!OpenEditor \/ Sets!CloseEditor \/ Sets!EditRules \/ Sets!AddInstrumentPattern
      BY <2>2, OpenEditorKeeps, CloseEditorKeeps, EditKeeps
    <2>3. CASE Sets!Save \/ Sets!DoDelete \/ Sets!SaveAnswered \/ Sets!CallFailed
      BY <2>3, SaveKeeps, SaveAnsweredKeeps, CallFailedKeeps
    <2>4. CASE Sets!ListAnswered \/ Sets!PreviewAnswered
      BY <2>4, ListAnsweredKeeps, PreviewAnsweredKeeps
    <2>5. CASE UNCHANGED Sets!basketVars
      BY <2>5, SetStands DEF Sets!basketVars
    <2> QED
      BY <2>1, <2>2, <2>3, <2>4, <2>5 DEF Sets!Next
  <1> QED
    BY <1>1, <1>2, PTL DEF Sets!Spec

\* The preview and the fields are of the set the editor shows, and no fields of one set
\* are written over another (BasketEditorModal and the baskets of OhsStore), in whatever
\* order lists, previews and saves are answered.
THEOREM EditorBelongsToSet == Sets!Spec => []Sets!EditorIsTrue
  <1>1. SetsInv => Sets!EditorIsTrue
    BY DEF SetsInv, PreviewOK, Sets!EditorIsTrue
  <1> QED
    BY <1>1, EditorInvariant, PTL

-----------------------------------------------------------------------------
(* The catalogue of instruments. *)

\* A request that holds the key of its series, and one that reads the children of a node.
Runs(r) == r.kind \in {"strikes", "bulk"} /\ (r.kind = "strikes" => r.why \notin {"open", "star"})
Reads(r, n) == (r.kind = "series" \/ (r.kind = "strikes" /\ r.why = "open")) /\ r.of = n
Known(r) == /\ r.kind = "strikes" => r.why \in {"open", "star", "start", "stop", "auto"}
            /\ r.kind = "series" => r.of = Tree!Future

IsQuery(q) == q = [category |-> q.category, recording |-> q.recording, ids |-> q.ids,
                   ancestors |-> q.ancestors, page |-> q.page]
Served == \A n \in open : n \in loaded \cup treeMissed \/ \E r \in treeAsks : Reads(r, n)
Keyed ==
  /\ \A r \in treeAsks : Known(r)
  /\ \A s \in Tree!Series : s \in busy => \E r \in treeAsks : Runs(r) /\ r.of = s
  /\ \A s \in Tree!Series : \A r \in treeAsks :
       Runs(r) /\ r.of = s => s \in busy /\ \A p \in treeAsks : Runs(p) /\ p.of = s => p = r
StoredOK ==
  /\ treeStored.category => "instruments" \in treeStored.chips
  /\ treeStored.recording \/ treeStored.selected => "selection" \in treeStored.chips
QueryOK == IsQuery(query) /\ Tree!QueryIsOfChips
TreeInv == Served /\ Keyed /\ QueryOK /\ StoredOK

-----------------------------------------------------------------------------
LEMMA ShapeOfAsks ==
  ASSUME NEW s, NEW why
  PROVE  /\ Tree!Strikes(s, why).kind = "strikes" /\ Tree!Strikes(s, why).why = why /\ Tree!Strikes(s, why).of = s
         /\ Tree!Bulk(s, why).kind = "bulk" /\ Tree!Bulk(s, why).of = s
         /\ Tree!LoadSeries.kind = "series" /\ Tree!LoadSeries.of = Tree!Future
  BY DEF Tree!Strikes, Tree!Bulk, Tree!LoadSeries

LEMMA ShapeOfReads ==
  ASSUME NEW why, NEW t
  PROVE  /\ Tree!Recordings.kind = "recordings" /\ [Tree!Recordings EXCEPT !.seen = t].kind = "recordings"
         /\ \A r \in Tree!ReadAgain(why, t) : r.kind = "recordings"
  BY DEF Tree!Recordings, Tree!ReadAgain

\* What is asked for when nodes open reads those that are not there and holds no key.
LEMMA LoadOpenReads ==
  ASSUME NEW N, NEW H
  PROVE  /\ \A r \in Tree!LoadOpen(N, H) : ~Runs(r) /\ Known(r)
         /\ \A n \in N \ H : \E r \in Tree!LoadOpen(N, H) : Reads(r, n)
         /\ \A r \in Tree!LoadFuture(N, H) : ~Runs(r) /\ Known(r)
  <1>1. \A s : Reads(Tree!Strikes(s, "open"), s) /\ ~Runs(Tree!Strikes(s, "open")) /\ Known(Tree!Strikes(s, "open"))
    BY ShapeOfAsks DEF Reads, Runs, Known
  <1>2. Reads(Tree!LoadSeries, Tree!Future) /\ ~Runs(Tree!LoadSeries) /\ Known(Tree!LoadSeries)
    BY ShapeOfAsks DEF Reads, Runs, Known
  <1>3. \A r \in Tree!LoadFuture(N, H) : r = Tree!LoadSeries
    BY DEF Tree!LoadFuture
  <1>4. \A r \in Tree!LoadOpen(N, H) : r = Tree!LoadSeries \/ \E s : r = Tree!Strikes(s, "open")
    BY <1>3 DEF Tree!LoadOpen
  <1>5. \A n \in N \ H : \E r \in Tree!LoadOpen(N, H) : Reads(r, n)
    <2> SUFFICES ASSUME NEW n \in N \ H PROVE \E r \in Tree!LoadOpen(N, H) : Reads(r, n)
      OBVIOUS
    <2>1. CASE n = Tree!Future
      <3>1. Tree!LoadSeries \in Tree!LoadOpen(N, H)
        BY <2>1 DEF Tree!LoadOpen, Tree!LoadFuture
      <3> QED
        BY <2>1, <3>1, <1>2
    <2>2. CASE n # Tree!Future
      <3>1. Tree!Strikes(n, "open") \in Tree!LoadOpen(N, H)
        BY <2>2 DEF Tree!LoadOpen
      <3> QED
        BY <3>1, <1>1
    <2> QED
      BY <2>1, <2>2
  <1> QED
    BY <1>1, <1>2, <1>3, <1>4, <1>5

\* How the keys of the series may change hands.
LEMMA KeysRest ==
  ASSUME Keyed, busy' = busy,
         \A r \in treeAsks' \ treeAsks : ~Runs(r) /\ Known(r),
         \A r \in treeAsks \ treeAsks' : ~Runs(r)
  PROVE  Keyed'
  BY DEF Keyed

LEMMA KeyTaken ==
  ASSUME Keyed, NEW s \in Tree!Series, NEW r, s \notin busy, busy' = busy \cup {s}, treeAsks' = treeAsks \cup {r},
         Runs(r), r.of = s, Known(r)
  PROVE  Keyed'
  BY DEF Keyed

LEMMA KeyPassedOn ==
  ASSUME Keyed, NEW r \in treeAsks, NEW p, busy' = busy, treeAsks' = (treeAsks \ {r}) \cup {p},
         Runs(r), Runs(p), p.of = r.of, Known(p)
  PROVE  Keyed'
  BY DEF Keyed

LEMMA KeyFreed ==
  ASSUME Keyed, NEW r \in treeAsks, NEW others, busy' = busy \ {r.of}, treeAsks' = (treeAsks \ {r}) \cup others,
         Runs(r), \A p \in others : p.kind = "recordings"
  PROVE  Keyed'
  <1>1. \A p \in others : ~Runs(p) /\ Known(p)
    BY DEF Runs, Known
  <1> QED
    BY <1>1 DEF Keyed

\* Nodes stay served while no request for a node that is not there is dropped.
LEMMA ServedStays ==
  ASSUME Served, open' \subseteq open, loaded \cup treeMissed \subseteq loaded' \cup treeMissed',
         \A r \in treeAsks \ treeAsks' : \A n : Reads(r, n) => n \in loaded' \cup treeMissed'
  PROVE  Served'
  BY DEF Served

LEMMA NewFilter ==
  ASSUME NEW q, Tree!SetInstrumentFilter(q), IsQuery(q)
  PROVE  /\ IsQuery(query') /\ query'.category = q.category /\ query'.recording = q.recording
         /\ query'.ids = q.ids /\ query'.ancestors = q.ancestors
         /\ open' = {}
  BY DEF Tree!SetInstrumentFilter, IsQuery

LEMMA StarsKeep ==
  ASSUME QueryOK, NEW ids, Tree!Stars(ids), chips' = chips, scope' = scope
  PROVE  QueryOK' /\ open' \subseteq open
  <1>1. selected' = ids
    BY DEF Tree!Stars
  <1>2. CASE query.ids = Tree!NoIds
    BY <1>1, <1>2 DEF Tree!Stars, QueryOK, Tree!QueryIsOfChips, Tree!HasSelection
  <1>3. CASE query.ids # Tree!NoIds
    <2> DEFINE q == [query EXCEPT !.ids = ids]
    <2>1. IsQuery(q) /\ q.category = query.category /\ q.recording = query.recording /\ q.ids = ids
          /\ q.ancestors = query.ancestors
      BY DEF QueryOK, IsQuery
    <2>2. Tree!SetInstrumentFilter(q)
      BY <1>3 DEF Tree!Stars
    <2> HIDE DEF q
    <2> QED
      BY <1>1, <1>3, <2>1, <2>2, NewFilter DEF QueryOK, Tree!QueryIsOfChips, Tree!HasSelection
  <1> QED
    BY <1>2, <1>3

LEMMA TreePersisted ==
  ASSUME QueryOK', Tree!PersistView
  PROVE  StoredOK'
  BY DEF QueryOK, Tree!QueryIsOfChips, Tree!HasSelection, Tree!PersistView, Tree!View, StoredOK

-----------------------------------------------------------------------------
LEMMA EditQueryKeeps == ASSUME TreeInv, Tree!EditQuery PROVE TreeInv'
  <1>1. UNCHANGED <<loaded, treeMissed, treeAsks, busy>> /\ Tree!PersistView
    BY DEF Tree!EditQuery, Tree!series
  <1>2. QueryOK' /\ open' \subseteq open
    <2> USE DEF TreeInv, QueryOK, Tree!QueryIsOfChips, Tree!HasSelection
    <2>1. CASE Tree!SetCategory
      <3>1. PICK on \in BOOLEAN : Tree!SetInstrumentFilter([query EXCEPT !.category = on])
        BY <2>1 DEF Tree!SetCategory
      <3> DEFINE q == [query EXCEPT !.category = on]
      <3>2. IsQuery(q) /\ q.recording = query.recording /\ q.ids = query.ids /\ q.ancestors = query.ancestors
        BY DEF IsQuery
      <3> HIDE DEF q
      <3> QED
        BY <2>1, <3>1, <3>2, NewFilter DEF Tree!SetCategory, q
    <2>2. CASE Tree!SetSelectionConditions
      <3>1. PICK rec \in BOOLEAN, stars \in BOOLEAN :
              Tree!SetInstrumentFilter([query EXCEPT !.recording = rec, !.ids = IF stars THEN selected ELSE Tree!NoIds,
                                                !.ancestors = scope # "base"])
        BY <2>2 DEF Tree!SetSelectionConditions
      <3> DEFINE ids == IF stars THEN selected ELSE Tree!NoIds
                 along == (scope # "base")
                 q1 == [query EXCEPT !.recording = rec]
                 q2 == [q1 EXCEPT !.ids = ids]
                 q == [q2 EXCEPT !.ancestors = along]
      <3> HIDE DEF ids, along
      <3>2. IsQuery(q) /\ q.category = query.category /\ q.ids = ids /\ q.ancestors = along
        <4>1. IsQuery(q1) /\ q1.category = query.category
          BY DEF IsQuery
        <4> HIDE DEF q1
        <4>2. IsQuery(q2) /\ q2.category = query.category /\ q2.ids = ids
          BY <4>1 DEF IsQuery
        <4> HIDE DEF q2
        <4> QED
          BY <4>2 DEF IsQuery
      <3>3. Tree!SetInstrumentFilter(q)
        BY <3>1 DEF ids, along
      <3>4. ids \in {Tree!NoIds, selected} /\ along = (scope # "base")
        BY DEF ids, along
      <3> HIDE DEF q
      <3> QED
        BY <2>2, <3>2, <3>3, <3>4, NewFilter DEF Tree!SetSelectionConditions
    <2>3. CASE Tree!SetSelectionScope
      <3> DEFINE q == [query EXCEPT !.ancestors = scope' # "base"]
      <3>2. IsQuery(q) /\ q.category = query.category /\ q.recording = query.recording /\ q.ids = query.ids
            /\ q.ancestors = (scope' # "base")
        BY DEF IsQuery
      <3>3. Tree!SetInstrumentFilter(q)
        BY <2>3 DEF Tree!SetSelectionScope
      <3> HIDE DEF q
      <3> QED
        BY <2>3, <3>2, <3>3, NewFilter DEF Tree!SetSelectionScope
    <2>4. CASE Tree!AddFilter
      BY <2>4 DEF Tree!AddFilter
    <2>5. CASE Tree!RemoveFilter
      <3>1. PICK key \in chips :
              /\ chips' = chips \ {key}
              /\ IF key = "baskets" THEN UNCHANGED <<query, fetching, open>>
                 ELSE Tree!SetInstrumentFilter(Tree!ClearedFieldsFor(key))
        BY <2>5 DEF Tree!RemoveFilter
      <3>2. CASE key = "baskets"
        BY <2>5, <3>1, <3>2 DEF Tree!RemoveFilter
      <3>3. CASE key = "instruments"
        <4> DEFINE q == Tree!ClearedFieldsFor(key)
        <4>1. IsQuery(q) /\ q.category = FALSE /\ q.recording = query.recording /\ q.ids = query.ids
              /\ q.ancestors = query.ancestors
          BY <3>3 DEF IsQuery, Tree!ClearedFieldsFor
        <4>2. Tree!SetInstrumentFilter(q)
          BY <3>1, <3>3
        <4> HIDE DEF q
        <4> QED
          BY <2>5, <3>1, <3>3, <4>1, <4>2, NewFilter DEF Tree!RemoveFilter
      <3>4. CASE key \notin {"baskets", "instruments"}
        <4> DEFINE q == Tree!ClearedFieldsFor(key)
        <4>1. IsQuery(q) /\ q.category = query.category /\ q.recording = FALSE /\ q.ids = Tree!NoIds
          BY <3>4 DEF IsQuery, Tree!ClearedFieldsFor
        <4>2. Tree!SetInstrumentFilter(q)
          BY <3>1, <3>4
        <4> HIDE DEF q
        <4> QED
          BY <2>5, <3>1, <3>4, <4>1, <4>2, NewFilter DEF Tree!RemoveFilter
      <3> QED
        BY <3>2, <3>3, <3>4
    <2>6. CASE Tree!ClearFilters
      <3>1. /\ IsQuery(Tree!NoQuery) /\ Tree!NoQuery.category = FALSE /\ Tree!NoQuery.recording = FALSE
            /\ Tree!NoQuery.ids = Tree!NoIds
        BY DEF IsQuery, Tree!NoQuery
      <3>2. Tree!SetInstrumentFilter(Tree!NoQuery) /\ selected' = selected
        BY <2>6 DEF Tree!ClearFilters
      <3>3. /\ IsQuery(query') /\ query'.category = FALSE /\ query'.recording = FALSE
            /\ query'.ids = Tree!NoIds /\ open' = {}
        BY <3>1, <3>2, NewFilter
      <3> QED
        BY <3>2, <3>3
    <2>7. CASE Tree!SetBasketEnabledSelection
      BY <2>7 DEF Tree!SetBasketEnabledSelection
    <2>8. CASE Tree!LoadMoreInstruments
      <3>1. query' = [query EXCEPT !.page = 1]
        BY <2>8 DEF Tree!LoadMoreInstruments
      <3>2. IsQuery(query') /\ query'.category = query.category /\ query'.recording = query.recording
            /\ query'.ids = query.ids /\ query'.ancestors = query.ancestors
        BY <3>1 DEF IsQuery
      <3> QED
        BY <2>8, <3>2 DEF Tree!LoadMoreInstruments
    <2>9. CASE Tree!ToggleInstrumentSelection
      <3>1. (\E ids : Tree!Stars(ids)) /\ UNCHANGED <<chips, scope>>
        BY <2>9 DEF Tree!ToggleInstrumentSelection
      <3> QED
        BY <3>1, StarsKeep
    <2> QED
      BY <2>1, <2>2, <2>3, <2>4, <2>5, <2>6, <2>7, <2>8, <2>9 DEF Tree!EditQuery
  <1>3. Served' /\ Keyed'
    BY <1>1, <1>2, ServedStays, KeysRest DEF TreeInv
  <1> QED
    BY <1>1, <1>2, <1>3, TreePersisted DEF TreeInv

LEMMA TreeListKeeps == ASSUME TreeInv, Tree!ListAnswered \/ Tree!ListFailed PROVE TreeInv'
  <1>1. UNCHANGED <<chips, query, scope, selected, open, loaded, treeMissed, busy, treeStored>>
    BY DEF Tree!ListAnswered, Tree!ListFailed, Tree!nodes, Tree!series
  <1>2. treeAsks \subseteq treeAsks' /\ \A r \in treeAsks' \ treeAsks : ~Runs(r) /\ Known(r)
    <2>1. [kind |-> "spine", of |-> Tree!Matching].kind = "spine"
      OBVIOUS
    <2> DEFINE spine == [kind |-> "spine", of |-> Tree!Matching]
    <2>2. treeAsks' = treeAsks \/ treeAsks' = treeAsks \cup {spine}
      BY DEF Tree!ListAnswered, Tree!ListFailed
    <2> HIDE DEF spine
    <2>3. spine.kind = "spine"
      BY DEF spine
    <2> QED
      BY <2>2, <2>3 DEF Runs, Known
  <1>3. Served' /\ Keyed'
    BY <1>1, <1>2, ServedStays, KeysRest DEF TreeInv
  <1> QED
    BY <1>1, <1>3 DEF TreeInv, QueryOK, Tree!QueryIsOfChips, Tree!HasSelection, StoredOK

LEMMA SpineKeeps == ASSUME TreeInv, Tree!ExpandSelectedSpine PROVE TreeInv'
  <1>1. PICK r \in treeAsks :
          /\ r.kind = "spine"
          /\ open \subseteq open'
          /\ treeAsks' = (treeAsks \ {r}) \cup Tree!LoadOpen(open' \ open, loaded) \cup Tree!LoadFuture(open', loaded)
          /\ UNCHANGED <<chips, query, scope, selected, loaded, treeMissed, busy>>
          /\ Tree!PersistView
    BY DEF Tree!ExpandSelectedSpine, Tree!lists, Tree!series
  <1>2. ~Runs(r) /\ \A n : ~Reads(r, n)
    BY <1>1 DEF Runs, Reads
  <1>3. Keyed'
    BY <1>1, <1>2, LoadOpenReads, KeysRest DEF TreeInv
  <1>4. Served'
    <2> SUFFICES ASSUME NEW n \in open' PROVE n \in loaded \cup treeMissed \/ \E p \in treeAsks' : Reads(p, n)
      BY <1>1 DEF Served
    <2>1. CASE n \in open
      BY <1>1, <1>2, <2>1 DEF TreeInv, Served
    <2>2. CASE n \notin open
      BY <1>1, <2>2, LoadOpenReads
    <2> QED
      BY <2>1, <2>2
  <1>5. QueryOK'
    BY <1>1 DEF TreeInv, QueryOK, Tree!QueryIsOfChips, Tree!HasSelection
  <1> QED
    BY <1>1, <1>3, <1>4, <1>5, TreePersisted DEF TreeInv

LEMMA ToggleNodeKeeps == ASSUME TreeInv, Tree!ToggleNode PROVE TreeInv'
  <1>1. /\ treeAsks' = treeAsks \cup Tree!LoadOpen(open' \ open, loaded)
        /\ UNCHANGED <<chips, query, scope, selected, loaded, treeMissed, busy>>
        /\ Tree!PersistView
    BY DEF Tree!ToggleNode, Tree!lists, Tree!series
  <1>2. Keyed'
    BY <1>1, LoadOpenReads, KeysRest DEF TreeInv
  <1>3. Served'
    <2> SUFFICES ASSUME NEW n \in open' PROVE n \in loaded \cup treeMissed \/ \E p \in treeAsks' : Reads(p, n)
      BY <1>1 DEF Served
    <2>1. CASE n \in open
      BY <1>1, <2>1 DEF TreeInv, Served
    <2>2. CASE n \notin open
      BY <1>1, <2>2, LoadOpenReads
    <2> QED
      BY <2>1, <2>2
  <1>4. QueryOK'
    BY <1>1 DEF TreeInv, QueryOK, Tree!QueryIsOfChips, Tree!HasSelection
  <1> QED
    BY <1>1, <1>2, <1>3, <1>4, TreePersisted DEF TreeInv

LEMMA SeriesAnsweredKeeps == ASSUME TreeInv, Tree!SeriesAnswered PROVE TreeInv'
  <1>1. PICK r \in treeAsks :
          /\ r.kind = "series"
          /\ loaded' = loaded \cup {Tree!Future} /\ treeMissed' = treeMissed \ {Tree!Future}
          /\ treeAsks' = treeAsks \ {r}
          /\ UNCHANGED <<chips, query, scope, selected, open, busy, treeStored>>
    BY DEF Tree!SeriesAnswered, Tree!lists, Tree!series
  <1>2. ~Runs(r) /\ (\A n : Reads(r, n) => n = Tree!Future)
    BY <1>1 DEF Runs, Reads, TreeInv, Keyed, Known
  <1>3. Keyed'
    BY <1>1, <1>2, KeysRest DEF TreeInv
  <1>4. Served'
    BY <1>1, <1>2, ServedStays DEF TreeInv
  <1>5. QueryOK' /\ StoredOK'
    BY <1>1 DEF TreeInv, QueryOK, Tree!QueryIsOfChips, Tree!HasSelection, StoredOK
  <1> QED
    BY <1>3, <1>4, <1>5 DEF TreeInv

-----------------------------------------------------------------------------
\* What a click or an answer on a series does to the query and to the open nodes.
LEMMA GoKeepsQuery ==
  ASSUME QueryOK, NEW ids, chips' = chips, scope' = scope,
         Tree!Stars(ids) \/ UNCHANGED <<selected, query, fetching, open>>
  PROVE  QueryOK' /\ open' \subseteq open
  <1>1. CASE Tree!Stars(ids)
    BY <1>1, StarsKeep
  <1>2. CASE UNCHANGED <<selected, query, fetching, open>>
    BY <1>2 DEF QueryOK, Tree!QueryIsOfChips, Tree!HasSelection
  <1> QED
    BY <1>1, <1>2

LEMMA OnSeriesKeeps == ASSUME TreeInv, Tree!OnSeries PROVE TreeInv'
  <1>1. PICK s \in Tree!Series, why \in {"star", "start", "stop", "auto"} :
          /\ Tree!MayRun(s, why)
          /\ LET r == Tree!Strikes(s, why)
             IN  IF s \in loaded /\ ~r.ensures
                   THEN IF why = "star" THEN Tree!Go(r, treeAsks)
                        ELSE /\ busy' = busy \cup {s}
                             /\ treeAsks' = treeAsks \cup {Tree!Bulk(s, why)}
                             /\ UNCHANGED <<selected, query, fetching, open>>
                 ELSE /\ treeAsks' = treeAsks \cup {r}
                      /\ busy' = IF why = "star" THEN busy ELSE busy \cup {s}
                      /\ UNCHANGED <<selected, query, fetching, open>>
    BY DEF Tree!OnSeries
  <1>2. UNCHANGED <<chips, scope, loaded, treeMissed>> /\ Tree!PersistView
    BY DEF Tree!OnSeries
  <1> DEFINE r == Tree!Strikes(s, why)
             b == Tree!Bulk(s, why)
  <1>3. r.kind = "strikes" /\ r.why = why /\ r.of = s /\ b.kind = "bulk" /\ b.of = s
    BY ShapeOfAsks
  <1> HIDE DEF r, b
  <1>4. CASE why = "star"
    <2>1. \E ids : Tree!Stars(ids) \/ UNCHANGED <<selected, query, fetching, open>>
      BY <1>1, <1>3, <1>4 DEF Tree!Go, r
    <2>2. busy' = busy /\ (treeAsks' = treeAsks \/ treeAsks' = treeAsks \cup {r})
      BY <1>1, <1>3, <1>4 DEF Tree!Go, r
    <2>3. ~Runs(r) /\ Known(r)
      BY <1>3, <1>4 DEF Runs, Known
    <2>4. Keyed'
      BY <2>2, <2>3, KeysRest DEF TreeInv
    <2>5. QueryOK' /\ open' \subseteq open
      BY <1>2, <2>1, GoKeepsQuery DEF TreeInv
    <2>6. Served'
      BY <1>2, <2>2, <2>5, ServedStays DEF TreeInv
    <2> QED
      BY <1>2, <2>4, <2>5, <2>6, TreePersisted DEF TreeInv
  <1>5. CASE why # "star"
    <2>1. /\ busy' = busy \cup {s} /\ s \notin busy
          /\ treeAsks' = treeAsks \cup {b} \/ treeAsks' = treeAsks \cup {r}
          /\ UNCHANGED <<selected, query, fetching, open>>
      BY <1>1, <1>5 DEF Tree!MayRun, r, b
    <2>2. Runs(r) /\ Runs(b) /\ Known(r) /\ Known(b)
      BY <1>3, <1>5 DEF Runs, Known
    <2>3. Keyed'
      BY <1>3, <2>1, <2>2, KeyTaken DEF TreeInv
    <2>4. QueryOK'
      BY <1>2, <2>1, GoKeepsQuery DEF TreeInv
    <2>5. Served'
      BY <1>2, <2>1, ServedStays DEF TreeInv
    <2> QED
      BY <1>2, <2>3, <2>4, <2>5, TreePersisted DEF TreeInv
  <1> QED
    BY <1>4, <1>5

LEMMA StrikesAnsweredKeeps == ASSUME TreeInv, Tree!StrikesAnswered PROVE TreeInv'
  <1>1. PICK r \in treeAsks :
          /\ r.kind = "strikes"
          /\ loaded' = loaded \cup {r.of} /\ treeMissed' = treeMissed \ {r.of}
          /\ Tree!Go(r, treeAsks \ {r})
          /\ UNCHANGED <<chips, scope>>
          /\ Tree!PersistView
    BY DEF Tree!StrikesAnswered
  <1> DEFINE b == Tree!Bulk(r.of, r.why)
  <1>2. b.kind = "bulk" /\ b.of = r.of /\ Tree!Recordings.kind = "recordings"
    BY ShapeOfAsks, ShapeOfReads
  <1>3. \E ids : Tree!Stars(ids) \/ UNCHANGED <<selected, query, fetching, open>>
    BY <1>1 DEF Tree!Go
  <1>4. \/ r.why \in {"open", "star"} /\ treeAsks' = treeAsks \ {r} /\ busy' = busy
        \/ r.why \notin {"open", "star"} /\ treeAsks' = (treeAsks \ {r}) \cup {Tree!Recordings} /\ busy' = busy \ {r.of}
        \/ r.why \notin {"open", "star"} /\ treeAsks' = (treeAsks \ {r}) \cup {b} /\ busy' = busy
    BY <1>1 DEF Tree!Go, Tree!Finished
  <1> HIDE DEF b
  <1>5. Runs(b) /\ Known(b) /\ (Runs(r) <=> r.why \notin {"open", "star"})
    BY <1>1, <1>2 DEF Runs, Known
  <1>6. Keyed'
    <2>1. CASE r.why \in {"open", "star"} /\ treeAsks' = treeAsks \ {r} /\ busy' = busy
      BY <2>1, <1>5, KeysRest DEF TreeInv
    <2>2. CASE r.why \notin {"open", "star"} /\ treeAsks' = (treeAsks \ {r}) \cup {Tree!Recordings} /\ busy' = busy \ {r.of}
      <3> DEFINE again == {Tree!Recordings}
      <3>1. Keyed /\ Runs(r) /\ \A p \in again : p.kind = "recordings"
        BY <2>2, <1>2, <1>5 DEF TreeInv
      <3>2. treeAsks' = (treeAsks \ {r}) \cup again
        BY <2>2
      <3> HIDE DEF again
      <3> QED
        BY <2>2, <3>1, <3>2, KeyFreed
    <2>3. CASE r.why \notin {"open", "star"} /\ treeAsks' = (treeAsks \ {r}) \cup {b} /\ busy' = busy
      BY <2>3, <1>2, <1>5, KeyPassedOn DEF TreeInv
    <2> QED
      BY <1>4, <2>1, <2>2, <2>3
  <1>7. QueryOK' /\ open' \subseteq open
    BY <1>1, <1>3, GoKeepsQuery DEF TreeInv
  <1>8. Served'
    <2>1. \A p \in treeAsks \ treeAsks' : p = r
      BY <1>4
    <2>2. \A n : Reads(r, n) => n \in loaded'
      BY <1>1 DEF Reads
    <2> QED
      BY <1>1, <1>7, <2>1, <2>2, ServedStays DEF TreeInv
  <1> QED
    BY <1>1, <1>6, <1>7, <1>8, TreePersisted DEF TreeInv

LEMMA BulkAnsweredKeeps == ASSUME TreeInv, Tree!BulkAnswered PROVE TreeInv'
  <1>1. PICK r \in treeAsks :
          /\ r.kind = "bulk"
          /\ busy' = busy \ {r.of}
          /\ treeAsks' = (treeAsks \ {r}) \cup Tree!ReadAgain(r.why, recording')
          /\ UNCHANGED <<chips, query, scope, selected, open, loaded, treeMissed, treeStored>>
    BY DEF Tree!BulkAnswered, Tree!Finished, Tree!lists, Tree!nodes
  <1>2. Runs(r) /\ \A n : ~Reads(r, n)
    BY <1>1 DEF Runs, Reads
  <1>3. Keyed'
    BY <1>1, <1>2, ShapeOfReads, KeyFreed DEF TreeInv
  <1>4. Served'
    BY <1>1, <1>2, ServedStays DEF TreeInv
  <1> QED
    BY <1>1, <1>3, <1>4 DEF TreeInv, QueryOK, Tree!QueryIsOfChips, Tree!HasSelection, StoredOK

LEMMA RecordingsKeep == ASSUME TreeInv, Tree!RecordingsAnswered \/ Tree!RecordingChanges \/ Tree!LinkChanges PROVE TreeInv'
  <1>1. UNCHANGED <<chips, query, scope, selected, open, loaded, treeMissed, busy, treeStored>>
    BY DEF Tree!RecordingsAnswered, Tree!RecordingChanges, Tree!LinkChanges, Tree!lists, Tree!nodes, Tree!series
  <1>2. \A r : (r \in treeAsks <=> r \notin treeAsks') => r.kind = "recordings"
    <2>1. CASE Tree!RecordingsAnswered
      BY <2>1 DEF Tree!RecordingsAnswered
    <2>2. CASE Tree!RecordingChanges
      <3> DEFINE again == [Tree!Recordings EXCEPT !.seen = recording']
      <3>1. treeAsks' = treeAsks \cup {again}
        BY <2>2 DEF Tree!RecordingChanges
      <3>2. again.kind = "recordings"
        BY ShapeOfReads
      <3> HIDE DEF again
      <3> QED
        BY <3>1, <3>2
    <2>3. CASE Tree!LinkChanges
      BY <2>3 DEF Tree!LinkChanges
    <2> QED
      BY <2>1, <2>2, <2>3
  <1>3. \A r : r.kind = "recordings" => Known(r) /\ ~Runs(r) /\ \A n : ~Reads(r, n)
    BY DEF Runs, Reads, Known
  <1>4. Keyed'
    BY <1>1, <1>2, <1>3, KeysRest DEF TreeInv
  <1>5. Served'
    BY <1>1, <1>2, <1>3, ServedStays DEF TreeInv
  <1> QED
    BY <1>1, <1>4, <1>5 DEF TreeInv, QueryOK, Tree!QueryIsOfChips, Tree!HasSelection, StoredOK

LEMMA TreeAskFailedKeeps == ASSUME TreeInv, Tree!AskFailed PROVE TreeInv'
  <1>1. PICK r \in treeAsks :
          /\ treeMissed' = IF r.kind = "series" \/ (r.kind = "strikes" /\ r.why = "open") THEN treeMissed \cup {r.of} ELSE treeMissed
          /\ IF r.kind = "strikes" /\ r.why \in {"start", "stop", "auto"}
               THEN busy' = busy \ {r.of} /\ treeAsks' = (treeAsks \ {r}) \cup Tree!ReadAgain(r.why, recording)
             ELSE r.kind # "bulk" /\ treeAsks' = treeAsks \ {r} /\ UNCHANGED busy
    BY DEF Tree!AskFailed, Tree!Finished
  <1>2. UNCHANGED <<chips, query, scope, selected, open, loaded, treeStored>>
    BY DEF Tree!AskFailed, Tree!lists
  <1>3. Keyed'
    <2>1. CASE r.kind = "strikes" /\ r.why \in {"start", "stop", "auto"}
      BY <1>1, <2>1, ShapeOfReads, KeyFreed DEF TreeInv, Runs
    <2>2. CASE ~(r.kind = "strikes" /\ r.why \in {"start", "stop", "auto"})
      <3>1. ~Runs(r)
        BY <1>1, <2>2 DEF TreeInv, Keyed, Known, Runs
      <3> QED
        BY <1>1, <2>2, <3>1, KeysRest DEF TreeInv
    <2> QED
      BY <2>1, <2>2
  <1>4. Served'
    <2>1. treeMissed \subseteq treeMissed' /\ \A n : Reads(r, n) => n \in treeMissed'
      BY <1>1 DEF Reads
    <2>2. \A p \in treeAsks \ treeAsks' : p = r
      BY <1>1
    <2> QED
      BY <1>2, <2>1, <2>2, ServedStays DEF TreeInv
  <1> QED
    BY <1>2, <1>3, <1>4 DEF TreeInv, QueryOK, Tree!QueryIsOfChips, Tree!HasSelection, StoredOK

\* A reload reads again what the stored view has open.
LEMMA TreeReloadKeeps == ASSUME TreeInv, Tree!Reload PROVE TreeInv'
  <1>1. /\ Tree!RestoreViewState(treeStored)
        /\ treeAsks' = Tree!LoadOpen(treeStored.open, {}) \cup {Tree!Recordings}
        /\ loaded' = {} /\ treeMissed' = {} /\ busy' = {}
        /\ UNCHANGED <<selected, treeStored>>
    BY DEF Tree!Reload, Tree!HydrateExpanded
  <1>2. Served'
    BY <1>1, LoadOpenReads DEF Served, Tree!RestoreViewState
  <1>3. Keyed'
    <2>1. Tree!Recordings.kind = "recordings"
      BY ShapeOfReads
    <2>2. \A r \in treeAsks' : ~Runs(r) /\ Known(r)
      BY <1>1, <2>1, LoadOpenReads DEF Runs, Known
    <2> QED
      BY <1>1, <2>2 DEF Keyed
  <1>4. QueryOK'
    <2>1. /\ IsQuery(query') /\ query'.category = treeStored.category /\ query'.recording = treeStored.recording
          /\ query'.ids = (IF treeStored.selected THEN selected ELSE Tree!NoIds)
          /\ query'.ancestors = (treeStored.scope # "base")
          /\ chips' = treeStored.chips /\ scope' = treeStored.scope
      BY <1>1 DEF Tree!RestoreViewState, Tree!NoQuery, IsQuery
    <2> QED
      BY <1>1, <2>1 DEF QueryOK, Tree!QueryIsOfChips, Tree!HasSelection, TreeInv, StoredOK
  <1> QED
    BY <1>1, <1>2, <1>3, <1>4 DEF TreeInv, StoredOK

-----------------------------------------------------------------------------
\* The catalogue's inductive invariant: whatever node is opened, series starred or recorded,
\* answer missed and page reloaded, each open node is loaded or has its request under way, and
\* each operation holds a key of its own (InstrumentPicker).
THEOREM TreeInvariant == Tree!Spec => []TreeInv
  <1>1. Tree!Init => TreeInv
    <2> SUFFICES ASSUME Tree!Init PROVE TreeInv
      OBVIOUS
    <2>1. Served /\ Keyed
      BY DEF Tree!Init, Served, Keyed
    <2>2. QueryOK
      BY DEF Tree!Init, QueryOK, IsQuery, Tree!NoQuery, Tree!QueryIsOfChips, Tree!HasSelection
    <2>3. StoredOK
      BY <2>2 DEF Tree!Init, StoredOK, Tree!View, QueryOK, Tree!QueryIsOfChips, Tree!HasSelection
    <2> QED
      BY <2>1, <2>2, <2>3 DEF TreeInv
  <1>2. TreeInv /\ [Tree!Next]_(Tree!catalogueVars) => TreeInv'
    <2> SUFFICES ASSUME TreeInv, [Tree!Next]_(Tree!catalogueVars) PROVE TreeInv'
      OBVIOUS
    <2>1. CASE Tree!EditQuery \/ Tree!ListAnswered \/ Tree!ListFailed
      BY <2>1, EditQueryKeeps, TreeListKeeps
    <2>2. CASE Tree!ExpandSelectedSpine \/ Tree!ToggleNode \/ Tree!SeriesAnswered
      BY <2>2, SpineKeeps, ToggleNodeKeeps, SeriesAnsweredKeeps
    <2>3. CASE Tree!OnSeries \/ Tree!StrikesAnswered \/ Tree!BulkAnswered
      BY <2>3, OnSeriesKeeps, StrikesAnsweredKeeps, BulkAnsweredKeeps
    <2>4. CASE Tree!RecordingsAnswered \/ Tree!RecordingChanges \/ Tree!LinkChanges
      BY <2>4, RecordingsKeep
    <2>5. CASE Tree!AskFailed \/ Tree!Reload
      BY <2>5, TreeAskFailedKeeps, TreeReloadKeeps
    <2>6. CASE UNCHANGED Tree!catalogueVars
      BY <2>6 DEF Tree!catalogueVars, TreeInv, Served, Keyed, QueryOK, Tree!QueryIsOfChips, Tree!HasSelection, StoredOK
    <2> QED
      BY <2>1, <2>2, <2>3, <2>4, <2>5, <2>6 DEF Tree!Next
  <1> QED
    BY <1>1, <1>2, PTL DEF Tree!Spec

LEMMA KeyedIsOneAtATime == ASSUME Keyed PROVE Tree!OneAtATime
  <1> SUFFICES ASSUME NEW s \in Tree!Series
               PROVE  Tree!Cardinality({r \in treeAsks : /\ r.kind \in {"strikes", "bulk"}
                                                         /\ r.of = s
                                                         /\ r.kind = "strikes" => r.why \notin {"open", "star"}})
                        = IF s \in busy THEN 1 ELSE 0
    BY DEF Tree!OneAtATime
  <1> DEFINE Ops == {r \in treeAsks : /\ r.kind \in {"strikes", "bulk"}
                                      /\ r.of = s
                                      /\ r.kind = "strikes" => r.why \notin {"open", "star"}}
  <1>1. \A r : r \in Ops <=> r \in treeAsks /\ Runs(r) /\ r.of = s
    BY DEF Runs
  <1> HIDE DEF Ops
  <1>0. Tree!Cardinality(Ops) = Cardinality(Ops)
    BY DEF Cardinality, Tree!Cardinality
  <1>2. CASE s \in busy
    <2>1. PICK r \in treeAsks : Runs(r) /\ r.of = s
      BY <1>2 DEF Keyed
    <2>2. Ops = {r}
      BY <1>1, <2>1 DEF Keyed
    <2> QED
      BY <1>0, <1>2, <2>2, FS_Singleton DEF Ops
  <1>3. CASE s \notin busy
    <2>1. Ops = {}
      BY <1>1, <1>3 DEF Keyed
    <2> QED
      BY <1>0, <1>3, <2>1, FS_EmptySet DEF Ops
  <1> QED
    BY <1>2, <1>3

\* What the invariant says of the catalogue at every moment: no open node waits for nothing, and
\* no series has two operations at a time.
THEOREM TreeGoesOn == Tree!Spec => []Tree!TreeIsServed
  <1>1. Served => Tree!OpenIsLoaded
    BY DEF Served, Tree!OpenIsLoaded, Reads
  <1>2. TreeInv => Tree!TreeIsServed
    BY <1>1, KeyedIsOneAtATime DEF TreeInv, QueryOK, Tree!TreeIsServed
  <1> QED
    BY <1>2, TreeInvariant, PTL

-----------------------------------------------------------------------------
(* The editor of a schedule. *)

IsSame(set) == \A a, b \in set : a = b
\* The draft has layers, and they have a main part.
IsScheduleDraft(d) == "layers" \in DOMAIN d /\ "main" \in DOMAIN d.layers
IsPanel(p) == {"open", "preserve", "editing", "view", "changed", "committing", "msg", "asked"} \subseteq DOMAIN p
MainIsAsked(p, d) ==
  Schedule!MainDiffers(d.layers) => p.asked \/ (p.msg = "main" /\ p.view = "edit")
ScheduleInv ==
  /\ IsScheduleDraft(scheduleDraft) /\ IsPanel(panel) /\ IsSame(base.dict.main)
  /\ MainIsAsked(panel, scheduleDraft)

-----------------------------------------------------------------------------
\* What the rules are made into has at most one main layer.
LEMMA DictOfRules ==
  ASSUME NEW listing
  PROVE  /\ DOMAIN Schedule!DictFromRules(listing) = {"main", "exc", "staticExc"}
         /\ IsSame(Schedule!DictFromRules(listing).main)
         /\ Schedule!BaseOf(listing).dict = Schedule!DictFromRules(listing)
  BY DEF Schedule!DictFromRules, IsSame, Schedule!BaseOf

LEMMA SameMain ==
  ASSUME NEW d, NEW e, d.main = e.main
  PROVE  Schedule!MainDiffers(d) <=> Schedule!MainDiffers(e)
  BY DEF Schedule!MainDiffers

LEMMA BaseIsSame ==
  ASSUME NEW d, IsSame(base.dict.main), d.main = base.dict.main \/ d.main = {}
  PROVE  ~Schedule!MainDiffers(d)
  BY DEF Schedule!MainDiffers, IsSame, Schedule!LayerDiffers

LEMMA FreshIsDraft ==
  ASSUME NEW dict, NEW a, "main" \in DOMAIN dict
  PROVE  LET d == [Schedule!FreshDraft(dict) EXCEPT !.anchor = a]
         IN  IsScheduleDraft(d) /\ d.layers = dict
  BY DEF Schedule!FreshDraft, IsScheduleDraft

LEMMA WarnedIsPanel ==
  ASSUME NEW p, NEW d, IsPanel(p)
  PROVE  IsPanel(Schedule!Warned(p, d))
  BY DEF Schedule!Warned, IsPanel

\* A change that the warning looks at.
LEMMA WarnedAsks ==
  ASSUME ScheduleInv, NEW d, panel.editing, panel.view = "edit"
  PROVE  MainIsAsked(Schedule!Warned(panel, d), d)
  <1>1. CASE d.layers.main = scheduleDraft.layers.main
    <2>1. Schedule!MainDiffers(d.layers) <=> Schedule!MainDiffers(scheduleDraft.layers)
      BY <1>1, SameMain
    <2>2. Schedule!Warned(panel, d) = panel \/ Schedule!Warned(panel, d) = [panel EXCEPT !.msg = "main"]
      BY DEF Schedule!Warned
    <2>3. CASE Schedule!Warned(panel, d) = panel
      BY <2>1, <2>3 DEF ScheduleInv, MainIsAsked
    <2>4. CASE Schedule!Warned(panel, d) = [panel EXCEPT !.msg = "main"]
      BY <2>4 DEF ScheduleInv, MainIsAsked, IsPanel
    <2> QED
      BY <2>2, <2>3, <2>4
  <1>2. CASE d.layers.main # scheduleDraft.layers.main
    <2>1. CASE ~panel.asked /\ Schedule!MainDiffers(d.layers)
      <3>1. Schedule!Warned(panel, d) = [panel EXCEPT !.msg = "main"]
        BY <1>2, <2>1 DEF Schedule!Warned
      <3> QED
        BY <3>1 DEF MainIsAsked, ScheduleInv, IsPanel
    <2>2. CASE panel.asked \/ ~Schedule!MainDiffers(d.layers)
      <3>1. Schedule!Warned(panel, d) = panel
        BY <2>2 DEF Schedule!Warned
      <3> QED
        BY <2>2, <3>1 DEF MainIsAsked
    <2> QED
      BY <2>1, <2>2
  <1> QED
    BY <1>1, <1>2

LEMMA EditsKeep ==
  ASSUME ScheduleInv, NEW d, Schedule!Edits(d), panel.editing, panel.view = "edit", IsScheduleDraft(d)
  PROVE  ScheduleInv'
  <1>1. MainIsAsked(Schedule!Warned(panel, d), d)
    BY WarnedAsks
  <1>2. IsPanel(Schedule!Warned(panel, d))
    BY WarnedIsPanel DEF ScheduleInv
  <1>3. scheduleDraft' = d /\ panel' = Schedule!Warned(panel, d) /\ base' = base
    BY DEF Schedule!Edits
  <1>4. MainIsAsked(panel, scheduleDraft)' <=> MainIsAsked(panel', scheduleDraft')
    BY <1>3 DEF MainIsAsked, Schedule!MainDiffers
  <1> QED
    BY <1>1, <1>2, <1>3, <1>4 DEF ScheduleInv, MainIsAsked, Schedule!MainDiffers, IsScheduleDraft, IsPanel

\* A step that keeps the layers of the draft and what it is compared with,
\* while the question about the main layer is not open.
LEMMA StandsWith ==
  ASSUME ScheduleInv, base' = base, IsScheduleDraft(scheduleDraft'), scheduleDraft'.layers.main = scheduleDraft.layers.main,
         IsPanel(panel'),
         panel'.asked = panel.asked,
         panel.msg # "main"
  PROVE  ScheduleInv'
  BY DEF ScheduleInv, MainIsAsked, Schedule!MainDiffers, IsScheduleDraft, IsPanel, IsSame

\* A step after which the draft does not differ from what it is compared with.
LEMMA AgreesWith ==
  ASSUME IsSame(base'.dict.main), IsScheduleDraft(scheduleDraft'), IsPanel(panel'),
         scheduleDraft'.layers.main = base'.dict.main \/ scheduleDraft'.layers.main = {}
  PROVE  ScheduleInv'
  BY DEF ScheduleInv, MainIsAsked, Schedule!MainDiffers, IsScheduleDraft, IsPanel, IsSame, Schedule!LayerDiffers

-----------------------------------------------------------------------------
\* The operations of the draft leave it a draft.
LEMMA DictsKeep ==
  ASSUME NEW dict, "main" \in DOMAIN dict, NEW layer, NEW s, NEW P(_)
  PROVE  /\ "main" \in DOMAIN Schedule!PromoteExc(dict, layer)
         /\ "main" \in DOMAIN Schedule!RemoveExcById(dict, s)
         /\ "main" \in DOMAIN Schedule!CreateStaticExc(dict, layer)
         /\ "main" \in DOMAIN Schedule!PatchActiveLayer(dict, s, P)
  <1>1. "main" \in DOMAIN Schedule!PromoteExc(dict, layer)
    BY Zenon DEF Schedule!PromoteExc
  <1>2. "main" \in DOMAIN Schedule!RemoveExcById(dict, s)
    BY Zenon DEF Schedule!RemoveExcById
  <1>3. "main" \in DOMAIN Schedule!CreateStaticExc(dict, layer)
    BY Zenon DEF Schedule!CreateStaticExc
  <1>4. "main" \in DOMAIN Schedule!PatchActiveLayer(dict, s, P)
    BY Zenon DEF Schedule!PatchActiveLayer
  <1> QED
    BY <1>1, <1>2, <1>3, <1>4

LEMMA ChoicesKeep ==
  ASSUME NEW d, IsScheduleDraft(d), NEW a, NEW b, NEW c
  PROVE  /\ IsScheduleDraft(Schedule!Load(d, a)) /\ IsScheduleDraft(Schedule!SelectMain(d))
         /\ IsScheduleDraft(Schedule!SelectDays(d, a)) /\ IsScheduleDraft(Schedule!SelectDates(d, a))
         /\ IsScheduleDraft(Schedule!Remember(d, a, b))
         /\ IsScheduleDraft(Schedule!RememberAll(d, a)) /\ IsScheduleDraft(Schedule!RememberActive(d, a))
         /\ IsScheduleDraft(Schedule!ClearSelection(d)) /\ IsScheduleDraft(Schedule!CloseCalendar(d))
         /\ IsScheduleDraft(Schedule!CalPick(d, a, b))
  <1>1. IsScheduleDraft(Schedule!Load(d, a)) /\ IsScheduleDraft(Schedule!SelectMain(d))
    BY Zenon DEF IsScheduleDraft, Schedule!Load, Schedule!SelectMain
  <1>2. IsScheduleDraft(Schedule!SelectDays(d, a)) /\ IsScheduleDraft(Schedule!SelectDates(d, a))
    BY Zenon DEF IsScheduleDraft, Schedule!SelectDays, Schedule!SelectDates
  <1>3. IsScheduleDraft(Schedule!Remember(d, a, b))
    BY Zenon DEF IsScheduleDraft, Schedule!Remember
  <1>4. IsScheduleDraft(Schedule!RememberAll(d, a)) /\ IsScheduleDraft(Schedule!RememberActive(d, a))
    BY Zenon DEF IsScheduleDraft, Schedule!RememberAll, Schedule!RememberActive
  <1>5. IsScheduleDraft(Schedule!ClearSelection(d)) /\ IsScheduleDraft(Schedule!CloseCalendar(d))
    BY Zenon DEF IsScheduleDraft, Schedule!ClearSelection, Schedule!CloseCalendar
  <1>6. IsScheduleDraft(Schedule!CalPick(d, a, b))
    BY Zenon DEF IsScheduleDraft, Schedule!CalPick
  <1> QED
    BY <1>1, <1>2, <1>3, <1>4, <1>5, <1>6

\* The layers of a draft may be exchanged for others that have a main part.
LEMMA LayersKeep ==
  ASSUME NEW d, IsScheduleDraft(d), NEW dict, "main" \in DOMAIN dict
  PROVE  IsScheduleDraft([d EXCEPT !.layers = dict])
  BY Zenon DEF IsScheduleDraft
LEMMA LayersPartsKeep ==
  ASSUME NEW d, IsScheduleDraft(d), NEW a
  PROVE  /\ IsScheduleDraft([d EXCEPT !.layers.main = a])
         /\ IsScheduleDraft([d EXCEPT !.layers.exc = a])
         /\ IsScheduleDraft([d EXCEPT !.layers.staticExc = a])
  BY Zenon DEF IsScheduleDraft
LEMMA FieldsKeep ==
  ASSUME NEW d, IsScheduleDraft(d), NEW a, NEW b
  PROVE  /\ IsScheduleDraft([d EXCEPT !.anchor = a])
         /\ IsScheduleDraft([d EXCEPT !.aggregate = a])
         /\ IsScheduleDraft([d EXCEPT !.aggregate = a, !.date = b])
         /\ IsScheduleDraft([d EXCEPT !.cal.open = a])
         /\ IsScheduleDraft([d EXCEPT !.template = a, !.shift = b])
         /\ IsScheduleDraft([d EXCEPT !.shift = a, !.template = b])
         /\ IsScheduleDraft([d EXCEPT !.memory = a])
  BY Zenon DEF IsScheduleDraft

LEMMA MainIsToggled ==
  ASSUME NEW d, IsScheduleDraft(d)
  PROVE  IsScheduleDraft(Schedule!ToggleMain(d))
  <1>1. IsScheduleDraft(Schedule!ActivateMainScope(d))
    BY LayersPartsKeep, ChoicesKeep, Zenon DEF Schedule!ActivateMainScope
  <1> QED
    BY <1>1, LayersPartsKeep, ChoicesKeep, Zenon DEF Schedule!ToggleMain

LEMMA LayerIsSelected ==
  ASSUME NEW d, IsScheduleDraft(d), NEW layer
  PROVE  IsScheduleDraft(Schedule!SelectLayer(d, layer))
  BY ChoicesKeep, Zenon DEF Schedule!SelectLayer

LEMMA DaysAreToggled ==
  ASSUME NEW d, IsScheduleDraft(d), NEW days
  PROVE  IsScheduleDraft(Schedule!ToggleDays(d, days))
  <1> DEFINE place == Schedule!DowScope(days)
             existing == Schedule!FindLayer(d.layers, place)
             layer == Schedule!Layer(place, Schedule!WindowFor(d, place, existing, days))
             r == Schedule!Remember(d, place, d.window)
             q == Schedule!Remember(d, place, layer.window)
             off == [r EXCEPT !.layers = Schedule!RemoveExcById(@, place)]
             on == [q EXCEPT !.layers = Schedule!PromoteExc(@, layer)]
  <1>1. IsScheduleDraft(r) /\ IsScheduleDraft(q)
    BY ChoicesKeep
  <1>2. "main" \in DOMAIN Schedule!RemoveExcById(r.layers, place) /\ "main" \in DOMAIN Schedule!PromoteExc(q.layers, layer)
    BY <1>1, DictsKeep, Zenon DEF IsScheduleDraft
  <1>3. IsScheduleDraft(off) /\ IsScheduleDraft(on)
    BY <1>1, <1>2, LayersKeep, Zenon
  <1>4. Schedule!ToggleDays(d, days) \in {Schedule!SelectDays(off, {}), Schedule!Load(Schedule!SelectDays(on, days), layer)}
    BY Zenon DEF Schedule!ToggleDays
  <1> QED
    BY <1>3, <1>4, ChoicesKeep, Zenon

LEMMA DaysAreJoined ==
  ASSUME NEW d, IsScheduleDraft(d), NEW day
  PROVE  IsScheduleDraft(Schedule!Join(d, day))
  <1> DEFINE place == Schedule!DowScope({day})
             r == Schedule!Remember(d, place, d.window)
             layer == Schedule!Layer(place, d.window)
             solidary(w) == d.window
  <1>1. IsScheduleDraft(r)
    BY ChoicesKeep
  <1>2. IsScheduleDraft([r EXCEPT !.layers = Schedule!PromoteExc(@, layer)])
    BY <1>1, DictsKeep, LayersKeep, Zenon DEF IsScheduleDraft
  <1>3. "main" \in DOMAIN Schedule!PatchActiveLayer(d.layers, place, solidary)
    BY DictsKeep, Zenon DEF IsScheduleDraft
  <1>4. IsScheduleDraft([d EXCEPT !.layers = Schedule!PatchActiveLayer(@, place, solidary)])
    BY <1>3, LayersKeep, Zenon
  <1> QED
    BY <1>2, <1>4, Zenon DEF Schedule!Join

LEMMA DayIsClicked ==
  ASSUME NEW d, IsScheduleDraft(d), NEW day, NEW key
  PROVE  IsScheduleDraft(Schedule!DayClick(d, day, key))
  <1>1. ASSUME NEW from, NEW to
        PROVE  IsScheduleDraft(Schedule!SelectDayRange(d, from, to))
    <2> DEFINE joined == Schedule!FoldLeft(Schedule!Join, d, Schedule!DaysInOrder(Schedule!DaysInRange(from, to)))
               q == [d EXCEPT !.layers.exc = joined.layers.exc]
               ranged == [d EXCEPT !.layers.exc = joined.layers.exc, !.memory = joined.memory]
    <2>1. IsScheduleDraft(ranged)
      BY Zenon DEF IsScheduleDraft
    <2> QED
      BY <2>1, ChoicesKeep, Zenon DEF Schedule!SelectDayRange
  <1>2. IsScheduleDraft(Schedule!AddDay(d, day))
    BY DaysAreJoined, ChoicesKeep, FieldsKeep, Zenon DEF Schedule!AddDay
  <1>3. IsScheduleDraft(Schedule!ToggleDays(d, {day}))
    BY DaysAreToggled
  <1> QED
    BY <1>1, <1>2, <1>3, FieldsKeep, Zenon DEF Schedule!DayClick

LEMMA DateScopeIsChosen ==
  ASSUME NEW d, IsScheduleDraft(d)
  PROVE  IsScheduleDraft(Schedule!ChooseDateScope(d))
  <1>1. ASSUME NEW range, NEW hours, NEW layer
        PROVE  IsScheduleDraft([Schedule!Remember(d, range, hours) EXCEPT !.layers = Schedule!CreateStaticExc(@, layer)])
    <2>1. IsScheduleDraft(Schedule!Remember(d, range, hours))
      BY ChoicesKeep
    <2> QED
      BY <2>1, DictsKeep, LayersKeep, Zenon DEF IsScheduleDraft
  <1>2. ASSUME NEW made, IsScheduleDraft(made), NEW range, NEW layer
        PROVE  IsScheduleDraft(Schedule!CloseCalendar(Schedule!Load(Schedule!SelectDates(made, range), layer)))
    BY <1>2, ChoicesKeep, Zenon
  <1> QED
    BY <1>1, <1>2, Zenon DEF Schedule!ChooseDateScope

LEMMA OrphanedKeeps ==
  ASSUME NEW d, IsScheduleDraft(d)
  PROVE  IsScheduleDraft(Schedule!Orphaned(d)) /\ Schedule!Orphaned(d).layers = d.layers
  <1>1. IsScheduleDraft(Schedule!Orphaned(d))
    BY ChoicesKeep, Zenon DEF Schedule!Orphaned, IsScheduleDraft, Schedule!Load
  <1>2. Schedule!Orphaned(d).layers = d.layers
    BY Zenon DEF Schedule!Orphaned, IsScheduleDraft, Schedule!Load
  <1> QED
    BY <1>1, <1>2

LEMMA SelectedIsCancelled ==
  ASSUME NEW d, IsScheduleDraft(d)
  PROVE  IsScheduleDraft(Schedule!CancelSelected(d))
  <1> DEFINE layer == Schedule!The(Schedule!CalExisting(d))
             r == Schedule!Remember(d, layer.scope, layer.window)
             gone == [r EXCEPT !.undo = Append(@, layer), !.layers = Schedule!RemoveExcById(@, layer.scope)]
  <1>1. IsScheduleDraft(r) /\ "main" \in DOMAIN Schedule!RemoveExcById(r.layers, layer.scope)
    BY ChoicesKeep, DictsKeep, Zenon DEF IsScheduleDraft
  <1>2. IsScheduleDraft(gone)
    BY <1>1, Zenon DEF IsScheduleDraft
  <1>3. Schedule!CancelSelected(d) = Schedule!ClearSelection(IF d.date = {layer.scope} THEN Schedule!Orphaned(gone) ELSE gone)
    BY Zenon DEF Schedule!CancelSelected
  <1> HIDE DEF gone
  <1> QED
    BY <1>2, <1>3, OrphanedKeeps, ChoicesKeep, Zenon

LEMMA LastIsRestored ==
  ASSUME NEW d, IsScheduleDraft(d)
  PROVE  IsScheduleDraft(Schedule!RestoreLast(d))
  BY Zenon DEF Schedule!RestoreLast, IsScheduleDraft

LEMMA StaticIsCleared ==
  ASSUME NEW d, IsScheduleDraft(d)
  PROVE  IsScheduleDraft(Schedule!ClearStatic(d)) /\ Schedule!ClearStatic(d).layers.main = d.layers.main
  <1> DEFINE r == Schedule!RememberAll(d, Schedule!ToSet(d.layers.staticExc))
             gone == [r EXCEPT !.layers.staticExc = <<>>, !.undo = <<>>]
  <1>1. IsScheduleDraft(r) /\ r.layers = d.layers
    <2>1. r.layers = d.layers
      BY Zenon DEF Schedule!RememberAll, IsScheduleDraft
    <2> QED
      BY <2>1, ChoicesKeep
  <1>2. IsScheduleDraft(gone) /\ gone.layers.main = d.layers.main
    <2> HIDE DEF r
    <2>1. IsScheduleDraft(gone)
      BY <1>1, Zenon DEF IsScheduleDraft
    <2>2. gone.layers.main = r.layers.main
      BY <1>1, Zenon DEF IsScheduleDraft
    <2> QED
      BY <1>1, <2>1, <2>2
  <1>3. Schedule!ClearStatic(d) = IF d.date # {} THEN Schedule!Orphaned(gone) ELSE gone
    BY Zenon DEF Schedule!ClearStatic
  <1> HIDE DEF gone
  <1> QED
    BY <1>2, <1>3, OrphanedKeeps, Zenon

LEMMA AllIsCleared ==
  ASSUME NEW d, IsScheduleDraft(d)
  PROVE  IsScheduleDraft(Schedule!DoClearAll(d)) /\ Schedule!DoClearAll(d).layers.main = {}
  <1> DEFINE q == Schedule!SelectDays(Schedule!RememberAll(d, Schedule!LayersOf(d.layers)), {})
  <1>1. IsScheduleDraft(q)
    BY ChoicesKeep, Zenon
  <1>2. Schedule!DoClearAll(d) = [q EXCEPT !.layers = Schedule!EmptyDict, !.window = Schedule!DefaultWindow]
    BY Zenon DEF Schedule!DoClearAll
  <1>3. Schedule!EmptyDict.main = {} /\ "main" \in DOMAIN Schedule!EmptyDict
    BY DEF Schedule!EmptyDict
  <1> HIDE DEF q
  <1>4. Schedule!DoClearAll(d).layers = Schedule!EmptyDict /\ "layers" \in DOMAIN Schedule!DoClearAll(d)
    BY <1>1, <1>2, Zenon DEF IsScheduleDraft
  <1> QED
    BY <1>3, <1>4, Zenon DEF IsScheduleDraft

LEMMA WindowIsPatched ==
  ASSUME NEW d, IsScheduleDraft(d), NEW s, NEW e
  PROVE  IsScheduleDraft(Schedule!SetWindow(d, s, e))
  <1>1. ASSUME NEW q, IsScheduleDraft(q), NEW a, NEW b, NEW c, NEW P(_)
        PROVE  IsScheduleDraft([q EXCEPT !.window.start = a, !.window.end = b,
                                         !.layers = Schedule!PatchActiveLayer(@, c, P)])
    <2>1. "main" \in DOMAIN Schedule!PatchActiveLayer(q.layers, c, P)
      BY <1>1, DictsKeep, Zenon DEF IsScheduleDraft
    <2> QED
      BY <1>1, <2>1, Zenon DEF IsScheduleDraft
  <1> QED
    BY <1>1, ChoicesKeep, Zenon DEF Schedule!SetWindow

LEMMA ModeIsSet ==
  ASSUME NEW d, IsScheduleDraft(d), NEW mode
  PROVE  IsScheduleDraft(Schedule!SetScopeMode(d, mode))
  <1>1. ASSUME NEW q, IsScheduleDraft(q), NEW c, NEW P(_)
        PROVE  IsScheduleDraft([q EXCEPT !.window.mode = mode,
                                         !.layers = Schedule!PatchActiveLayer(@, c, P)])
    <2>1. "main" \in DOMAIN Schedule!PatchActiveLayer(q.layers, c, P)
      BY <1>1, DictsKeep, Zenon DEF IsScheduleDraft
    <2> QED
      BY <1>1, <2>1, Zenon DEF IsScheduleDraft
  <1> QED
    BY <1>1, ChoicesKeep, Zenon DEF Schedule!SetScopeMode

LEMMA WindowIsChanged ==
  ASSUME NEW d, IsScheduleDraft(d), NEW w, NEW t, NEW shift
  PROVE  IsScheduleDraft(Schedule!OnWindowChange(d, w)) /\ IsScheduleDraft(Schedule!ApplyTemplate(d, t, shift))
  <1>1. IsScheduleDraft(Schedule!OnWindowChange(d, w))
    <2>1. IsScheduleDraft(Schedule!SetWindow(d, w.start, w.end))
      BY WindowIsPatched
    <2> QED
      BY <2>1, FieldsKeep, Zenon DEF Schedule!OnWindowChange
  <1>2. IsScheduleDraft(Schedule!ApplyTemplate(d, t, shift))
    BY FieldsKeep, WindowIsPatched, Zenon DEF Schedule!ApplyTemplate
  <1> QED
    BY <1>1, <1>2

-----------------------------------------------------------------------------
LEMMA ChooseKeeps ==
  ASSUME ScheduleInv, Schedule!Choose
  PROVE  ScheduleInv'
  <1>1. IsScheduleDraft(scheduleDraft)
    BY DEF ScheduleInv
  <1>2. PICK d : Schedule!Edits(d) /\ IsScheduleDraft(d) /\ Schedule!Ready
    <2>1. CASE Schedule!ClickOverview
      <3> DEFINE d == [scheduleDraft EXCEPT !.aggregate = TRUE, !.date = {}]
      <3>1. IsScheduleDraft(d)
        BY <1>1, FieldsKeep
      <3>2. Schedule!Edits(d) /\ Schedule!Ready
        BY <2>1 DEF Schedule!ClickOverview
      <3> HIDE DEF d
      <3> QED
        BY <3>1, <3>2
    <2>2. CASE Schedule!ClickMain
      BY <1>1, <2>2, MainIsToggled, Zenon DEF Schedule!ClickMain, Schedule!Click
    <2>3. CASE Schedule!ClickGroup
      BY <1>1, <2>3, DaysAreToggled, Zenon DEF Schedule!ClickGroup, Schedule!Click
    <2>4. CASE Schedule!ClickDay
      BY <1>1, <2>4, DayIsClicked, Zenon DEF Schedule!ClickDay, Schedule!Click
    <2>5. CASE Schedule!ClickChart
      BY <1>1, <2>5, LayerIsSelected, Zenon DEF Schedule!ClickChart, Schedule!Click
    <2> QED
      BY <2>1, <2>2, <2>3, <2>4, <2>5 DEF Schedule!Choose
  <1> QED
    BY <1>2, EditsKeep DEF Schedule!Ready, Schedule!Editing

LEMMA ModifyKeeps ==
  ASSUME ScheduleInv, Schedule!Modify
  PROVE  ScheduleInv'
  <1>1. IsScheduleDraft(scheduleDraft)
    BY DEF ScheduleInv
  <1>2. PICK d : Schedule!Edits(d) /\ IsScheduleDraft(d) /\ panel.editing /\ panel.view = "edit"
    <2>1. CASE Schedule!ClickMode
      BY <1>1, <2>1, ModeIsSet, Zenon DEF Schedule!ClickMode, Schedule!Click, Schedule!Ready, Schedule!Editing
    <2>2. CASE Schedule!ClickTemplate
      BY <1>1, <2>2, WindowIsChanged, Zenon DEF Schedule!ClickTemplate, Schedule!Click, Schedule!Ready, Schedule!Editing
    <2>3. CASE Schedule!ClickShift
      BY <1>1, <2>3, WindowIsChanged, Zenon DEF Schedule!ClickShift, Schedule!Click, Schedule!Ready, Schedule!Editing
    <2>4. CASE Schedule!Drag
      BY <1>1, <2>4, WindowIsChanged, Zenon DEF Schedule!Drag
    <2> QED
      BY <2>1, <2>2, <2>3, <2>4 DEF Schedule!Modify
  <1> QED
    BY <1>2, EditsKeep

LEMMA CalendarKeeps ==
  ASSUME ScheduleInv, Schedule!Calendar
  PROVE  ScheduleInv'
  <1>1. IsScheduleDraft(scheduleDraft)
    BY DEF ScheduleInv
  <1>2. CASE Schedule!ClickReset /\ scheduleDraft.layers.staticExc # <<>>
    <2>1. /\ scheduleDraft' = Schedule!ClearSelection(scheduleDraft) /\ panel' = [panel EXCEPT !.msg = "clearStatic"]
          /\ base' = base /\ panel.msg = "none"
      BY <1>2 DEF Schedule!ClickReset, Schedule!Editing, Schedule!Free
    <2>2. scheduleDraft'.layers = scheduleDraft.layers /\ IsScheduleDraft(scheduleDraft')
      BY <1>1, <2>1, ChoicesKeep DEF IsScheduleDraft, Schedule!ClearSelection
    <2>3. IsPanel(panel') /\ panel'.asked = panel.asked
      BY <2>1 DEF ScheduleInv, IsPanel
    <2> QED
      BY <2>1, <2>2, <2>3, StandsWith
  <1>3. CASE ~(Schedule!ClickReset /\ scheduleDraft.layers.staticExc # <<>>)
    <2>1. PICK d : Schedule!Edits(d) /\ IsScheduleDraft(d) /\ Schedule!Editing
      <3>1. CASE Schedule!ClickCalendar
        BY <1>1, <3>1, ChoicesKeep, FieldsKeep, Zenon DEF Schedule!ClickCalendar
      <3>2. CASE Schedule!ClickDate
        BY <1>1, <3>2, ChoicesKeep, Zenon DEF Schedule!ClickDate, Schedule!Picks
      <3>3. CASE Schedule!ClickNowhere
        BY <1>1, <3>3, ChoicesKeep, Zenon DEF Schedule!ClickNowhere, Schedule!Picks
      <3>4. CASE Schedule!ClickGo
        BY <1>1, <3>4, DateScopeIsChosen, Zenon DEF Schedule!ClickGo, Schedule!InCalendar
      <3>5. CASE Schedule!ClickCancelSelected
        BY <1>1, <3>5, SelectedIsCancelled, Zenon DEF Schedule!ClickCancelSelected, Schedule!InCalendar
      <3>6. CASE Schedule!ClickRestore
        BY <1>1, <3>6, LastIsRestored, Zenon DEF Schedule!ClickRestore, Schedule!InCalendar
      <3>7. CASE Schedule!ClickReset
        <4>1. IsScheduleDraft(Schedule!ClearStatic(Schedule!ClearSelection(scheduleDraft)))
          BY <1>1, ChoicesKeep, StaticIsCleared, Zenon
        <4> QED
          BY <1>3, <3>7, <4>1, Zenon DEF Schedule!ClickReset
      <3> QED
        BY <3>1, <3>2, <3>3, <3>4, <3>5, <3>6, <3>7 DEF Schedule!Calendar
    <2> QED
      BY <2>1, EditsKeep DEF Schedule!Editing
  <1> QED
    BY <1>2, <1>3

\* The draft becomes what the page knows.
LEMMA ResetAgrees ==
  ASSUME ScheduleInv, Schedule!ResetDraftToBase, IsPanel(panel')
  PROVE  ScheduleInv'
  <1> DEFINE dict == Schedule!DictFromRules(rules)
  <1>1. IsSame(dict.main) /\ "main" \in DOMAIN dict /\ base'.dict = dict
    BY DictOfRules DEF Schedule!ResetDraftToBase
  <1>2. scheduleDraft'.layers = dict /\ "layers" \in DOMAIN scheduleDraft'
    BY Zenon DEF Schedule!ResetDraftToBase, ScheduleInv, IsScheduleDraft
  <1>3. IsScheduleDraft(scheduleDraft')
    BY <1>1, <1>2 DEF IsScheduleDraft
  <1> HIDE DEF dict
  <1> QED
    BY <1>1, <1>2, <1>3, AgreesWith

LEMMA ReinitAgrees ==
  ASSUME NEW p, NEW listing, Schedule!Reinit(p, listing), IsPanel(p)
  PROVE  ScheduleInv'
  <1> DEFINE dict == Schedule!DictFromRules(listing)
  <1>1. IsSame(dict.main) /\ "main" \in DOMAIN dict /\ base'.dict = dict
    BY DictOfRules DEF Schedule!Reinit
  <1>2. scheduleDraft'.layers = dict /\ IsScheduleDraft(scheduleDraft')
    BY <1>1, FreshIsDraft DEF Schedule!Reinit
  <1>3. IsPanel(panel')
    BY DEF Schedule!Reinit, Schedule!FreshPanel, IsPanel
  <1> HIDE DEF dict
  <1> QED
    BY <1>1, <1>2, <1>3, AgreesWith

LEMMA ClosedKeeps ==
  ASSUME NEW p, Schedule!Close(p, FALSE), IsPanel(p)
  PROVE  ScheduleInv'
  <1>1. base' = Schedule!BaseOf(<<>>) /\ scheduleDraft' = [Schedule!FreshDraft(Schedule!EmptyDict) EXCEPT !.anchor = scheduleDraft.anchor]
    BY DEF Schedule!Close
  <1>2. "main" \in DOMAIN Schedule!EmptyDict /\ Schedule!EmptyDict.main = {}
    BY DEF Schedule!EmptyDict
  <1>3. scheduleDraft'.layers = Schedule!EmptyDict /\ IsScheduleDraft(scheduleDraft')
    BY <1>1, <1>2, FreshIsDraft
  <1>4. IsSame(base'.dict.main) /\ IsPanel(panel')
    BY <1>1, DictOfRules DEF Schedule!Close, IsPanel
  <1> QED
    BY <1>2, <1>3, <1>4, AgreesWith

LEMMA LeftKeeps ==
  ASSUME ScheduleInv, Schedule!Close(panel, TRUE), panel.msg # "main"
  PROVE  ScheduleInv'
  BY StandsWith DEF Schedule!Close, ScheduleInv, IsScheduleDraft, IsPanel

LEMMA PanelKeeps ==
  ASSUME ScheduleInv, Schedule!OpenPanel \/ Schedule!SoftClose \/ Schedule!HardClose \/ Schedule!Pencil
  PROVE  ScheduleInv'
  <1>0. IsScheduleDraft(scheduleDraft) /\ IsPanel(panel)
    BY DEF ScheduleInv
  <1>1. CASE Schedule!OpenPanel
    <2>1. CASE panel.preserve
      <3>1. /\ panel' = [panel EXCEPT !.open = TRUE, !.preserve = FALSE]
            /\ scheduleDraft' = Schedule!CloseCalendar(scheduleDraft) /\ base' = base
        BY <1>1, <2>1 DEF Schedule!OpenPanel
      <3>2. scheduleDraft'.layers = scheduleDraft.layers /\ IsScheduleDraft(scheduleDraft')
        BY <1>0, <3>1, ChoicesKeep DEF IsScheduleDraft, Schedule!CloseCalendar
      <3>3. /\ IsPanel(panel') /\ panel'.asked = panel.asked /\ panel'.msg = panel.msg
            /\ panel'.view = panel.view
        BY <1>0, <3>1 DEF IsPanel
      <3> QED
        BY <3>1, <3>2, <3>3 DEF ScheduleInv, MainIsAsked, Schedule!MainDiffers, IsScheduleDraft, IsPanel
    <2>2. CASE ~panel.preserve
      <3>1. Schedule!Reinit([panel EXCEPT !.open = TRUE], rules)
        BY <1>1, <2>2 DEF Schedule!OpenPanel
      <3>2. IsPanel([panel EXCEPT !.open = TRUE])
        BY <1>0 DEF IsPanel
      <3> QED
        BY <3>1, <3>2, ReinitAgrees
    <2> QED
      BY <2>1, <2>2
  <1>2. CASE Schedule!SoftClose
    BY <1>2, LeftKeeps DEF Schedule!SoftClose, Schedule!Free
  <1>3. CASE Schedule!HardClose
    BY <1>0, <1>3, ClosedKeeps DEF Schedule!HardClose
  <1>4. CASE Schedule!Pencil
    <2> DEFINE p == IF panel.view = "confirm" THEN [panel EXCEPT !.view = "edit"]
                    ELSE [panel EXCEPT !.editing = ~@]
               d == [scheduleDraft EXCEPT !.aggregate = @ \/ ~p.editing]
    <2>1. IsPanel(p) /\ p.asked = panel.asked
      BY <1>0 DEF IsPanel
    <2> HIDE DEF p
    <2>2. scheduleDraft' = d /\ panel' = Schedule!Warned(p, d) /\ base' = base /\ panel.msg = "none"
      BY <1>4 DEF Schedule!Pencil, Schedule!Reachable, Schedule!Free, p
    <2>3. scheduleDraft'.layers = scheduleDraft.layers /\ IsScheduleDraft(scheduleDraft')
      BY <1>0, <2>2 DEF IsScheduleDraft
    <2>4. IsPanel(panel') /\ panel'.asked = panel.asked
      BY <2>1, <2>2, WarnedIsPanel DEF Schedule!Warned, IsPanel
    <2> QED
      BY <2>2, <2>3, <2>4, StandsWith
  <1> QED
    BY <1>1, <1>2, <1>3, <1>4

-----------------------------------------------------------------------------
LEMMA QuestionKeeps ==
  ASSUME ScheduleInv, Schedule!Question
  PROVE  ScheduleInv'
  <1>0. IsScheduleDraft(scheduleDraft) /\ IsPanel(panel)
    BY DEF ScheduleInv
  <1>1. ASSUME NEW msg, Schedule!Ask(msg)
        PROVE  ScheduleInv'
    BY <1>0, <1>1, StandsWith DEF Schedule!Ask, Schedule!Ready, Schedule!Editing, Schedule!Free, IsPanel
  <1>2. CASE Schedule!ClickClear
    BY <1>1, <1>2 DEF Schedule!ClickClear
  <1>3. CASE Schedule!ClickApprove
    <2>1. CASE Schedule!Pending
      <3>1. /\ panel' = [panel EXCEPT !.view = "confirm"] /\ scheduleDraft' = scheduleDraft /\ base' = base
            /\ panel.msg = "none"
        BY <1>3, <2>1 DEF Schedule!ClickApprove, Schedule!Ready, Schedule!Editing, Schedule!Free
      <3> QED
        BY <1>0, <3>1, StandsWith DEF IsPanel
    <2>2. CASE ~Schedule!Pending
      BY <1>1, <1>3, <2>2 DEF Schedule!ClickApprove
    <2> QED
      BY <2>1, <2>2
  <1>4. CASE Schedule!ClickRefresh
    <2>1. CASE Schedule!Pending
      BY <1>1, <1>4, <2>1 DEF Schedule!ClickRefresh
    <2>2. CASE ~Schedule!Pending
      <3>1. Schedule!ResetDraftToBase /\ panel' = [panel EXCEPT !.changed = FALSE]
        BY <1>4, <2>2 DEF Schedule!ClickRefresh
      <3> QED
        BY <1>0, <3>1, ResetAgrees DEF IsPanel
    <2> QED
      BY <2>1, <2>2
  <1>5. CASE Schedule!ClickBanner
    <2>1. panel' = [panel EXCEPT !.changed = FALSE] /\ panel.msg = "none"
      BY <1>5 DEF Schedule!ClickBanner, Schedule!Reachable, Schedule!Free
    <2>2. CASE Schedule!ResetDraftToBase
      BY <1>0, <2>1, <2>2, ResetAgrees DEF IsPanel
    <2>3. CASE UNCHANGED <<base, scheduleDraft>>
      BY <1>0, <2>1, <2>3, StandsWith DEF IsPanel
    <2> QED
      BY <1>5, <2>2, <2>3 DEF Schedule!ClickBanner
  <1>6. CASE Schedule!ConfirmMain
    <2>1. IsPanel(panel') /\ panel'.asked
      BY <1>0, <1>6 DEF Schedule!ConfirmMain, IsPanel
    <2> QED
      BY <1>6, <2>1 DEF Schedule!ConfirmMain, ScheduleInv, MainIsAsked, Schedule!MainDiffers, IsScheduleDraft, IsPanel, IsSame
  <1>7. CASE Schedule!CancelMain
    <2> DEFINE r == Schedule!RememberAll(scheduleDraft, base.dict.main)
               back == [r EXCEPT !.layers.main = base.dict.main]
    <2>1. IsScheduleDraft(r)
      BY <1>0, ChoicesKeep
    <2>2. IsScheduleDraft(back) /\ back.layers.main = base.dict.main
      <3> HIDE DEF r
      <3>1. IsScheduleDraft(back)
        BY <2>1, LayersPartsKeep
      <3>2. back.layers.main = base.dict.main
        BY <2>1, Zenon DEF IsScheduleDraft
      <3> QED
        BY <3>1, <3>2
    <2>3. scheduleDraft' = IF scheduleDraft.main THEN Schedule!Load(back, Schedule!The(base.dict.main)) ELSE back
      BY <1>7 DEF Schedule!CancelMain, Schedule!MainGoesBack
    <2> HIDE DEF back
    <2>4. Schedule!Load(back, Schedule!The(base.dict.main)).layers = back.layers
      BY <2>2, Zenon DEF Schedule!Load, IsScheduleDraft
    <2>5. IsScheduleDraft(scheduleDraft') /\ scheduleDraft'.layers.main = base.dict.main
      BY <2>2, <2>3, <2>4, ChoicesKeep
    <2>6. IsPanel(panel') /\ base' = base
      BY <1>0, <1>7 DEF Schedule!CancelMain, Schedule!Answered, IsPanel
    <2> QED
      BY <2>5, <2>6, AgreesWith DEF ScheduleInv, IsSame
  <1>8. CASE Schedule!ConfirmClear
    <2> DEFINE cleared == IF panel.msg = "clear" THEN Schedule!DoClearAll(scheduleDraft) ELSE Schedule!ClearStatic(scheduleDraft)
    <2>1. /\ scheduleDraft' = Schedule!CloseCalendar(cleared) /\ base' = base /\ panel.msg # "main"
          /\ panel' = [panel EXCEPT !.msg = "none"]
      BY <1>8 DEF Schedule!ConfirmClear, Schedule!Answered
    <2>2. /\ IsScheduleDraft(cleared)
          /\ cleared.layers.main = scheduleDraft.layers.main \/ cleared.layers.main = {}
      BY <1>0, AllIsCleared, StaticIsCleared
    <2> HIDE DEF cleared
    <2>3. scheduleDraft'.layers = cleared.layers /\ IsScheduleDraft(scheduleDraft')
      <3>1. Schedule!CloseCalendar(cleared).layers = cleared.layers
        BY <2>2, Zenon DEF Schedule!CloseCalendar, IsScheduleDraft
      <3> QED
        BY <2>1, <2>2, <3>1, ChoicesKeep
    <2>4. IsPanel(panel') /\ panel'.asked = panel.asked
      BY <1>0, <2>1 DEF IsPanel
    <2>5. CASE cleared.layers.main = scheduleDraft.layers.main
      BY <2>1, <2>3, <2>4, <2>5, StandsWith
    <2>6. CASE cleared.layers.main = {}
      BY <2>1, <2>3, <2>4, <2>6, AgreesWith DEF ScheduleInv, IsSame
    <2> QED
      BY <2>2, <2>5, <2>6
  <1>9. CASE Schedule!ConfirmRefresh
    <2>1. Schedule!ResetDraftToBase /\ panel' = [panel EXCEPT !.msg = "none", !.changed = FALSE]
      BY <1>9 DEF Schedule!ConfirmRefresh
    <2> QED
      BY <1>0, <2>1, ResetAgrees DEF IsPanel
  <1>10. CASE Schedule!CloseMessage
    <2>1. /\ scheduleDraft' = Schedule!CloseCalendar(scheduleDraft) /\ base' = base /\ panel.msg # "main"
          /\ panel' = [panel EXCEPT !.msg = "none"]
      BY <1>10 DEF Schedule!CloseMessage, Schedule!Answered
    <2>2. scheduleDraft'.layers = scheduleDraft.layers /\ IsScheduleDraft(scheduleDraft')
      BY <1>0, <2>1, ChoicesKeep DEF IsScheduleDraft, Schedule!CloseCalendar
    <2> QED
      BY <1>0, <2>1, <2>2, StandsWith DEF IsPanel
  <1> QED
    BY <1>2, <1>3, <1>4, <1>5, <1>6, <1>7, <1>8, <1>9, <1>10 DEF Schedule!Question

LEMMA NetKeeps ==
  ASSUME ScheduleInv, Schedule!Net
  PROVE  ScheduleInv'
  <1>0. IsScheduleDraft(scheduleDraft) /\ IsPanel(panel)
    BY DEF ScheduleInv
  <1>1. CASE Schedule!Commit
    <2>1. /\ panel' = [panel EXCEPT !.committing = TRUE] /\ scheduleDraft' = scheduleDraft /\ base' = base
          /\ panel.msg = "none"
      BY <1>1 DEF Schedule!Commit, Schedule!Free
    <2> QED
      BY <1>0, <2>1, StandsWith DEF IsPanel
  <1>2. CASE Schedule!ClickBack
    <2> DEFINE p == [panel EXCEPT !.view = "edit"]
    <2>1. IsPanel(p) /\ p.asked = panel.asked
      BY <1>0 DEF IsPanel
    <2> HIDE DEF p
    <2>2. panel' = Schedule!Warned(p, scheduleDraft) /\ scheduleDraft' = scheduleDraft /\ base' = base /\ panel.msg = "none"
      BY <1>2 DEF Schedule!ClickBack, Schedule!Show, Schedule!Free, p
    <2>3. IsPanel(panel') /\ panel'.asked = panel.asked
      BY <2>1, <2>2, WarnedIsPanel DEF Schedule!Warned, IsPanel
    <2> QED
      BY <1>0, <2>2, <2>3, StandsWith
  <1>3. CASE Schedule!ServerApplies \/ Schedule!OtherOperatorSaves \/ Schedule!PageReads \/ Schedule!ReadFails
    <2>1. UNCHANGED <<base, panel, scheduleDraft>>
      BY <1>3 DEF Schedule!ServerApplies, Schedule!OtherOperatorSaves, Schedule!PageReads, Schedule!ReadFails
    <2> QED
      BY <2>1 DEF ScheduleInv, MainIsAsked, Schedule!MainDiffers, IsScheduleDraft, IsPanel, IsSame
  <1>4. CASE Schedule!BatchSaved
    <2> DEFINE p == [panel EXCEPT !.committing = FALSE]
    <2>1. Schedule!Close(p, FALSE)
      BY <1>4 DEF Schedule!BatchSaved
    <2>2. IsPanel(p)
      BY <1>0 DEF IsPanel
    <2> HIDE DEF p
    <2> QED
      BY <2>1, <2>2, ClosedKeeps
  <1>5. CASE Schedule!BatchFails
    <2>1. panel' = [panel EXCEPT !.committing = FALSE] /\ scheduleDraft' = scheduleDraft /\ base' = base
      BY <1>5 DEF Schedule!BatchFails
    <2>2. IsPanel(panel') /\ panel'.asked = panel.asked /\ panel'.msg = panel.msg /\ panel'.view = panel.view
      BY <1>0, <2>1 DEF IsPanel
    <2> QED
      BY <2>1, <2>2 DEF ScheduleInv, MainIsAsked, Schedule!MainDiffers, IsScheduleDraft, IsPanel, IsSame
  <1>6. CASE Schedule!RulesArrive
    <2>1. CASE UNCHANGED <<panel, scheduleDraft, base>>
      BY <2>1 DEF ScheduleInv, MainIsAsked, Schedule!MainDiffers, IsScheduleDraft, IsPanel, IsSame
    <2>2. CASE panel' = [panel EXCEPT !.changed = TRUE] /\ UNCHANGED <<scheduleDraft, base>>
      <3>1. IsPanel(panel') /\ panel'.asked = panel.asked /\ panel'.msg = panel.msg /\ panel'.view = panel.view
        BY <1>0, <2>2 DEF IsPanel
      <3> QED
        BY <2>2, <3>1 DEF ScheduleInv, MainIsAsked, Schedule!MainDiffers, IsScheduleDraft, IsPanel, IsSame
    <2>3. CASE \E listing : Schedule!Reinit(panel, listing)
      BY <1>0, <2>3, ReinitAgrees
    <2> QED
      BY <1>6, <2>1, <2>2, <2>3 DEF Schedule!RulesArrive
  <1> QED
    BY <1>1, <1>2, <1>3, <1>4, <1>5, <1>6 DEF Schedule!Net

-----------------------------------------------------------------------------
\* The inductive invariant of the editor: draft and panel keep their parts, what the draft is
\* compared with has one main layer, and where the draft differs from it in the main layer the
\* operator was asked or the question stands before him (ConnectionSchedulePopover).
THEOREM ScheduleInvariant == Schedule!Spec => []ScheduleInv
  <1>1. Schedule!Init => ScheduleInv
    <2> SUFFICES ASSUME Schedule!Init PROVE ScheduleInv
      OBVIOUS
    <2>1. scheduleDraft = Schedule!FreshDraft(Schedule!EmptyDict) /\ base = Schedule!BaseOf(<<>>)
      BY DEF Schedule!Init
    <2>2. IsScheduleDraft(scheduleDraft) /\ scheduleDraft.layers.main = {}
      BY <2>1 DEF Schedule!FreshDraft, Schedule!EmptyDict, IsScheduleDraft
    <2>3. IsPanel(panel)
      BY DEF Schedule!Init, IsPanel
    <2>4. IsSame(base.dict.main)
      BY <2>1, DictOfRules
    <2> QED
      BY <2>2, <2>3, <2>4 DEF ScheduleInv, MainIsAsked, Schedule!MainDiffers
  <1>2. ScheduleInv /\ [Schedule!Next]_(Schedule!editorVars) => ScheduleInv'
    <2> SUFFICES ASSUME ScheduleInv, [Schedule!Next]_(Schedule!editorVars) PROVE ScheduleInv'
      OBVIOUS
    <2>1. CASE Schedule!OpenPanel \/ Schedule!SoftClose \/ Schedule!HardClose \/ Schedule!Pencil
      BY <2>1, PanelKeeps
    <2>2. CASE Schedule!Choose
      BY <2>2, ChooseKeeps
    <2>3. CASE Schedule!Modify
      BY <2>3, ModifyKeeps
    <2>4. CASE Schedule!Calendar
      BY <2>4, CalendarKeeps
    <2>5. CASE Schedule!Question
      BY <2>5, QuestionKeeps
    <2>6. CASE Schedule!Net
      BY <2>6, NetKeeps
    <2>7. CASE UNCHANGED Schedule!editorVars
      BY <2>7 DEF Schedule!editorVars, ScheduleInv, MainIsAsked, Schedule!MainDiffers, IsScheduleDraft, IsPanel, IsSame
    <2> QED
      BY <2>1, <2>2, <2>3, <2>4, <2>5, <2>6, <2>7 DEF Schedule!Next
  <1> QED
    BY <1>1, <1>2, PTL DEF Schedule!Spec

\* The main layer changes only after the question about it, by the invariant.
THEOREM MainIsAskedFirst == Schedule!Spec => []Schedule!MainChangeIsAsked
  <1>1. ScheduleInv => Schedule!MainChangeIsAsked
    BY DEF ScheduleInv, MainIsAsked, Schedule!MainChangeIsAsked
  <1> QED
    BY <1>1, ScheduleInvariant, PTL

\* Of what comes from the server only the answer to a save closes the panel,
\* and only what finds nothing at stake replaces the draft.
THEOREM NetTakesNothing == Schedule!Spec => Schedule!UnsavedKept
  <1>1. ScheduleInv /\ [Schedule!Next]_(Schedule!editorVars) => [Schedule!NetKeepsUnsaved]_(Schedule!editorVars)
    <2> SUFFICES ASSUME ScheduleInv, Schedule!Next, scheduleServer' # scheduleServer \/ rules' # rules \/ batch' # batch,
                        panel.open, panel'.open, panel.editing, Schedule!Pending
                 PROVE  scheduleDraft' = scheduleDraft /\ base' = base
      BY DEF Schedule!NetKeepsUnsaved
    <2>1. CASE Schedule!OpenPanel \/ Schedule!SoftClose \/ Schedule!HardClose \/ Schedule!Pencil
      BY <2>1, Zenon DEF Schedule!OpenPanel, Schedule!SoftClose, Schedule!HardClose, Schedule!Pencil, Schedule!netVars
    <2>2. CASE Schedule!Choose
      BY <2>2, Zenon DEF Schedule!Choose, Schedule!ClickOverview, Schedule!ClickMain, Schedule!ClickGroup, Schedule!ClickDay, Schedule!ClickChart, Schedule!Click, Schedule!Edits, Schedule!netVars
    <2>3. CASE Schedule!Modify
      BY <2>3, Zenon DEF Schedule!Modify, Schedule!ClickMode, Schedule!ClickTemplate, Schedule!ClickShift, Schedule!Drag, Schedule!Click, Schedule!Edits, Schedule!netVars
    <2>4. CASE Schedule!Calendar
      BY <2>4, Zenon DEF Schedule!Calendar, Schedule!ClickCalendar, Schedule!ClickDate, Schedule!ClickNowhere, Schedule!ClickGo, Schedule!ClickCancelSelected,
                  Schedule!ClickRestore, Schedule!ClickReset, Schedule!Picks, Schedule!InCalendar, Schedule!Edits, Schedule!netVars
    <2>5. CASE Schedule!Question
      BY <2>5, Zenon DEF Schedule!Question, Schedule!ClickClear, Schedule!ClickApprove, Schedule!ClickRefresh, Schedule!ClickBanner, Schedule!ConfirmMain,
                  Schedule!CancelMain, Schedule!ConfirmClear, Schedule!ConfirmRefresh, Schedule!CloseMessage, Schedule!Ask, Schedule!netVars
    <2>6. CASE Schedule!Net
      <3>1. CASE Schedule!BatchSaved
        <4>1. panel' = [[panel EXCEPT !.committing = FALSE] EXCEPT !.open = FALSE, !.preserve = FALSE]
          BY <3>1 DEF Schedule!BatchSaved, Schedule!Close
        <4>2. panel'.open = FALSE
          BY <4>1 DEF ScheduleInv, IsPanel
        <4> QED
          BY <4>2
      <3>2. CASE Schedule!ClickBack
        BY <3>2, Zenon DEF Schedule!ClickBack, Schedule!netVars
      <3>3. CASE Schedule!RulesArrive
        BY <3>3, Zenon DEF Schedule!RulesArrive, Schedule!DraftIsAtStake
      <3>4. CASE ~Schedule!BatchSaved /\ ~Schedule!ClickBack /\ ~Schedule!RulesArrive
        BY <2>6, <3>4, Zenon DEF Schedule!Net, Schedule!Commit, Schedule!ServerApplies, Schedule!BatchFails, Schedule!OtherOperatorSaves, Schedule!PageReads, Schedule!ReadFails
      <3> QED
        BY <3>1, <3>2, <3>3, <3>4
    <2> QED
      BY <2>1, <2>2, <2>3, <2>4, <2>5, <2>6 DEF Schedule!Next
  <1> QED
    BY <1>1, ScheduleInvariant, PTL DEF Schedule!Spec, Schedule!UnsavedKept

-----------------------------------------------------------------------------
(* Windows in the order of their beginnings. *)

Span == [from : Int, to : Int]
Lies(m, s) == s.from <= m /\ m < s.to

\* The schedule counts as everyone does.
LEMMA SameCount ==
  ASSUME NEW S
  PROVE  Schedule!Cardinality(S) = Cardinality(S)
  <1>1. \A T : Schedule!IsFiniteSet(T) = IsFiniteSet(T)
    BY Zenon DEF Schedule!IsFiniteSet, IsFiniteSet
  <1> QED
    BY <1>1, Zenon DEF Schedule!Cardinality, Cardinality

LEMMA BeforeIsOrder ==
  /\ \A a \in Span : ~Schedule!Before(a, a)
  /\ \A a, b \in Span : a = b \/ Schedule!Before(a, b) \/ Schedule!Before(b, a)
  /\ \A a, b, c \in Span : Schedule!Before(a, b) /\ Schedule!Before(b, c) => Schedule!Before(a, c)
  BY DEF Span, Schedule!Before

LEMMA OneIsLast ==
  ASSUME NEW S \in SUBSET Span, IsFiniteSet(S), S # {}
  PROVE  \E t \in S : \A s \in S \ {t} : Schedule!Before(s, t)
  <1> DEFINE n == Cardinality(S)
             HasLast(U) == \E t \in U : \A s \in U \ {t} : Schedule!Before(s, t)
             T == {k \in 0..n : \A U \in SUBSET S : Cardinality(U) = k /\ U # {} => HasLast(U)}
  <1>1. n \in Nat
    BY FS_CardinalityType
  <1>2. 0 \in T
    BY <1>1, FS_Subset, FS_EmptySet
  <1>3. \A k \in 0..(n - 1) : k \in T => k + 1 \in T
    <2> SUFFICES ASSUME NEW k \in 0..(n - 1), k \in T, NEW U \in SUBSET S, Cardinality(U) = k + 1
                 PROVE  HasLast(U)
      BY <1>1
    <2>1. IsFiniteSet(U)
      BY FS_Subset
    <2>2. PICK u \in U : TRUE
      BY <2>1, FS_EmptySet
    <2> DEFINE V == U \ {u}
    <2>3. Cardinality(V) = k /\ V \in SUBSET S /\ U = V \cup {u}
      <3>1. Cardinality(V) = Cardinality(U) - 1
        BY <2>1, <2>2, FS_RemoveElement
      <3>2. k \in Int
        BY <1>1
      <3>3. Cardinality(V) = (k + 1) - 1
        BY <3>1, Zenon
      <3>4. V \in SUBSET S /\ U = V \cup {u}
        BY <2>2
      <3> HIDE DEF V
      <3> QED
        BY <3>2, <3>3, <3>4
    <2>4. CASE V = {}
      BY <2>2, <2>3, <2>4
    <2>5. CASE V # {}
      <3>1. PICK t \in V : \A s \in V \ {t} : Schedule!Before(s, t)
        BY <2>3, <2>5
      <3>2. t \in Span /\ u \in Span /\ V \subseteq Span /\ t # u
        BY <2>2, <2>3, <3>1
      <3>3. CASE Schedule!Before(u, t)
        BY <2>3, <3>1, <3>3
      <3>4. CASE Schedule!Before(t, u)
        <4>1. \A s \in V : Schedule!Before(s, u)
          BY <3>1, <3>2, <3>4, BeforeIsOrder
        <4> QED
          BY <2>2, <2>3, <4>1
      <3> QED
        BY <3>2, <3>3, <3>4, BeforeIsOrder
    <2> QED
      BY <2>4, <2>5
  <1> HIDE DEF T
  <1>4. n \in T
    BY <1>1, <1>2, <1>3, UpTo
  <1> QED
    BY <1>4 DEF T

Orders(s, k) == \A i, j \in 1..k : i < j => Schedule!Before(s[i], s[j])
LEMMA SortExists ==
  ASSUME NEW S \in SUBSET Span, IsFiniteSet(S)
  PROVE  \E s \in [1..Cardinality(S) -> S] : Orders(s, Cardinality(S))
  <1> DEFINE n == Cardinality(S)
             T == {k \in 0..n : \A U \in SUBSET S : Cardinality(U) = k => \E s \in [1..k -> U] : Orders(s, k)}
  <1>1. n \in Nat
    BY FS_CardinalityType
  <1>2. 0 \in T
    <2> SUFFICES ASSUME NEW U \in SUBSET S PROVE \E s \in [1..0 -> U] : Orders(s, 0)
      BY <1>1
    <2>1. [i \in 1..0 |-> i] \in [1..0 -> U] /\ Orders([i \in 1..0 |-> i], 0)
      BY DEF Orders
    <2> QED
      BY <2>1
  <1>3. \A k \in 0..(n - 1) : k \in T => k + 1 \in T
    <2> SUFFICES ASSUME NEW k \in 0..(n - 1), k \in T, NEW U \in SUBSET S, Cardinality(U) = k + 1
                 PROVE  \E s \in [1..(k + 1) -> U] : Orders(s, k + 1)
      BY <1>1
    <2>1. IsFiniteSet(U) /\ U # {} /\ U \in SUBSET Span
      BY FS_Subset, FS_EmptySet
    <2>2. PICK t \in U : \A s \in U \ {t} : Schedule!Before(s, t)
      BY <2>1, OneIsLast
    <2> DEFINE V == U \ {t}
    <2>3. Cardinality(V) = k /\ V \in SUBSET S
      <3>1. Cardinality(V) = Cardinality(U) - 1
        BY <2>1, <2>2, FS_RemoveElement
      <3>2. k \in Int
        BY <1>1
      <3>3. Cardinality(V) = (k + 1) - 1
        BY <3>1, Zenon
      <3>4. V \in SUBSET S
        OBVIOUS
      <3> HIDE DEF V
      <3> QED
        BY <3>2, <3>3, <3>4
    <2>4. PICK s \in [1..k -> U \ {t}] : Orders(s, k)
      BY <2>3
    <2> DEFINE r == [i \in 1..(k + 1) |-> IF i = k + 1 THEN t ELSE s[i]]
    <2>5. r \in [1..(k + 1) -> U]
      BY <2>2, <2>4
    <2>6. ASSUME NEW i \in 1..(k + 1), NEW j \in 1..(k + 1), i < j PROVE Schedule!Before(r[i], r[j])
      <3>1. i \in 1..k /\ r[i] = s[i] /\ s[i] \in U \ {t}
        BY <2>4, <2>6
      <3>2. CASE j = k + 1
        BY <2>2, <3>1, <3>2
      <3>3. CASE j # k + 1
        <4>1. j \in 1..k /\ r[j] = s[j]
          BY <3>3
        <4> QED
          BY <2>4, <2>6, <3>1, <4>1 DEF Orders
      <3> QED
        BY <3>2, <3>3
    <2>7. Orders(r, k + 1)
      <3> HIDE DEF r
      <3> QED
        BY <2>6 DEF Orders
    <2> QED
      BY <2>5, <2>7
  <1> HIDE DEF T
  <1>4. n \in T
    BY <1>1, <1>2, <1>3, UpTo
  <1> QED
    BY <1>4 DEF T

\* Every window has its place.
LEMMA SortedIs ==
  ASSUME NEW S \in SUBSET Span, IsFiniteSet(S)
  PROVE  LET sorted == Schedule!Sorted(S)
             n == Cardinality(S)
         IN  /\ n \in Nat /\ sorted \in [1..n -> S] /\ Orders(sorted, n)
             /\ \A s \in S : \E i \in 1..n : sorted[i] = s
  <1> DEFINE sorted == Schedule!Sorted(S)
             n == Cardinality(S)
  <1>1. n \in Nat
    BY FS_CardinalityType
  <1>2. \E s \in [1..n -> S] : \A i, j \in DOMAIN s : i < j => Schedule!Before(s[i], s[j])
    BY SortExists DEF Orders
  <1>3. sorted \in [1..n -> S] /\ \A i, j \in DOMAIN sorted : i < j => Schedule!Before(sorted[i], sorted[j])
    BY <1>2, SameCount, Zenon DEF Schedule!Sorted
  <1> HIDE DEF sorted, n
  <1>4. Orders(sorted, n)
    BY <1>3 DEF Orders
  <1>5. sorted \in Injection(1..n, S)
    <2>1. \A i, j \in 1..n : i < j => sorted[i] # sorted[j]
      BY <1>3, <1>4, BeforeIsOrder DEF Orders
    <2>2. \A i, j \in 1..n : sorted[i] = sorted[j] => i = j
      BY <1>1, <2>1
    <2> QED
      BY <1>3, <2>2 DEF Injection, IsInjective
  <1>6. sorted \in Surjection(1..n, S)
    <2>1. IsFiniteSet(1..n) /\ Cardinality(1..n) = n
      BY <1>1, FS_Interval
    <2> QED
      BY <1>5, <2>1, FS_Injection DEF n
  <1> QED
    BY <1>1, <1>3, <1>4, <1>6 DEF Surjection, n, sorted

-----------------------------------------------------------------------------
(* Windows that meet become one, and what they leave between them. *)
LEMMA EndsOfPair ==
  ASSUME NEW a \in Int, NEW b \in Int
  PROVE  /\ Schedule!Max({a, b}) = IF a >= b THEN a ELSE b
         /\ Schedule!Min({a, b}) = IF a <= b THEN a ELSE b
  BY DEF Schedule!Max, Schedule!Min

\* One after the other, none meets the next.
Apart(row) ==
  /\ row \in Seq(Span)
  /\ \A i \in 1..Len(row) : row[i].from < row[i].to
  /\ \A i, j \in 1..Len(row) : i < j => row[i].to < row[j].from
Joined(acc, spans, k) ==
  /\ Apart(acc)
  /\ k > 0 => \A i \in 1..Len(acc) : acc[i].from <= spans[k].from
  /\ \A m \in Int : (\E i \in 1..Len(acc) : Lies(m, acc[i])) <=> \E i \in 1..k : Lies(m, spans[i])

LEMMA SpanJoins ==
  ASSUME NEW n \in Nat, NEW spans \in [1..n -> Span], \A i \in 1..n : spans[i].from < spans[i].to,
         Orders(spans, n), NEW k \in 0..(n - 1), NEW acc, Joined(acc, spans, k)
  PROVE  Joined(Schedule!JoinHalfOpen(acc, spans[k + 1]), spans, k + 1)
  <1> DEFINE s == spans[k + 1]
             new == Schedule!JoinHalfOpen(acc, s)
             l == Len(acc)
  <1>1. acc \in Seq(Span) /\ l \in Nat /\ s \in Span /\ s.from < s.to /\ k \in Nat /\ k + 1 \in 1..n
    <2>1. acc \in Seq(Span)
      BY DEF Joined, Apart
    <2>2. k \in Nat /\ k + 1 \in 1..n
      OBVIOUS
    <2> QED
      BY <2>1, <2>2
  <1>2. \A i \in 1..l : acc[i] \in Span /\ acc[i].from \in Int /\ acc[i].to \in Int /\ acc[i].from < acc[i].to
    <2> TAKE i \in 1..l
    <2>1. acc[i] \in Span
      BY <1>1
    <2>2. acc[i].from < acc[i].to
      BY DEF Joined, Apart
    <2> QED
      BY <2>1, <2>2 DEF Span
  <1>3. s.from \in Int /\ s.to \in Int
    BY <1>1 DEF Span
  <1>4. \A i \in 1..l : acc[i].from <= s.from
    <2>1. CASE k = 0
      <3>1. ~\E i \in 1..l : Lies(acc[i].from, acc[i])
        BY <1>2, <2>1 DEF Joined
      <3>2. \A i \in 1..l : Lies(acc[i].from, acc[i])
        BY <1>2 DEF Lies
      <3> QED
        BY <3>1, <3>2
    <2>2. CASE k > 0
      <3>1. k \in 1..n /\ k < k + 1
        BY <1>1, <2>2
      <3>2. Schedule!Before(spans[k], s)
        BY <1>1, <3>1 DEF Orders
      <3>3. spans[k].from \in Int /\ spans[k].from <= s.from
        BY <1>3, <3>1, <3>2 DEF Schedule!Before, Span
      <3>4. \A i \in 1..l : acc[i].from <= spans[k].from
        BY <2>2 DEF Joined
      <3> QED
        BY <1>2, <1>3, <3>3, <3>4
    <2> QED
      BY <1>1, <2>1, <2>2
  <1>5. \A m \in Int : (\E i \in 1..(k + 1) : Lies(m, spans[i]))
                         <=> (\E i \in 1..l : Lies(m, acc[i])) \/ Lies(m, s)
    <2>1. \A i \in 1..(k + 1) : i \in 1..k \/ i = k + 1
      BY <1>1
    <2>2. k + 1 \in 1..(k + 1) /\ \A i \in 1..k : i \in 1..(k + 1)
      BY <1>1
    <2> QED
      BY <2>1, <2>2 DEF Joined
  <1> HIDE DEF s
  <1>6. CASE acc # <<>> /\ s.from <= acc[l].to
    <2> DEFINE to == Schedule!Max({acc[l].to, s.to})
               last == [from |-> acc[l].from, to |-> to]
    <2>1. l \in 1..l /\ l > 0
      BY <1>1, <1>6
    <2>2. to \in Int /\ acc[l].to <= to /\ s.to <= to /\ (to = acc[l].to \/ to = s.to)
      BY <1>2, <1>3, <2>1, EndsOfPair, SMTT(30)
    <2>3. new = [acc EXCEPT ![l] = [@ EXCEPT !.to = to]]
      BY <1>6 DEF Schedule!JoinHalfOpen, Schedule!Last
    <2> HIDE DEF to, new
    <2>4. [acc[l] EXCEPT !.to = to] = last
      BY <1>2, <2>1 DEF Span
    <2>5. last \in Span
      BY <1>2, <2>1, <2>2 DEF Span
    <2>6. new \in Seq(Span) /\ Len(new) = l /\ new[l] = last /\ \A i \in 1..l : i # l => new[i] = acc[i]
      BY <1>1, <2>1, <2>3, <2>4, <2>5
    <2>7. \A i \in 1..l : new[i].from = acc[i].from
      BY <2>6
    <2>8. \A i \in 1..l : new[i].from < new[i].to
      BY <1>2, <2>1, <2>2, <2>6
    <2>9. ASSUME NEW i \in 1..l, NEW j \in 1..l, i < j PROVE new[i].to < new[j].from
      <3>1. i # l
        BY <1>1, <2>9
      <3>2. acc[i].to < acc[j].from
        BY <2>9 DEF Joined, Apart
      <3> QED
        BY <2>6, <2>7, <3>1, <3>2
    <2>10. \A m \in Int : Lies(m, last) <=> Lies(m, acc[l]) \/ Lies(m, s)
      BY <1>2, <1>3, <1>4, <1>6, <2>1, <2>2 DEF Lies
    <2>11. \A m \in Int : (\E i \in 1..l : Lies(m, new[i])) <=> (\E i \in 1..l : Lies(m, acc[i])) \/ Lies(m, s)
      BY <2>1, <2>6, <2>10
    <2>12. Apart(new)
      BY <2>6, <2>8, <2>9 DEF Apart
    <2> QED
      BY <1>4, <1>5, <2>6, <2>7, <2>11, <2>12 DEF Joined, new, s
  <1>7. CASE ~(acc # <<>> /\ s.from <= acc[l].to)
    <2>1. new = Append(acc, s)
      BY <1>7 DEF Schedule!JoinHalfOpen, Schedule!Last
    <2> HIDE DEF new
    <2>2. new \in Seq(Span) /\ Len(new) = l + 1 /\ new[l + 1] = s /\ \A i \in 1..l : new[i] = acc[i]
      BY <1>1, <2>1
    <2>3. \A i \in 1..l : acc[i].to < s.from
      <3> TAKE i \in 1..l
      <3>1. l \in 1..l /\ acc # <<>>
        BY <1>1
      <3>2. acc[l].to < s.from
        BY <1>2, <1>3, <1>7, <3>1
      <3>3. CASE i = l
        BY <3>2, <3>3
      <3>4. CASE i < l
        <4>1. acc[i].to < acc[l].from /\ acc[l].from < acc[l].to
          BY <1>2, <3>1, <3>4 DEF Joined, Apart
        <4> QED
          BY <1>2, <1>3, <3>1, <3>2, <4>1
      <3> QED
        BY <1>1, <3>3, <3>4
    <2>4. \A i \in 1..(l + 1) : i \in 1..l \/ i = l + 1
      BY <1>1
    <2>5. \A i \in 1..(l + 1) : new[i].from < new[i].to /\ new[i].from <= s.from
      BY <1>1, <1>2, <1>3, <1>4, <2>2, <2>4, SMTT(30)
    <2>6. ASSUME NEW i \in 1..(l + 1), NEW j \in 1..(l + 1), i < j PROVE new[i].to < new[j].from
      <3>1. i \in 1..l
        BY <1>1, <2>6
      <3>2. CASE j = l + 1
        BY <2>2, <2>3, <3>1, <3>2
      <3>3. CASE j \in 1..l
        BY <2>2, <2>6, <3>1, <3>3 DEF Joined, Apart
      <3> QED
        BY <2>4, <3>2, <3>3
    <2>7. \A m \in Int : (\E i \in 1..(l + 1) : Lies(m, new[i])) <=> (\E i \in 1..l : Lies(m, acc[i])) \/ Lies(m, s)
      <3>1. l + 1 \in 1..(l + 1) /\ \A i \in 1..l : i \in 1..(l + 1)
        BY <1>1
      <3> QED
        BY <2>2, <2>4, <3>1
    <2>8. Apart(new)
      BY <2>2, <2>5, <2>6 DEF Apart
    <2> QED
      BY <1>5, <2>2, <2>5, <2>7, <2>8 DEF Joined, new, s
  <1> QED
    BY <1>6, <1>7

\* Merged windows cover what they covered, and no two of them meet.
LEMMA MergeCovers ==
  ASSUME NEW S \in SUBSET Span, IsFiniteSet(S), \A s \in S : s.from < s.to
  PROVE  /\ Apart(Schedule!MergeHalfOpen(S))
         /\ \A m \in Int : (\E i \in 1..Len(Schedule!MergeHalfOpen(S)) : Lies(m, Schedule!MergeHalfOpen(S)[i]))
                             <=> \E s \in S : Lies(m, s)
  <1> DEFINE spans == Schedule!Sorted(S)
             n == Cardinality(S)
  <1>1. /\ n \in Nat /\ spans \in [1..n -> S] /\ Orders(spans, n)
        /\ \A s \in S : \E i \in 1..n : spans[i] = s
    BY SortedIs
  <1> HIDE DEF spans, n
  <1>2. PICK a : Steps("join", a, <<>>, spans, n) /\ Schedule!FoldLeft(Schedule!JoinHalfOpen, <<>>, spans) = a[n]
    BY <1>1, JoinsFold
  <1> DEFINE T == {k \in 0..n : Joined(a[k], spans, k)}
  <1>3. 0 \in T
    <2>1. a[0] = <<>>
      BY <1>2 DEF Steps
    <2>2. Joined(<<>>, spans, 0)
      <3>1. <<>> \in Seq(Span) /\ Len(<<>>) = 0 /\ ~(0 > 0) /\ 1..0 = {}
        OBVIOUS
      <3> QED
        BY <3>1 DEF Joined, Apart
    <2> QED
      BY <1>1, <2>1, <2>2
  <1>4. \A k \in 0..(n - 1) : k \in T => k + 1 \in T
    <2> SUFFICES ASSUME NEW k \in 0..(n - 1), Joined(a[k], spans, k) PROVE Joined(a[k + 1], spans, k + 1)
      BY <1>1
    <2>1. k + 1 \in 1..n /\ (k + 1) - 1 = k
      BY <1>1
    <2>2. a[k + 1] = Schedule!JoinHalfOpen(a[k], spans[k + 1])
      BY <1>2, <2>1 DEF Steps, StepOf
    <2>3. spans \in [1..n -> Span] /\ \A i \in 1..n : spans[i].from < spans[i].to
      BY <1>1
    <2> QED
      BY <1>1, <2>2, <2>3, SpanJoins
  <1> HIDE DEF T
  <1>5. n \in T
    <2>1. \A k \in 0..n : k \in T
      BY <1>1, <1>3, <1>4, UpTo
    <2> QED
      BY <1>1, <2>1
  <1>6. Joined(Schedule!MergeHalfOpen(S), spans, n)
    <2>1. Schedule!MergeHalfOpen(S) = a[n]
      BY <1>2, Zenon DEF Schedule!MergeHalfOpen, spans
    <2> QED
      BY <1>5, <2>1 DEF T
  <1>7. \A m \in Int : (\E i \in 1..n : Lies(m, spans[i])) <=> \E s \in S : Lies(m, s)
    BY <1>1
  <1> QED
    BY <1>6, <1>7 DEF Joined

\* Up to the cursor a minute is idle where it lies in no window.
VoidsTo(acc, desired, from, k) ==
  /\ acc.cursor \in Int /\ acc.cursor >= from /\ acc.voids \in SUBSET Span
  /\ \A v \in acc.voids : v.to <= acc.cursor
  /\ \A i \in 1..k : desired[i].to <= acc.cursor
  /\ k = 0 => acc.cursor = from
  /\ k > 0 => acc.cursor = desired[k].to
  /\ \A m \in Int : from <= m /\ m < acc.cursor =>
       ((\E v \in acc.voids : Lies(m, v)) <=> ~\E i \in 1..k : Lies(m, desired[i]))

LEMMA VoidIsAdded ==
  ASSUME NEW from \in Int, NEW desired, Apart(desired), \A i \in 1..Len(desired) : from <= desired[i].from,
         NEW k \in 0..(Len(desired) - 1), NEW acc, VoidsTo(acc, desired, from, k)
  PROVE  VoidsTo(Schedule!VoidBefore(acc, desired[k + 1]), desired, from, k + 1)
  <1> DEFINE d == desired[k + 1]
             c == acc.cursor
             gap == [from |-> c, to |-> d.from]
             new == Schedule!VoidBefore(acc, d)
             more == IF d.from > c THEN {gap} ELSE {}
  <1>1. k \in Nat /\ k + 1 \in 1..Len(desired) /\ desired \in Seq(Span)
    <2>1. desired \in Seq(Span)
      BY DEF Apart
    <2> QED
      BY <2>1
  <1>2. \A i \in 1..Len(desired) : desired[i].from \in Int /\ desired[i].to \in Int
    <2>1. \A i \in 1..Len(desired) : desired[i] \in Span
      BY <1>1
    <2> QED
      BY <2>1 DEF Span
  <1>3. c \in Int /\ c >= from /\ acc.voids \in SUBSET Span
    BY DEF VoidsTo
  <1>4. d.from \in Int /\ d.to \in Int /\ d.from < d.to /\ from <= d.from
    BY <1>1, <1>2 DEF Apart
  <1>5. c <= d.from
    <2>1. CASE k = 0
      BY <1>4, <2>1 DEF VoidsTo
    <2>2. CASE k > 0
      <3>1. k \in 1..Len(desired) /\ k < k + 1
        BY <1>1, <2>2
      <3>2. desired[k].to < d.from
        BY <1>1, <3>1 DEF Apart
      <3>3. c = desired[k].to
        BY <2>2 DEF VoidsTo
      <3> QED
        BY <1>3, <1>4, <3>2, <3>3
    <2> QED
      BY <1>1, <2>1, <2>2
  <1>6. new.voids = acc.voids \cup more /\ new.cursor = d.to
    <2>1. Schedule!Max({c, d.to}) = d.to
      <3>1. ~(c >= d.to)
        BY <1>3, <1>4, <1>5
      <3> HIDE DEF c, d
      <3> QED
        BY <1>3, <1>4, <3>1, EndsOfPair
    <2>2. new = [voids |-> acc.voids \cup more, cursor |-> Schedule!Max({c, d.to})]
      BY Zenon DEF Schedule!VoidBefore
    <2> HIDE DEF new, more, c, d
    <2> QED
      BY <2>1, <2>2
  <1>7. more \in SUBSET Span /\ \A v \in more : v.to = d.from
    BY <1>3, <1>4 DEF Span
  <1>8. \A m \in Int : (\E v \in more : Lies(m, v)) <=> c <= m /\ m < d.from
    <2>1. \A m \in Int : Lies(m, gap) <=> c <= m /\ m < d.from
      BY Zenon DEF Lies
    <2>2. CASE d.from > c
      BY <2>1, <2>2
    <2>3. CASE ~(d.from > c)
      <3>1. more = {}
        BY <2>3
      <3> HIDE DEF more, c, d
      <3> QED
        BY <1>3, <1>4, <2>3, <3>1
    <2> QED
      BY <2>2, <2>3
  <1>9. \A i \in 1..(k + 1) : i \in 1..k \/ i = k + 1
    BY <1>1
  <1>10. k + 1 \in 1..(k + 1) /\ \A i \in 1..k : i \in 1..(k + 1) /\ i \in 1..Len(desired)
    BY <1>1
  <1>11. \A v \in acc.voids : v.from \in Int /\ v.to \in Int /\ v.to <= c
    BY <1>3 DEF VoidsTo, Span
  <1>12. \A i \in 1..k : desired[i].to <= c
    BY DEF VoidsTo
  <1>13. \A m \in Int : Lies(m, d) <=> d.from <= m /\ m < d.to
    BY DEF Lies
  <1>14. \A m \in Int : m >= c => ~\E v \in acc.voids : Lies(m, v)
    BY <1>3, <1>11 DEF Lies
  <1>15. \A m \in Int : m >= c => ~\E i \in 1..k : Lies(m, desired[i])
    BY <1>2, <1>3, <1>10, <1>12 DEF Lies
  <1>16. \A m \in Int : from <= m /\ m < c =>
           ((\E v \in acc.voids : Lies(m, v)) <=> ~\E i \in 1..k : Lies(m, desired[i]))
    BY DEF VoidsTo
  <1>17. \A m \in Int : (\E i \in 1..(k + 1) : Lies(m, desired[i])) <=> (\E i \in 1..k : Lies(m, desired[i])) \/ Lies(m, d)
    BY <1>9, <1>10
  <1> HIDE DEF new, more, c, d
  <1>18. \A m \in Int : (\E v \in new.voids : Lies(m, v)) <=> (\E v \in acc.voids : Lies(m, v)) \/ (c <= m /\ m < d.from)
    BY <1>6, <1>8
  <1>19. ASSUME NEW m \in Int, from <= m, m < d.to
         PROVE  (\E v \in new.voids : Lies(m, v)) <=> ~\E i \in 1..(k + 1) : Lies(m, desired[i])
    <2>1. CASE m < c
      BY <1>3, <1>4, <1>5, <1>13, <1>16, <1>17, <1>18, <1>19, <2>1
    <2>2. CASE m >= c
      BY <1>3, <1>4, <1>5, <1>13, <1>14, <1>15, <1>17, <1>18, <1>19, <2>2, SMTT(30)
    <2> QED
      BY <1>3, <2>1, <2>2
  <1>20. \A v \in new.voids : v.to <= new.cursor
    BY <1>3, <1>4, <1>5, <1>6, <1>7, <1>11
  <1>21. \A i \in 1..(k + 1) : desired[i].to <= new.cursor
    <2> TAKE i \in 1..(k + 1)
    <2>1. CASE i = k + 1
      BY <1>4, <1>6, <2>1 DEF d
    <2>2. CASE i \in 1..k
      BY <1>2, <1>3, <1>4, <1>5, <1>6, <1>10, <1>12, <2>2
    <2> QED
      BY <1>9, <2>1, <2>2
  <1>22. new.cursor \in Int /\ new.cursor >= from /\ new.voids \in SUBSET Span
    BY <1>3, <1>4, <1>6, <1>7
  <1>23. VoidsTo(new, desired, from, k + 1)
    <2>1. k + 1 # 0 /\ new.cursor = desired[k + 1].to
      BY <1>1, <1>6 DEF d
    <2>2. \A m \in Int : from <= m /\ m < new.cursor =>
       ((\E v \in new.voids : Lies(m, v)) <=> ~\E i \in 1..(k + 1) : Lies(m, desired[i]))
      BY <1>6, <1>19
    <2> QED
      BY <1>20, <1>21, <1>22, <2>1, <2>2, Zenon DEF VoidsTo
  <1> QED
    BY <1>23 DEF new, d

\* Between two moments a minute is idle where it lies in no window.
LEMMA InvertCovers ==
  ASSUME NEW from \in Int, NEW to \in Int, NEW desired, Apart(desired),
         \A i \in 1..Len(desired) : from <= desired[i].from
  PROVE  LET voids == Schedule!InvertHalfOpen(desired, from, to)
         IN  /\ voids \in SUBSET Span
             /\ \A m \in Int : from <= m /\ m < to =>
                  ((\E v \in voids : Lies(m, v)) <=> ~\E i \in 1..Len(desired) : Lies(m, desired[i]))
  <1> DEFINE n == Len(desired)
             start == [voids |-> {}, cursor |-> from]
             voids == Schedule!InvertHalfOpen(desired, from, to)
  <1>1. n \in Nat /\ DOMAIN desired = 1..n
    BY DEF Apart
  <1>2. PICK a : Steps("void", a, start, desired, n) /\ Schedule!FoldLeft(Schedule!VoidBefore, start, desired) = a[n]
    <2> HIDE DEF n, start
    <2> QED
      BY <1>1, VoidsFold
  <1> DEFINE T == {k \in 0..n : VoidsTo(a[k], desired, from, k)}
  <1>3. 0 \in T
    <2>1. a[0] = start
      BY <1>2 DEF Steps
    <2>2. VoidsTo(start, desired, from, 0)
      <3>1. start.voids = {} /\ start.cursor = from /\ ~(0 > 0) /\ 1..0 = {}
        OBVIOUS
      <3> HIDE DEF start
      <3> QED
        BY <3>1 DEF VoidsTo
    <2> HIDE DEF start, n
    <2> QED
      BY <1>1, <2>1, <2>2
  <1> HIDE DEF n, start, voids
  <1> HIDE DEF T
  <1>4. \A k \in 0..(n - 1) : k \in T => k + 1 \in T
    <2> SUFFICES ASSUME NEW k \in 0..(n - 1), k \in T PROVE k + 1 \in T
      OBVIOUS
    <2>1. k + 1 \in 1..n /\ (k + 1) - 1 = k
      BY <1>1
    <2>2. a[k + 1] = Schedule!VoidBefore(a[k], desired[k + 1])
      BY <1>2, <2>1 DEF Steps, StepOf
    <2>3. VoidsTo(a[k], desired, from, k)
      BY DEF T
    <2>4. VoidsTo(a[k + 1], desired, from, k + 1)
      BY <2>1, <2>2, <2>3, VoidIsAdded DEF n
    <2>5. k + 1 \in 0..n
      BY <1>1
    <2> QED
      BY <2>4, <2>5 DEF T
  <1>5. n \in T
    <2>1. \A k \in 0..n : k \in T
      BY <1>1, <1>3, <1>4, UpTo
    <2> QED
      BY <1>1, <2>1
  <1> DEFINE done == a[n]
             tail == IF done.cursor < to THEN {[from |-> done.cursor, to |-> to]} ELSE {}
  <1>6. voids = done.voids \cup tail
    BY <1>2, Zenon DEF Schedule!InvertHalfOpen, voids, start
  <1>7. /\ done.cursor \in Int /\ done.cursor >= from /\ done.voids \in SUBSET Span
        /\ \A v \in done.voids : v.to <= done.cursor
        /\ \A i \in 1..n : desired[i].to <= done.cursor
        /\ \A m \in Int : from <= m /\ m < done.cursor =>
             ((\E v \in done.voids : Lies(m, v)) <=> ~\E i \in 1..n : Lies(m, desired[i]))
    BY <1>5 DEF T, VoidsTo
  <1>8. tail \in SUBSET Span /\ \A m \in Int : (\E v \in tail : Lies(m, v)) <=> done.cursor <= m /\ m < to
    <2> DEFINE last == [from |-> done.cursor, to |-> to]
    <2>1. \A m \in Int : Lies(m, last) <=> done.cursor <= m /\ m < to
      BY Zenon DEF Lies
    <2>2. CASE done.cursor < to
      <3>1. tail = {last} /\ last \in Span
        BY <1>7, <2>2 DEF Span
      <3> HIDE DEF tail, done, last
      <3> QED
        BY <2>1, <3>1
    <2>3. CASE ~(done.cursor < to)
      <3>1. tail = {}
        BY <2>3
      <3> HIDE DEF tail, done
      <3> QED
        BY <1>7, <2>3, <3>1
    <2> QED
      BY <2>2, <2>3
  <1>9. \A i \in 1..n : desired[i] \in Span
    BY DEF Apart, n
  <1> HIDE DEF tail, done
  <1>10. ASSUME NEW m \in Int, from <= m, m < to
         PROVE  (\E v \in voids : Lies(m, v)) <=> ~\E i \in 1..n : Lies(m, desired[i])
    <2>1. (\E v \in voids : Lies(m, v)) <=> (\E v \in done.voids : Lies(m, v)) \/ (done.cursor <= m)
      BY <1>6, <1>8, <1>10
    <2>2. CASE m < done.cursor
      BY <1>7, <1>10, <2>1, <2>2
    <2>3. CASE done.cursor <= m
      BY <1>7, <1>9, <2>1, <2>3 DEF Lies, Span
    <2> QED
      BY <1>7, <2>2, <2>3
  <1>11. voids \in SUBSET Span
    BY <1>6, <1>7, <1>8
  <1> QED
    BY <1>10, <1>11, Zenon DEF n, voids

LEMMA EndsOfClip ==
  ASSUME NEW w, w.from \in Int, w.to \in Int, NEW from \in Int, NEW to \in Int
  PROVE  LET c == Schedule!Clip(w, from, to)
         IN  /\ c.from = (IF w.from >= from THEN w.from ELSE from)
             /\ c.to = (IF w.to <= to THEN w.to ELSE to)
             /\ c = [from |-> c.from, to |-> c.to]
  <1> DEFINE c == Schedule!Clip(w, from, to)
  <1>1. c = [from |-> Schedule!Max({w.from, from}), to |-> Schedule!Min({w.to, to})]
    BY Zenon DEF Schedule!Clip
  <1> HIDE DEF c
  <1>2. Schedule!Max({w.from, from}) = (IF w.from >= from THEN w.from ELSE from)
    BY EndsOfPair
  <1>3. Schedule!Min({w.to, to}) = (IF w.to <= to THEN w.to ELSE to)
    BY EndsOfPair
  <1> QED
    BY <1>1, <1>2, <1>3 DEF c

\* A minute of the day lies in what is drawn of a span where it lies in the span.
LEMMA DrawnWhereItIs ==
  ASSUME NEW date \in Int, NEW m \in Int, date * Schedule!Day <= m, m < date * Schedule!Day + Schedule!Day,
         NEW w, w.from \in Int, w.to \in Int, NEW named
  PROVE  (\E s \in Schedule!InColumn([date |-> date, left |-> 0, width |-> Schedule!Day], w, named) :
            m >= s.shown.from /\ m < s.shown.to)
           <=> m >= w.from /\ m < w.to
  <1> DEFINE column == [date |-> date, left |-> 0, width |-> Schedule!Day]
             start == date * Schedule!Day
             part == Schedule!Clip(w, start, start + Schedule!Day)
             seg == [left |-> column.left + ((part.from - start) * column.width) \div Schedule!Day,
                     width |-> ((part.to - part.from) * column.width) \div Schedule!Day,
                     shown |-> part, from |-> named.from, to |-> named.to]
  <1>1. Schedule!Day = 1440 /\ start \in Int
    BY DEF Schedule!Day
  <1>2. /\ part.from = IF w.from >= start THEN w.from ELSE start
        /\ part.to = IF w.to <= start + Schedule!Day THEN w.to ELSE start + Schedule!Day
    <2> DEFINE end == start + Schedule!Day
    <2>1. start \in Int /\ end \in Int
      BY <1>1
    <2>2. part = Schedule!Clip(w, start, end)
      OBVIOUS
    <2> HIDE DEF seg, part, start, end
    <2>3. /\ part.from = (IF w.from >= start THEN w.from ELSE start)
          /\ part.to = (IF w.to <= end THEN w.to ELSE end)
      BY <2>1, <2>2, EndsOfClip, SMTT(30)
    <2> QED
      BY <2>3 DEF end
  <1>3. Schedule!InColumn(column, w, named) = IF part.from < part.to /\ column.width > 0 THEN {seg} ELSE {}
    BY DEF Schedule!InColumn
  <1>4. column.width > 0
    BY <1>1
  <1>5. seg.shown = part
    BY Zenon
  <1> HIDE DEF seg, part, column, start
  <1>6. m >= part.from /\ m < part.to <=> m >= w.from /\ m < w.to
    BY <1>1, <1>2 DEF start
  <1>7. m >= part.from /\ m < part.to => part.from < part.to
    BY <1>1, <1>2
  <1>8. (\E s \in Schedule!InColumn(column, w, named) : m >= s.shown.from /\ m < s.shown.to)
          <=> m >= part.from /\ m < part.to
    <2>1. CASE part.from < part.to
      BY <2>1, <1>3, <1>4, <1>5
    <2>2. CASE ~(part.from < part.to)
      BY <2>2, <1>3, <1>7
    <2> QED
      BY <2>1, <2>2
  <1> QED
    BY <1>6, <1>8 DEF column

\* What the server takes, and what the page reads of it.
RuleOK(r) == Schedule!Valid(r) /\ r.at \in Int
ListOK(row) == \A i \in DOMAIN row : i \in Int /\ RuleOK(row[i])

\* One rule has its way.
LEMMA OneWinner ==
  ASSUME NEW listing, ListOK(listing), NEW date,
         NEW a \in Schedule!ResolveWinnerForDate(listing, date),
         NEW b \in Schedule!ResolveWinnerForDate(listing, date)
  PROVE  a = b /\ RuleOK(a)
  <1> DEFINE C == Schedule!Where(listing, LAMBDA r : Schedule!CoversDay(r.scope, date))
             Wins(i) == \A j \in C \ {i} : Schedule!Beats(listing, i, j)
  <1>1. C \in SUBSET DOMAIN listing
    BY DEF Schedule!Where
  <1>2. Schedule!ResolveWinnerForDate(listing, date) = {listing[i] : i \in {i \in C : Wins(i)}}
    BY DEF Schedule!ResolveWinnerForDate, Schedule!PickWinner
  <1> HIDE DEF C
  <1>3. PICK i \in C : a = listing[i] /\ Wins(i)
    BY <1>2
  <1>4. PICK j \in C : b = listing[j] /\ Wins(j)
    BY <1>2
  <1>5. i \in Int /\ j \in Int /\ a.at \in Int /\ b.at \in Int /\ RuleOK(a)
    BY <1>1, <1>3, <1>4 DEF ListOK, RuleOK
  <1>6. CASE i = j
    BY <1>3, <1>4, <1>5, <1>6
  <1>7. CASE i # j
    <2>1. Schedule!Beats(listing, i, j) /\ Schedule!Beats(listing, j, i)
      BY <1>3, <1>4, <1>7
    <2>2. Schedule!Tier(a.scope) \in Int /\ Schedule!Tier(b.scope) \in Int
      BY DEF Schedule!Tier
    <2> QED
      BY <1>3, <1>4, <1>5, <2>1, <2>2 DEF Schedule!Beats
  <1> QED
    BY <1>6, <1>7

\* A date has one window at most, and it opens within the date.
LEMMA OneWindow ==
  ASSUME NEW listing, ListOK(listing), NEW date \in Int,
         NEW v \in Schedule!WindowOf(listing, date), NEW w \in Schedule!WindowOf(listing, date)
  PROVE  v = w /\ v \in Span /\ date * 1440 <= v.from
  <1> DEFINE Opens(r) == [from |-> date * Schedule!Day + r.open,
                          to |-> date * Schedule!Day + r.open + r.duration]
             R == Schedule!ResolveWinnerForDate(listing, date)
  <1>1. Schedule!WindowOf(listing, date) = {Opens(r) : r \in {x \in R : x.mode = "window"}}
    BY DEF Schedule!WindowOf
  <1>2. PICK r \in R : r.mode = "window" /\ v = Opens(r)
    BY <1>1
  <1>3. PICK q \in R : q.mode = "window" /\ w = Opens(q)
    BY <1>1
  <1>4. q = r /\ RuleOK(r)
    BY OneWinner
  <1>5. r.open \in Int /\ r.open >= 0 /\ r.duration \in Int
    <2>1. r.open \in 0..(Schedule!Day - 1)
      BY <1>2, <1>4, Zenon DEF RuleOK, Schedule!Valid
    <2>2. r.duration \in 1..(Schedule!Day - 1)
      BY <1>2, <1>4, Zenon DEF RuleOK, Schedule!Valid
    <2>3. r.open \in Int /\ r.open >= 0
      BY <2>1
    <2>4. r.duration \in Int
      BY <2>2
    <2> QED
      BY <2>3, <2>4
  <1>6. date * Schedule!Day \in Int /\ date * Schedule!Day = date * 1440
    BY DEF Schedule!Day
  <1>7. v.from \in Int /\ v.to \in Int /\ date * 1440 <= v.from /\ v = [from |-> v.from, to |-> v.to]
    <2>1. v.from = date * Schedule!Day + r.open /\ v.to = v.from + r.duration
      BY <1>2, Zenon
    <2> DEFINE start == date * Schedule!Day
    <2>2. start \in Int /\ start = date * 1440
      BY <1>6
    <2>3. v.from = start + r.open
      BY <2>1, Zenon
    <2> HIDE DEF start
    <2>4. v.to = v.from + r.duration
      BY <2>1
    <2>5. v.from \in Int /\ v.to \in Int /\ date * 1440 <= v.from
      BY <1>5, <2>2, <2>3, <2>4
    <2> QED
      BY <1>2, <2>5
  <1> QED
    BY <1>2, <1>3, <1>4, <1>7 DEF Span

\* The hours of a day that are due, cut at its midnights.
DueHours(listing, d, from, to) ==
  {s \in {Schedule!Clip(w, from, to) : w \in Schedule!WindowOf(listing, d)} : s.from < s.to}
LEMMA HoursAre ==
  ASSUME NEW listing, ListOK(listing), NEW d \in Int, NEW from \in Int, NEW to \in Int
  PROVE  /\ DueHours(listing, d, from, to) \in SUBSET Span /\ IsFiniteSet(DueHours(listing, d, from, to))
         /\ \A s \in DueHours(listing, d, from, to) : s.from < s.to /\ from <= s.from
         /\ \A m \in Int : from <= m /\ m < to =>
              ((\E s \in DueHours(listing, d, from, to) : Lies(m, s)) <=> \E w \in Schedule!WindowOf(listing, d) : Lies(m, w))
  <1> DEFINE H == DueHours(listing, d, from, to)
             W == Schedule!WindowOf(listing, d)
  <1>1. \A v, w \in W : v = w
    BY OneWindow
  <1>2. \A w \in W : w.from \in Int /\ w.to \in Int
    BY OneWindow DEF Span
  <1>3. ASSUME NEW w \in W
        PROVE  /\ Schedule!Clip(w, from, to) \in Span /\ from <= Schedule!Clip(w, from, to).from
               /\ \A m \in Int : from <= m /\ m < to => (Lies(m, Schedule!Clip(w, from, to)) <=> Lies(m, w))
               /\ \A m \in Int : Lies(m, Schedule!Clip(w, from, to)) => Schedule!Clip(w, from, to).from < Schedule!Clip(w, from, to).to
    <2> DEFINE c == Schedule!Clip(w, from, to)
    <2>1. /\ c.from = (IF w.from >= from THEN w.from ELSE from)
          /\ c.to = (IF w.to <= to THEN w.to ELSE to)
          /\ c = [from |-> c.from, to |-> c.to]
      <3>1. w.from \in Int /\ w.to \in Int
        BY <1>2
      <3> QED
        BY <3>1, EndsOfClip
    <2> HIDE DEF c
    <2>2. c.from \in Int /\ c.to \in Int /\ w.from \in Int /\ w.to \in Int
      BY <1>2, <2>1
    <2>3. c \in Span
      BY <2>1, <2>2 DEF Span
    <2>4. from <= c.from /\ \A m \in Int : Lies(m, c) => c.from < c.to
      BY <2>1, <2>2 DEF Lies
    <2>5. \A m \in Int : from <= m /\ m < to => (Lies(m, c) <=> Lies(m, w))
      BY <2>1, <2>2 DEF Lies
    <2> QED
      BY <2>3, <2>4, <2>5 DEF c
  <1>4. H = {s \in {Schedule!Clip(w, from, to) : w \in W} : s.from < s.to}
    BY DEF DueHours
  <1> HIDE DEF H, W
  <1>5. H \in SUBSET Span /\ \A s \in H : s.from < s.to /\ from <= s.from
    BY <1>3, <1>4
  <1>6. IsFiniteSet(H)
    <2>1. \A s, t \in H : s = t
      BY <1>1, <1>4
    <2>2. CASE H = {}
      BY <2>2, FS_EmptySet
    <2>3. CASE H # {}
      <3>1. PICK s \in H : H = {s}
        BY <2>1, <2>3
      <3> QED
        BY <3>1, FS_Singleton
    <2> QED
      BY <2>2, <2>3
  <1>7. \A m \in Int : from <= m /\ m < to => ((\E s \in H : Lies(m, s)) <=> \E w \in W : Lies(m, w))
    BY <1>3, <1>4
  <1> QED
    BY <1>5, <1>6, <1>7 DEF H, W

\* In the column of a day a minute is painted as a window exactly when the indicator says
\* that the connection is due then, also where a window runs in from the day before: for
\* every list of rules, in whatever order and of whatever kinds and lengths
\* (connectionSchedule.ts).
THEOREM WindowsArePaintedAsDue ==
  ASSUME NEW listing,
         \A i \in DOMAIN listing :
           listing[i].mode = "window" => listing[i].open \in Int /\ listing[i].duration \in Int,
         NEW date \in Int, NEW m \in Int, date * Schedule!Day <= m, m < date * Schedule!Day + Schedule!Day
  PROVE  (\E s \in Schedule!BuildScheduleDesiredSegs(listing, {[date |-> date, left |-> 0, width |-> Schedule!Day]}) :
            m >= s.shown.from /\ m < s.shown.to)
           <=> Schedule!IsConnectedNow(listing, m)
  <1> DEFINE column == [date |-> date, left |-> 0, width |-> Schedule!Day]
             W == UNION {Schedule!WindowOf(listing, d) : d \in {date - 1, date}}
  <1>1. \A w \in W : w.from \in Int /\ w.to \in Int
    <2> SUFFICES ASSUME NEW d \in {date - 1, date}, NEW w \in Schedule!WindowOf(listing, d)
                 PROVE  w.from \in Int /\ w.to \in Int
      OBVIOUS
    <2>1. PICK r \in Schedule!ResolveWinnerForDate(listing, d) :
            /\ r.mode = "window"
            /\ w = [from |-> d * Schedule!Day + r.open, to |-> d * Schedule!Day + r.open + r.duration]
      BY DEF Schedule!WindowOf
    <2>2. r.open \in Int /\ r.duration \in Int
      BY <2>1 DEF Schedule!ResolveWinnerForDate, Schedule!PickWinner, Schedule!Where
    <2>3. d * Schedule!Day \in Int
      BY DEF Schedule!Day
    <2> QED
      BY <2>1, <2>2, <2>3
  <1>2. Schedule!IsConnectedNow(listing, m) <=> \E w \in W : m >= w.from /\ m < w.to
    <2>1. m \div Schedule!Day = date
      BY DEF Schedule!Day
    <2> QED
      BY <2>1 DEF Schedule!IsConnectedNow
  <1>3. Schedule!BuildScheduleDesiredSegs(listing, {column}) = UNION {Schedule!InColumn(column, w, w) : w \in W}
    BY DEF Schedule!BuildScheduleDesiredSegs, Schedule!DesiredPaintSegsForDay
  <1>4. \A w \in W : (\E s \in Schedule!InColumn(column, w, w) : m >= s.shown.from /\ m < s.shown.to)
                       <=> m >= w.from /\ m < w.to
    BY <1>1, DrawnWhereItIs
  <1> HIDE DEF W, column
  <1>5. (\E s \in Schedule!BuildScheduleDesiredSegs(listing, {column}) : m >= s.shown.from /\ m < s.shown.to)
          <=> \E w \in W : \E s \in Schedule!InColumn(column, w, w) : m >= s.shown.from /\ m < s.shown.to
    BY <1>3, Zenon
  <1> QED
    BY <1>2, <1>4, <1>5 DEF column

\* The windows that a day shows are those of the day and of the day before; the windows
\* of the day after have not opened yet.
LEMMA DueWithin ==
  ASSUME NEW listing, ListOK(listing), NEW date \in Int, NEW from, NEW to,
         from = date * Schedule!Day, to = (date + 1) * Schedule!Day
  PROVE  LET desired == Schedule!EnumerateDesiredWindows(listing, from, to)
         IN  /\ from \in Int /\ to \in Int /\ to = from + Schedule!Day
             /\ Apart(desired) /\ \A i \in 1..Len(desired) : from <= desired[i].from
             /\ \A m \in Int : from <= m /\ m < to =>
                  ((\E i \in 1..Len(desired) : Lies(m, desired[i])) <=> Schedule!IsConnectedNow(listing, m))
  <1> DEFINE H(d) == DueHours(listing, d, from, to)
             W(d) == Schedule!WindowOf(listing, d)
             S == H(date - 1) \cup H(date) \cup H(date + 1)
             desired == Schedule!EnumerateDesiredWindows(listing, from, to)
  <1>1. /\ from \in Int /\ to \in Int /\ to = from + Schedule!Day
        /\ from \div Schedule!Day - 1 = date - 1 /\ to \div Schedule!Day = date + 1
    BY DEF Schedule!Day
  <1>2. desired = Schedule!MergeHalfOpen(S)
    <2> DEFINE days == (from \div Schedule!Day - 1)..(to \div Schedule!Day)
               all == {Schedule!Clip(w, from, to) : w \in UNION {W(d) : d \in days}}
    <2>1. days = {date - 1, date, date + 1}
      BY <1>1
    <2>2. {s \in all : s.from < s.to} = UNION {H(d) : d \in days}
      <3> HIDE DEF days
      <3> QED
        BY DEF DueHours
    <2>3. desired = Schedule!MergeHalfOpen({s \in all : s.from < s.to})
      BY DEF Schedule!EnumerateDesiredWindows
    <2> HIDE DEF days, all, desired
    <2>4. UNION {H(d) : d \in days} = S
      <3> HIDE DEF H
      <3> QED
        BY <2>1
    <2> QED
      BY <2>2, <2>3, <2>4
  <1>3. \A d \in {date - 1, date, date + 1} : 
          /\ H(d) \in SUBSET Span /\ IsFiniteSet(H(d))
          /\ \A s \in H(d) : s.from < s.to /\ from <= s.from
          /\ \A m \in Int : from <= m /\ m < to => ((\E s \in H(d) : Lies(m, s)) <=> \E w \in W(d) : Lies(m, w))
    <2>1. \A d \in {date - 1, date, date + 1} : d \in Int
      OBVIOUS
    <2> QED
      BY <1>1, <2>1, HoursAre
  <1> HIDE DEF H
  <1>4. S \in SUBSET Span /\ \A s \in S : s.from < s.to /\ from <= s.from
    BY <1>3
  <1>5. IsFiniteSet(S)
    <2>1. IsFiniteSet(H(date - 1)) /\ IsFiniteSet(H(date)) /\ IsFiniteSet(H(date + 1))
      BY <1>3
    <2>2. IsFiniteSet(H(date - 1) \cup H(date))
      BY <2>1, FS_Union
    <2> QED
      BY <2>1, <2>2, FS_Union
  <1>6. ASSUME NEW m \in Int, from <= m, m < to
        PROVE  (\E s \in S : Lies(m, s)) <=> Schedule!IsConnectedNow(listing, m)
    <2>1. m \div Schedule!Day = date
      BY <1>1, <1>6 DEF Schedule!Day
    <2>2. Schedule!IsConnectedNow(listing, m) <=> \E d \in {date - 1, date} : \E w \in W(d) : Lies(m, w)
      BY <2>1 DEF Schedule!IsConnectedNow, Lies
    <2>3. ~\E w \in W(date + 1) : Lies(m, w)
      <3> SUFFICES ASSUME NEW w \in W(date + 1), Lies(m, w) PROVE FALSE
        OBVIOUS
      <3>1. date + 1 \in Int
        OBVIOUS
      <3>2. w \in Span /\ (date + 1) * 1440 <= w.from
        BY <3>1, OneWindow
      <3>3. w.from \in Int /\ w.from <= m
        BY <3>2 DEF Span, Lies
      <3>4. to = (date + 1) * 1440
        BY DEF Schedule!Day
      <3> QED
        BY <1>1, <1>6, <3>2, <3>3, <3>4
    <2> HIDE DEF W
    <2>4. \A d \in {date - 1, date, date + 1} : (\E s \in H(d) : Lies(m, s)) <=> \E w \in W(d) : Lies(m, w)
      BY <1>3, <1>6
    <2>5. (\E s \in S : Lies(m, s)) <=> \E d \in {date - 1, date, date + 1} : \E s \in H(d) : Lies(m, s)
      BY Zenon
    <2> HIDE DEF S
    <2> QED
      BY <2>2, <2>3, <2>4, <2>5
  <1> HIDE DEF S, desired, W
  <1>7. /\ Apart(desired)
        /\ \A m \in Int : (\E i \in 1..Len(desired) : Lies(m, desired[i])) <=> \E s \in S : Lies(m, s)
    BY <1>2, <1>4, <1>5, MergeCovers
  <1>8. \A i \in 1..Len(desired) : from <= desired[i].from
    <2> TAKE i \in 1..Len(desired)
    <2>1. desired[i] \in Span /\ desired[i].from < desired[i].to
      BY <1>7 DEF Apart
    <2>2. desired[i].from \in Int /\ Lies(desired[i].from, desired[i])
      BY <2>1 DEF Span, Lies
    <2>3. PICK s \in S : Lies(desired[i].from, s)
      BY <1>7, <2>2
    <2>4. s.from \in Int /\ s.from <= desired[i].from /\ from <= s.from
      BY <1>4, <2>3 DEF Span, Lies
    <2> QED
      BY <1>1, <2>2, <2>4
  <1> QED
    BY <1>1, <1>6, <1>7, <1>8 DEF desired

\* In the column of a day a minute is painted idle exactly when the indicator says that
\* the connection is not due then: for every list of rules the server may send
\* (connectionSchedule.ts).
THEOREM IdleIsPaintedAsNotDue ==
  ASSUME NEW listing, ListOK(listing), listing # <<>>,
         NEW date \in Int, NEW m \in Int, date * Schedule!Day <= m, m < date * Schedule!Day + Schedule!Day
  PROVE  (\E s \in Schedule!BuildScheduleMaskSegs(listing, {[date |-> date, left |-> 0, width |-> Schedule!Day]}) :
            m >= s.shown.from /\ m < s.shown.to)
           <=> ~Schedule!IsConnectedNow(listing, m)
  <1> DEFINE column == [date |-> date, left |-> 0, width |-> Schedule!Day]
             from == date * Schedule!Day
             to == (date + 1) * Schedule!Day
             desired == Schedule!EnumerateDesiredWindows(listing, from, to)
             voids == Schedule!InvertHalfOpen(desired, from, to)
             named(v) == Schedule!Clip(v, from, to)
  <1>1. /\ from \in Int /\ to \in Int /\ to = from + Schedule!Day
        /\ Apart(desired) /\ \A i \in 1..Len(desired) : from <= desired[i].from
        /\ \A k \in Int : from <= k /\ k < to =>
             ((\E i \in 1..Len(desired) : Lies(k, desired[i])) <=> Schedule!IsConnectedNow(listing, k))
    BY DueWithin
  <1>2. Schedule!BuildScheduleMaskSegs(listing, {column}) = UNION {Schedule!InColumn(column, v, named(v)) : v \in voids}
    BY DEF Schedule!BuildScheduleMaskSegs, Schedule!ProjectScheduleMaskSegs, Schedule!ScheduleVoidIntervals
  <1>3. from <= m /\ m < to
    BY <1>1
  <1> HIDE DEF from, to, desired
  <1>4. voids \in SUBSET Span /\ ((\E v \in voids : Lies(m, v)) <=> ~\E i \in 1..Len(desired) : Lies(m, desired[i]))
    BY <1>1, <1>3, InvertCovers, ZenonT(40)
  <1> HIDE DEF voids, named
  <1>5. \A v \in voids : (\E s \in Schedule!InColumn(column, v, named(v)) : m >= s.shown.from /\ m < s.shown.to)
                           <=> Lies(m, v)
    <2> TAKE v \in voids
    <2>1. v.from \in Int /\ v.to \in Int
      BY <1>4 DEF Span
    <2>2. Lies(m, v) <=> m >= v.from /\ m < v.to
      BY <2>1 DEF Lies
    <2> QED
      BY <2>1, <2>2, DrawnWhereItIs
  <1> HIDE DEF column
  <1>6. (\E s \in Schedule!BuildScheduleMaskSegs(listing, {column}) : m >= s.shown.from /\ m < s.shown.to)
          <=> \E v \in voids : \E s \in Schedule!InColumn(column, v, named(v)) : m >= s.shown.from /\ m < s.shown.to
    BY <1>2, Zenon
  <1> QED
    BY <1>1, <1>3, <1>4, <1>5, <1>6 DEF column

\* The whole column of every list that may be sent.
LEMMA DayIsPainted ==
  ASSUME NEW listing, ListOK(listing)
  PROVE  Schedule!PaintedAsDue(listing)
  <1> DEFINE column(date) == [date |-> date, left |-> 0, width |-> Schedule!Day]
             voids(date) == Schedule!BuildScheduleMaskSegs(listing, {column(date)})
             windows(date) == Schedule!BuildScheduleDesiredSegs(listing, {column(date)})
             painted(segs, m) == \E s \in segs : m >= s.shown.from /\ m < s.shown.to
  <1>1. ASSUME listing # <<>>, NEW date \in Dates, NEW p \in Probes
        PROVE  LET m == date * Schedule!Day + p
               IN  /\ painted(voids(date), m) <=> ~Schedule!IsConnectedNow(listing, m)
                   /\ painted(windows(date), m) <=> Schedule!IsConnectedNow(listing, m)
    <2> DEFINE m == date * Schedule!Day + p
    <2>1. date \in Int /\ m \in Int /\ date * Schedule!Day <= m /\ m < date * Schedule!Day + Schedule!Day
      BY ProbesAssumption DEF Schedule!Day
    <2>2. \A i \in DOMAIN listing :
            listing[i].mode = "window" => listing[i].open \in Int /\ listing[i].duration \in Int
      <3> TAKE i \in DOMAIN listing
      <3> HAVE listing[i].mode = "window"
      <3>1. listing[i].open \in 0..(Schedule!Day - 1)
        BY Zenon DEF ListOK, RuleOK, Schedule!Valid
      <3>2. listing[i].duration \in 1..(Schedule!Day - 1)
        BY Zenon DEF ListOK, RuleOK, Schedule!Valid
      <3>3. listing[i].open \in Int
        BY <3>1
      <3>4. listing[i].duration \in Int
        BY <3>2
      <3> QED
        BY <3>3, <3>4
    <2> HIDE DEF m
    <2>3. painted(voids(date), m) <=> ~Schedule!IsConnectedNow(listing, m)
      BY <1>1, <2>1, IdleIsPaintedAsNotDue
    <2>4. painted(windows(date), m) <=> Schedule!IsConnectedNow(listing, m)
      BY <2>1, <2>2, WindowsArePaintedAsDue
    <2> QED
      BY <2>3, <2>4 DEF m
  <1> QED
    BY <1>1, Zenon DEF Schedule!PaintedAsDue

-----------------------------------------------------------------------------
(* The lists that arrive. *)

\* The server holds what it took, and what it was asked for it lists.
AsksOK == \E X : scheduleAsks \in Seq(X) /\ \A row \in X : ListOK(row)
RulesInv == scheduleClock \in Int /\ (\A r \in scheduleServer : RuleOK(r)) /\ AsksOK

LEMMA ListingOK ==
  ASSUME NEW live, \A r \in live : RuleOK(r), NEW listing \in Schedule!Listings(live)
  PROVE  ListOK(listing)
  <1>1. listing \in [1..Schedule!Cardinality(live) -> live]
    BY DEF Schedule!Listings, Schedule!SetToSeqs
  <1> QED
    BY <1>1 DEF ListOK

LEMMA NewRuleOK ==
  ASSUME NEW body, Schedule!Valid(body), NEW n \in Int
  PROVE  RuleOK(Schedule!NewRule(body, n))
  <1> DEFINE r == Schedule!NewRule(body, n)
  <1>1. r.scope = body.scope /\ r.mode = body.mode /\ r.open = body.open /\ r.duration = body.duration /\ r.at = n
    BY DEF Schedule!NewRule
  <1> HIDE DEF r
  <1>2. Schedule!Valid(r)
    BY <1>1, Zenon DEF Schedule!Valid
  <1> QED
    BY <1>1, <1>2 DEF RuleOK, r

LEMMA ReadIsAsked ==
  ASSUME AsksOK, Schedule!RefreshSchedule, \A r \in scheduleServer' : RuleOK(r)
  PROVE  AsksOK'
  <1>1. PICK listing \in Schedule!Listings(scheduleServer') : scheduleAsks' = Append(scheduleAsks, listing)
    BY DEF Schedule!RefreshSchedule
  <1>2. PICK X : scheduleAsks \in Seq(X) /\ \A row \in X : ListOK(row)
    BY DEF AsksOK
  <1>3. scheduleAsks' \in Seq(X \cup {listing})
    BY <1>1, <1>2
  <1>4. \A row \in X \cup {listing} : ListOK(row)
    BY <1>1, <1>2, ListingOK
  <1> QED
    BY <1>3, <1>4 DEF AsksOK

LEMMA ReadIsGone ==
  ASSUME AsksOK, NEW i \in DOMAIN scheduleAsks, scheduleAsks' = Schedule!RemoveAt(scheduleAsks, i)
  PROVE  AsksOK' /\ ListOK(scheduleAsks[i])
  <1>1. PICK X : scheduleAsks \in Seq(X) /\ \A row \in X : ListOK(row)
    BY DEF AsksOK
  <1>2. scheduleAsks[i] \in X
    BY <1>1
  <1>3. scheduleAsks' = SubSeq(scheduleAsks, 1, i - 1) \o SubSeq(scheduleAsks, i + 1, Len(scheduleAsks))
    BY DEF Schedule!RemoveAt
  <1>4. i \in 1..Len(scheduleAsks)
    BY <1>1
  <1>5. SubSeq(scheduleAsks, 1, i - 1) \in Seq(X) /\ SubSeq(scheduleAsks, i + 1, Len(scheduleAsks)) \in Seq(X)
    BY <1>1, <1>4
  <1>6. scheduleAsks' \in Seq(X)
    BY <1>3, <1>5
  <1> QED
    BY <1>1, <1>2, <1>6 DEF AsksOK

\* What a list of a store starts with, and what a save leaves in it.
LEMMA ClockIsNumber ==
  ASSUME NEW live, IsFiniteSet(live), \A r \in live : r.at \in Int
  PROVE  Schedule!Max({0} \cup {r.at : r \in live}) \in Int
  <1> DEFINE f == [r \in live |-> [from |-> r.at, to |-> 0]]
             T == {f[r] : r \in live}
             S == {0} \cup {r.at : r \in live}
  <1>1. T \in SUBSET Span
    BY DEF Span
  <1>2. IsFiniteSet(T)
    <2>1. f \in Surjection(live, T)
      BY DEF Surjection
    <2> QED
      BY <2>1, FS_Surjection
  <1>3. S \in SUBSET Int
    OBVIOUS
  <1>4. \E x \in S : \A y \in S : x >= y
    <2>1. CASE live = {}
      BY <2>1
    <2>2. CASE live # {}
      <3>1. T # {}
        BY <2>2
      <3>2. PICK t \in T : \A s \in T \ {t} : Schedule!Before(s, t)
        <4> HIDE DEF T
        <4> QED
          BY <1>1, <1>2, <3>1, OneIsLast
      <3>3. PICK q \in live : t = f[q]
        BY <3>2
      <3>4. \A r \in live : q.at >= r.at
        <4> TAKE r \in live
        <4>1. f[r] \in T /\ f[r].from = r.at /\ t.from = q.at
          BY <3>3
        <4>2. CASE f[r] = t
          BY <4>1, <4>2
        <4>3. CASE f[r] # t
          <5>1. Schedule!Before(f[r], t)
            BY <3>2, <4>1, <4>3
          <5> QED
            BY <4>1, <5>1 DEF Schedule!Before
        <4> QED
          BY <4>2, <4>3
      <3>5. CASE q.at >= 0
        BY <3>4, <3>5
      <3>6. CASE ~(q.at >= 0)
        BY <3>4, <3>6
      <3> QED
        BY <3>5, <3>6
    <2> QED
      BY <2>1, <2>2
  <1> HIDE DEF S
  <1>5. Schedule!Max(S) \in S
    BY <1>4 DEF Schedule!Max
  <1> QED
    BY <1>3, <1>5 DEF S

LEMMA ServerKeeps ==
  ASSUME RulesInv, Schedule!ServerApplies \/ Schedule!OtherOperatorSaves
  PROVE  RulesInv' /\ rules' = rules
  <1>1. scheduleClock' = scheduleClock + 1 /\ scheduleAsks' = scheduleAsks /\ rules' = rules
    BY DEF Schedule!ServerApplies, Schedule!OtherOperatorSaves
  <1>2. \A r \in scheduleServer' : RuleOK(r)
    <2>1. CASE Schedule!ServerApplies
      <3>1. PICK b \in batch :
              /\ \A i \in DOMAIN b.upserts : Schedule!Valid(b.upserts[i])
              /\ scheduleServer' = Schedule!ApplyBatch(scheduleServer, b.upserts, b.cancels, scheduleClock)
        BY <2>1 DEF Schedule!ServerApplies
      <3>2. \A r \in scheduleServer' :
              r \in scheduleServer \/ \E i \in DOMAIN b.upserts : r = Schedule!NewRule(b.upserts[i], scheduleClock)
        BY <3>1 DEF Schedule!ApplyBatch
      <3> QED
        BY <3>1, <3>2, NewRuleOK DEF RulesInv
    <2>2. CASE Schedule!OtherOperatorSaves
      <3>1. PICK r \in OtherRules :
              Schedule!Valid(r) /\ scheduleServer' = Schedule!ApplyUpsert(scheduleServer, Schedule!NewRule(r, scheduleClock))
        BY <2>2 DEF Schedule!OtherOperatorSaves
      <3>2. \A q \in scheduleServer' : q \in scheduleServer \/ q = Schedule!NewRule(r, scheduleClock)
        BY <3>1 DEF Schedule!ApplyUpsert
      <3> QED
        BY <3>1, <3>2, NewRuleOK DEF RulesInv
    <2> QED
      BY <2>1, <2>2
  <1>3. AsksOK'
    BY <1>1 DEF RulesInv, AsksOK
  <1> QED
    BY <1>1, <1>2, <1>3 DEF RulesInv

LEMMA ReadKeeps ==
  ASSUME RulesInv, Schedule!RefreshSchedule, UNCHANGED <<scheduleServer, scheduleClock>>
  PROVE  RulesInv'
  <1>1. \A r \in scheduleServer' : RuleOK(r)
    BY DEF RulesInv
  <1> QED
    BY <1>1, ReadIsAsked DEF RulesInv

LEMMA RulesStand ==
  ASSUME RulesInv, UNCHANGED <<scheduleServer, scheduleClock, scheduleAsks>>
  PROVE  RulesInv'
  BY DEF RulesInv, AsksOK

\* A step takes the page no rules but those that it was told.
LEMMA RulesStep ==
  ASSUME RulesInv, [Schedule!Next]_(Schedule!editorVars)
  PROVE  RulesInv' /\ (rules' # rules => ListOK(rules'))
  <1> DEFINE Rest == UNCHANGED <<scheduleServer, scheduleClock, rules, scheduleAsks>>
             Asked == Schedule!RefreshSchedule /\ UNCHANGED <<scheduleServer, scheduleClock, rules>>
  <1> SUFFICES ASSUME ~Rest, ~Asked PROVE RulesInv' /\ (rules' # rules => ListOK(rules'))
    BY RulesStand, ReadKeeps
  <1>1. CASE Schedule!OpenPanel \/ Schedule!SoftClose \/ Schedule!HardClose \/ Schedule!Pencil
    BY <1>1, Zenon DEF Schedule!OpenPanel, Schedule!SoftClose, Schedule!HardClose, Schedule!Pencil, Schedule!netVars
  <1>2. CASE Schedule!Choose
    BY <1>2, Zenon DEF Schedule!Choose, Schedule!ClickOverview, Schedule!ClickMain, Schedule!ClickGroup, Schedule!ClickDay,
                Schedule!ClickChart, Schedule!Click, Schedule!Edits, Schedule!netVars
  <1>3. CASE Schedule!Modify
    BY <1>3, Zenon DEF Schedule!Modify, Schedule!ClickMode, Schedule!ClickTemplate, Schedule!ClickShift, Schedule!Drag,
                Schedule!Click, Schedule!Edits, Schedule!netVars
  <1>4. CASE Schedule!Calendar
    BY <1>4, Zenon DEF Schedule!Calendar, Schedule!ClickCalendar, Schedule!ClickDate, Schedule!ClickNowhere, Schedule!ClickGo,
                Schedule!ClickCancelSelected, Schedule!ClickRestore, Schedule!ClickReset, Schedule!Picks,
                Schedule!InCalendar, Schedule!Edits, Schedule!netVars
  <1>5. CASE Schedule!Question
    BY <1>5, Zenon DEF Schedule!Question, Schedule!ClickClear, Schedule!ClickApprove, Schedule!ClickRefresh, Schedule!ClickBanner,
                Schedule!ConfirmMain, Schedule!CancelMain, Schedule!ConfirmClear, Schedule!ConfirmRefresh,
                Schedule!CloseMessage, Schedule!Ask, Schedule!netVars
  <1>6. CASE Schedule!Net
    <2>1. CASE Schedule!Commit \/ Schedule!ClickBack
      BY <2>1, Zenon DEF Schedule!Commit, Schedule!ClickBack, Schedule!netVars
    <2>2. CASE Schedule!BatchSaved \/ Schedule!BatchFails \/ Schedule!PageReads
      BY <2>2, Zenon DEF Schedule!BatchSaved, Schedule!BatchFails, Schedule!PageReads
    <2>3. CASE Schedule!ServerApplies \/ Schedule!OtherOperatorSaves
      BY <2>3, ServerKeeps
    <2>4. CASE Schedule!RulesArrive \/ Schedule!ReadFails
      <3>1. PICK i \in DOMAIN scheduleAsks :
              /\ scheduleAsks' = Schedule!RemoveAt(scheduleAsks, i) /\ UNCHANGED <<scheduleServer, scheduleClock>>
              /\ rules' = scheduleAsks[i] \/ rules' = rules
        BY <2>4, Zenon DEF Schedule!RulesArrive, Schedule!ReadFails
      <3>2. AsksOK' /\ ListOK(scheduleAsks[i])
        BY <3>1, ReadIsGone DEF RulesInv
      <3> QED
        BY <3>1, <3>2 DEF RulesInv
    <2> QED
      BY <1>6, <2>1, <2>2, <2>3, <2>4 DEF Schedule!Net
  <1>7. CASE UNCHANGED Schedule!editorVars
    BY <1>7, Zenon DEF Schedule!editorVars
  <1> QED
    BY <1>1, <1>2, <1>3, <1>4, <1>5, <1>6, <1>7, Zenon DEF Schedule!Next

\* The inductive invariant of the lists: the store holds rules the server took, each with the
\* moment it was taken, and every list under way holds such rules
\* (ConnectionScheduleStore.cs, OhsStore.ts).
THEOREM ListsInvariant == Schedule!Spec => []RulesInv
  <1>1. Schedule!Init => RulesInv
    <2> SUFFICES ASSUME Schedule!Init PROVE RulesInv
      OBVIOUS
    <2>1. /\ scheduleServer \in StartRules /\ scheduleAsks = <<>>
          /\ scheduleClock = 1 + Schedule!Max({0} \cup {r.at : r \in scheduleServer})
      BY DEF Schedule!Init
    <2>2. IsFiniteSet(scheduleServer) /\ \A r \in scheduleServer : Schedule!Valid(r) /\ r.at \in Int
      BY <2>1, RulesAssumption
    <2>3. scheduleClock \in Int
      BY <2>1, <2>2, ClockIsNumber
    <2>4. AsksOK
      <3>1. scheduleAsks \in Seq({})
        BY <2>1
      <3> QED
        BY <3>1 DEF AsksOK
    <2> QED
      BY <2>2, <2>3, <2>4 DEF RulesInv, RuleOK
  <1>2. RulesInv /\ [Schedule!Next]_(Schedule!editorVars) => RulesInv'
    BY RulesStep
  <1> QED
    BY <1>1, <1>2, PTL DEF Schedule!Spec

\* Whatever list of rules arrives, of whoever's saves: what is drawn in the column of a day is
\* what the indicator says (connectionSchedule.ts, OhsStore.ts).
THEOREM ArrivedIsPaintedAsDue == Schedule!Spec => Schedule!IdleIsNotConnected
  <1>1. RulesInv /\ [Schedule!Next]_(Schedule!editorVars) => [Schedule!NewRulesPaintedAsDue]_(Schedule!editorVars)
    BY RulesStep, DayIsPainted DEF Schedule!NewRulesPaintedAsDue
  <1> QED
    BY <1>1, ListsInvariant, PTL DEF Schedule!Spec, Schedule!IdleIsNotConnected

-----------------------------------------------------------------------------
(* The view of the timeline. *)

Exclusive(v) == v.flags["showWorkGaps"] => \A k \in Axis!Incidents : ~v.flags[k]
ViewInv == Axis!IsView(axisStored) /\ Exclusive(view) /\ Axis!ReloadKeepsView

\* Reading a view makes its switches exclusive, and leaves one that is so as it is.
LEMMA RestoredView ==
  ASSUME NEW v, Axis!IsView(v)
  PROVE  /\ Axis!IsView(Axis!RestoreView(v)) /\ Exclusive(Axis!RestoreView(v))
         /\ Exclusive(v) => Axis!RestoreView(v) = v
  <1> DEFINE read == [k \in Flags |-> IF k \in Axis!Incidents /\ v.flags["showWorkGaps"] THEN FALSE ELSE v.flags[k]]
             r == [v EXCEPT !.flags = read]
  <1>1. Axis!RestoreView(v) = r
    BY DEF Axis!RestoreView
  <1>2. "flags" \in DOMAIN v /\ v = [x \in DOMAIN v |-> v[x]] /\ v.flags \in [Flags -> BOOLEAN]
    BY DEF Axis!IsView
  <1>3. \A k \in Flags : v.flags[k] \in BOOLEAN
    BY <1>2
  <1>4. read \in [Flags -> BOOLEAN]
    BY <1>3
  <1>5. DOMAIN r = DOMAIN v /\ r = [x \in DOMAIN r |-> r[x]] /\ r.flags = read
    BY <1>2, Zenon
  <1>6. Axis!IsView(r)
    BY <1>2, <1>4, <1>5 DEF Axis!IsView
  <1>7. "showWorkGaps" \in Flags /\ "showWorkGaps" \notin Axis!Incidents /\ Axis!Incidents \subseteq Flags
    BY FlagsAssumption DEF Axis!Incidents
  <1>8. Exclusive(r)
    BY <1>5, <1>7 DEF Exclusive
  <1>9. ASSUME Exclusive(v) PROVE r = v
    <2>1. \A k \in Flags : read[k] = v.flags[k]
      BY <1>3, <1>7, <1>9 DEF Exclusive
    <2>2. read = v.flags
      BY <2>1, <1>2
    <2> QED
      BY <2>2, <1>2, Zenon
  <1> QED
    BY <1>1, <1>6, <1>8, <1>9

\* A choice of anything but the switches.
LEMMA ChoiceKeeps ==
  ASSUME ViewInv, NEW field, field # "flags", NEW value, Axis!Choose([view EXCEPT ![field] = value])
  PROVE  ViewInv'
  <1> DEFINE v == [view EXCEPT ![field] = value]
  <1>1. view' = v /\ axisStored' = v
    BY DEF Axis!Choose
  <1>2. Axis!IsView(view) /\ Exclusive(view)
    BY RestoredView DEF ViewInv, Axis!ReloadKeepsView
  <1>3. DOMAIN v = DOMAIN view /\ v = [x \in DOMAIN v |-> v[x]]
    BY <1>2 DEF Axis!IsView
  <1>4. v.flags = view.flags
    BY <1>2 DEF Axis!IsView
  <1>5. Axis!IsView(v) /\ Exclusive(v)
    BY <1>2, <1>3, <1>4 DEF Axis!IsView, Exclusive
  <1>6. Axis!RestoreView(v) = v
    BY <1>5, RestoredView
  <1> HIDE DEF v
  <1> QED
    BY <1>1, <1>5, <1>6 DEF ViewInv, Axis!ReloadKeepsView, Exclusive

\* The switches turn each other off.
LEMMA SwitchKeeps ==
  ASSUME ViewInv, NEW k \in Flags, Axis!SetFlag(k) PROVE ViewInv'
  <1> DEFINE on == ~view.flags[k]
             off(j) == on /\ ((k = "showWorkGaps" /\ j \in Axis!Incidents)
                           \/ (k \in Axis!Incidents /\ j = "showWorkGaps"))
             set == [j \in Flags |-> IF j = k THEN on ELSE IF off(j) THEN FALSE ELSE view.flags[j]]
             v == [view EXCEPT !.flags = set]
  <1>1. view' = v /\ axisStored' = v
    BY DEF Axis!SetFlag, Axis!Shown, Axis!Choose
  <1>2. Axis!IsView(view) /\ Exclusive(view)
    BY RestoredView DEF ViewInv, Axis!ReloadKeepsView
  <1>3. \A j \in Flags : view.flags[j] \in BOOLEAN
    BY <1>2 DEF Axis!IsView
  <1>4. set \in [Flags -> BOOLEAN]
    BY <1>3
  <1>5. DOMAIN v = DOMAIN view /\ v = [x \in DOMAIN v |-> v[x]] /\ v.flags = set
    BY <1>2, Zenon DEF Axis!IsView
  <1>6. "showWorkGaps" \in Flags /\ "showWorkGaps" \notin Axis!Incidents /\ Axis!Incidents \subseteq Flags
    BY FlagsAssumption DEF Axis!Incidents
  <1>7. set["showWorkGaps"] => \A j \in Axis!Incidents : ~set[j]
    <2> SUFFICES ASSUME set["showWorkGaps"], NEW j \in Axis!Incidents PROVE ~set[j]
      OBVIOUS
    <2>1. CASE k = "showWorkGaps"
      BY <2>1, <1>6
    <2>2. CASE k \in Axis!Incidents
      BY <2>2, <1>2, <1>6 DEF Exclusive
    <2>3. CASE k # "showWorkGaps" /\ k \notin Axis!Incidents
      BY <2>3, <1>2, <1>6 DEF Exclusive
    <2> QED
      BY <2>1, <2>2, <2>3
  <1>8. Axis!IsView(v) /\ Exclusive(v)
    BY <1>2, <1>4, <1>5, <1>7 DEF Axis!IsView, Exclusive
  <1>9. Axis!RestoreView(v) = v
    BY <1>8, RestoredView
  <1> HIDE DEF v
  <1> QED
    BY <1>1, <1>8, <1>9 DEF ViewInv, Axis!ReloadKeepsView, Exclusive

LEMMA FilterKeeps ==
  ASSUME ViewInv, NEW filter, Axis!SetTimelineFilter(filter) PROVE ViewInv'
  BY ChoiceKeeps DEF Axis!SetTimelineFilter, Axis!Chosen

LEMMA FrameKeeps ==
  ASSUME ViewInv, NEW f, Axis!SetTimeframe(f) PROVE ViewInv'
  BY ChoiceKeeps DEF Axis!SetTimeframe, Axis!Chosen

LEMMA EditFilterKeeps == ASSUME ViewInv, Axis!EditFilter PROVE ViewInv'
  <1>1. ASSUME NEW dow, Axis!ToggleDay(dow) PROVE ViewInv'
    BY <1>1, FilterKeeps DEF Axis!ToggleDay
  <1>2. ASSUME NEW days, Axis!PickDays(days) PROVE ViewInv'
    BY <1>2, FilterKeeps DEF Axis!PickDays
  <1>3. CASE Axis!ToggleFull
    BY <1>3, FilterKeeps DEF Axis!ToggleFull
  <1>4. ASSUME NEW mode, Axis!ToggleSession(mode) PROVE ViewInv'
    BY <1>4, FilterKeeps DEF Axis!ToggleSession
  <1>5. ASSUME NEW mode, Axis!PatchCustom(mode) PROVE ViewInv'
    BY <1>5, FilterKeeps DEF Axis!PatchCustom
  <1>6. CASE Axis!ResetTimelineFilter
    BY <1>6, ChoiceKeeps DEF Axis!ResetTimelineFilter, Axis!Chosen
  <1> QED
    BY <1>1, <1>2, <1>3, <1>4, <1>5, <1>6 DEF Axis!EditFilter

\* The inductive invariant of the kept view: it is one, and the page's view is what is read of it.
THEOREM ViewInvariant == Axis!Spec => []ViewInv
  <1>1. Axis!Init => ViewInv
    BY RestoredView, ViewsAssumption DEF Axis!Init, ViewInv, Axis!ReloadKeepsView, Exclusive
  <1>2. ViewInv /\ [Axis!Next]_(Axis!axisVars) => ViewInv'
    <2> SUFFICES ASSUME ViewInv, [Axis!Next]_(Axis!axisVars) PROVE ViewInv'
      OBVIOUS
    <2>1. ASSUME UNCHANGED <<view, axisStored>> PROVE ViewInv'
      BY <2>1 DEF ViewInv, Axis!ReloadKeepsView, Exclusive
    <2>2. CASE Axis!SetDPlus
      BY <2>2, ChoiceKeeps DEF Axis!SetDPlus, Axis!Chosen
    <2>3. CASE Axis!PickTimeframe
      BY <2>3, FrameKeeps, Zenon DEF Axis!PickTimeframe, Axis!ApplyPicked
    <2>4. CASE Axis!EditFilter
      BY <2>4, EditFilterKeeps
    <2>5. ASSUME NEW chosen, Axis!SetExchanges(chosen) PROVE ViewInv'
      BY <2>5, ChoiceKeeps DEF Axis!SetExchanges
    <2>6. ASSUME NEW k \in Flags, Axis!SetFlag(k) PROVE ViewInv'
      BY <2>6, SwitchKeeps
    <2>7. CASE Axis!Reload
      <3>1. view' = Axis!RestoreView(axisStored) /\ axisStored' = axisStored
        BY <2>7 DEF Axis!Reload
      <3> QED
        BY <3>1, RestoredView DEF ViewInv, Axis!ReloadKeepsView, Exclusive
    <2>8. CASE \/ \E date \in PickDates : Axis!Pick(date)
               \/ \E hours \in Hours : Axis!GetSessionsAnswered(hours)
               \/ Axis!GetSessionsFailed
               \/ \E extent \in {"failed", "empty"} \cup DOMAIN Extents : Axis!GetExtentAnswered(extent)
               \/ Axis!Midnight \/ Axis!RefreshTimeframeWindow \/ UNCHANGED Axis!axisVars
      BY <2>1, <2>8, Zenon DEF Axis!Pick, Axis!GetSessionsAnswered, Axis!GetSessionsFailed,
         Axis!GetExtentAnswered, Axis!Midnight, Axis!RefreshTimeframeWindow, Axis!axisVars
    <2> QED
      BY <2>2, <2>3, <2>4, <2>5, <2>6, <2>7, <2>8, Zenon DEF Axis!Next
  <1> QED
    BY <1>1, <1>2, PTL DEF Axis!Spec

\* A reload brings back the view as it was left, and never the work gaps and the incidents
\* together (viewStateStorage, OhsStore), whatever view the browser had kept.
THEOREM AxisKeepsView == Axis!Spec => []Axis!ReloadKeepsView
  <1>1. ViewInv => Axis!ReloadKeepsView
    BY DEF ViewInv
  <1> QED
    BY <1>1, ViewInvariant, PTL

-----------------------------------------------------------------------------
(* The ribbon of a link. *)

Links == {"idle", "live", "broken", "lost"}
Reasons == {"none", "disconnected", "degraded", "server_down", "interrupted"}
Row == [from : Nat, to : Nat, open : BOOLEAN, reason : Reasons]
Episode == [type : {"break", "crash"}, from : Int, to : Int]
LastRow == ribbonRows[Len(ribbonRows)]
\* What a link is after a row that closed so; an open row is left by a crash.
After(reason) ==
  IF reason = "disconnected" THEN "idle"
  ELSE IF reason \in {"degraded", "server_down"} THEN "broken" ELSE "lost"
\* Where the time after a row ends.
Until(i) == IF i < Len(ribbonRows) THEN ribbonRows[i + 1].from ELSE now

RibbonTypes ==
  /\ now \in Nat /\ host \in BOOLEAN /\ moved \in BOOLEAN /\ ribbonLink \in Links
  /\ ribbonRows \in Seq(Row)
  /\ happened \in Seq(Links) /\ Len(happened) = now
  /\ journal \subseteq Episode /\ owed \subseteq [from : Nat, to : Nat]
  /\ ribbonOutage \in Nat \cup {0 - 1}

\* A row is open or tells why it was closed; one without length marks a change of owner,
\* between two parts of one break or at its end.
RowSays(i) ==
  LET r == ribbonRows[i]
  IN  /\ r.from <= r.to /\ r.to <= now
      /\ r.open <=> r.reason = "none"
      /\ r.open => i = Len(ribbonRows)
      /\ i < Len(ribbonRows) => r.to < ribbonRows[i + 1].from
      /\ r.from = r.to /\ ~r.open => /\ i > 1
                                     /\ After(ribbonRows[i - 1].reason) = "broken"
                                     /\ After(r.reason) # "lost"
RowsSay == \A i \in 1..Len(ribbonRows) : RowSays(i)

\* The last row and the link.
LastSays ==
  IF ribbonRows = <<>> THEN ribbonLink = "idle"
  ELSE /\ IF ribbonLink = "live" THEN host /\ LastRow.open /\ LastRow.to = now
          ELSE /\ After(LastRow.reason) = ribbonLink
               /\ LastRow.to < now \/ moved
               /\ LastRow.open => ~host
       /\ LastRow.open => LastRow.from < LastRow.to \/ (ribbonLink = "live" /\ moved)

\* The rows and the time between them are what happened.
RowsTell ==
  \A t \in 0..(now - 1), i \in 1..Len(ribbonRows) :
     /\ ribbonRows[i].from <= t /\ t < ribbonRows[i].to => happened[t + 1] = "live"
     /\ ribbonRows[i].to <= t /\ t < Until(i) => happened[t + 1] = After(ribbonRows[i].reason)
RowsSpan ==
  \A t \in 0..(now - 1) :
     \/ \A i \in 1..Len(ribbonRows) : ribbonRows[i].from > t
     \/ \E i \in 1..Len(ribbonRows) : ribbonRows[i].from <= t /\ t < Until(i)

\* The breaks of the journal are the time the link was broken.
IsBreak(e) == e.type = "break"
BreaksTell ==
  /\ \A e \in journal : IsBreak(e) => e.from \in 0..now /\ e.to \in 0..now \cup {0 - 1}
  /\ (\E e \in journal : IsBreak(e) /\ e.to = 0 - 1) <=> ribbonLink = "broken"
  /\ \A t \in 0..(now - 1) : Ribbon!Bodies(journal, "break", now, t) <=> happened[t + 1] = "broken"
RibbonInv == RibbonTypes /\ RowsSay /\ LastSays /\ RowsTell /\ RowsSpan /\ BreaksTell

\* A crash that is told of has ended, and stays in the journal.
CrashesEnd(entries) == \A e \in entries : e.type = "crash" => e.from \in Nat /\ e.to \in Nat
CrashesStay(old, new) == \A e \in old : e.type = "crash" => e \in new
KnownCrash == Ribbon!JournalHasOverlappingCrash(incidents, [from |-> ribbonOutage, to |-> 0 - 1], now)
SuspectedGap == [from |-> ribbonOutage, to |-> 0 - 1, cause |-> "interrupted", abandoned |-> FALSE]
SuspectInv ==
  /\ CrashesEnd(journal) /\ CrashesStay(incidents, journal)
  /\ ribbonOutage # 0 - 1 =>
       /\ ribbonOutage <= now
       /\ \/ KnownCrash
          \/ crash = {[from |-> ribbonOutage, to |-> 0 - 1]} /\ SuspectedGap \in shown.gaps

\* A row that closed, an open one that is added, or the mark of a change of owner.
LEMMA RowAdded ==
  ASSUME RibbonInv, NEW r \in Row, r.from = now, r.to = now, ~moved,
         \/ r.open /\ r.reason = "none" /\ ribbonLink # "live" /\ host
         \/ ~r.open /\ r.reason \in {"server_down", "disconnected"} /\ ribbonLink = "broken" /\ host,
         ribbonRows' = ribbonRows \o <<r>>, UNCHANGED <<now, happened>>
  PROVE  /\ ribbonRows' \in Seq(Row) /\ ribbonRows' # <<>> /\ LastRow' = r
         /\ RowsSay' /\ RowsTell' /\ RowsSpan'
  <1> DEFINE n == Len(ribbonRows)
  <1>1. n \in Nat /\ now \in Nat /\ \A i \in 1..n : ribbonRows[i] \in Row
    BY DEF RibbonInv, RibbonTypes
  <1>2. /\ ribbonRows' \in Seq(Row) /\ Len(ribbonRows') = n + 1
        /\ \A i \in 1..n : ribbonRows'[i] = ribbonRows[i]
        /\ ribbonRows'[n + 1] = r
    BY DEF RibbonInv, RibbonTypes
  <1>3. r.from \in Nat /\ r.to \in Nat /\ \A i \in 1..n : ribbonRows[i].from \in Nat /\ ribbonRows[i].to \in Nat
    BY <1>1 DEF Row
  <1>4. ribbonRows' # <<>> /\ LastRow' = r
    BY <1>2 DEF LastRow
  <1>5. \A i \in 1..n : RowSays(i)
    BY DEF RibbonInv, RowsSay
  <1>6. n > 0 => ~ribbonRows[n].open /\ ribbonRows[n].to < now /\ After(ribbonRows[n].reason) = ribbonLink
    BY <1>1, <1>5 DEF RibbonInv, LastSays, LastRow, RowSays, After
  <1>7. RowsSay'
    <2> SUFFICES ASSUME NEW i \in 1..(n + 1) PROVE RowSays(i)'
      BY <1>2 DEF RowsSay
    <2>1. CASE i < n
      <3>1. i \in 1..n /\ i + 1 \in 1..n /\ i - 1 \in 0..n /\ i # n + 1 /\ i < n + 1
        BY <1>1, <2>1
      <3>2. ribbonRows'[i] = ribbonRows[i] /\ ribbonRows'[i + 1] = ribbonRows[i + 1] /\ RowSays(i)
        BY <1>2, <1>5, <3>1
      <3>3. i > 1 => ribbonRows'[i - 1] = ribbonRows[i - 1]
        BY <1>2, <3>1
      <3> QED
        BY <1>1, <1>2, <1>3, <2>1, <3>1, <3>2, <3>3 DEF RowSays, After
    <2>2. CASE i = n
      <3>1. i \in 1..n /\ i + 1 = n + 1 /\ i - 1 \in 0..n /\ i # n + 1
        BY <1>1, <2>2
      <3>2. ribbonRows'[i] = ribbonRows[i] /\ ribbonRows'[i + 1] = r /\ RowSays(i)
        BY <1>2, <1>5, <3>1
      <3>3. i > 1 => ribbonRows'[i - 1] = ribbonRows[i - 1]
        BY <1>2, <3>1
      <3> QED
        BY <1>1, <1>2, <1>3, <1>6, <2>2, <3>1, <3>2, <3>3 DEF RowSays, After
    <2>3. CASE i = n + 1
      <3>1. ribbonRows'[i] = r
        BY <1>2, <2>3
      <3>2. CASE r.open
        BY <1>1, <1>2, <2>3, <3>1, <3>2 DEF RowSays
      <3>3. CASE ~r.open
        <4>1. n > 0
          BY <1>1, <3>3 DEF RibbonInv, RibbonTypes, LastSays
        <4>2. ribbonRows'[i - 1] = ribbonRows[n] /\ i > 1
          BY <1>1, <1>2, <2>3, <4>1
        <4>3. After(ribbonRows[n].reason) = "broken" /\ After(r.reason) # "lost"
          BY <1>6, <3>3, <4>1 DEF After
        <4>4. After(ribbonRows'[i - 1].reason) = "broken"
          BY <4>2, <4>3
        <4> QED
          BY <1>1, <1>2, <2>3, <3>1, <3>3, <4>2, <4>3, <4>4 DEF RowSays, After
      <3> QED
        BY <3>2, <3>3
    <2> QED
      BY <1>1, <2>1, <2>2, <2>3
  <1>8. \A i \in 1..n : Until(i)' = Until(i)
    BY <1>1, <1>2, <1>3 DEF Until
  <1>10. RowsTell'
    <2> SUFFICES ASSUME NEW t \in 0..(now - 1), NEW i \in 1..(n + 1)
                 PROVE  /\ ribbonRows'[i].from <= t /\ t < ribbonRows'[i].to => happened[t + 1] = "live"
                        /\ ribbonRows'[i].to <= t /\ t < Until(i)' => happened[t + 1] = After(ribbonRows'[i].reason)
      BY <1>2 DEF RowsTell, After
    <2>1. CASE i \in 1..n
      <3>1. ribbonRows'[i] = ribbonRows[i] /\ Until(i)' = Until(i)
        BY <1>2, <1>8, <2>1
      <3>2. /\ ribbonRows[i].from <= t /\ t < ribbonRows[i].to => happened[t + 1] = "live"
            /\ ribbonRows[i].to <= t /\ t < Until(i) => happened[t + 1] = After(ribbonRows[i].reason)
        BY <2>1 DEF RibbonInv, RowsTell
      <3> QED
        BY <3>1, <3>2
    <2>2. CASE i = n + 1
      BY <1>1, <1>2, <2>2
    <2> QED
      BY <1>1, <2>1, <2>2
  <1>11. RowsSpan'
    <2> SUFFICES ASSUME NEW t \in 0..(now - 1)
                 PROVE  \/ \A i \in 1..(n + 1) : ribbonRows'[i].from > t
                        \/ \E i \in 1..(n + 1) : ribbonRows'[i].from <= t /\ t < Until(i)'
      BY <1>2 DEF RowsSpan
    <2>1. CASE \A i \in 1..n : ribbonRows[i].from > t
      BY <1>1, <1>2, <2>1
    <2>2. CASE \E i \in 1..n : ribbonRows[i].from <= t /\ t < Until(i)
      <3>1. PICK i \in 1..n : ribbonRows[i].from <= t /\ t < Until(i)
        BY <2>2
      <3>2. i \in 1..(n + 1) /\ ribbonRows'[i].from <= t /\ t < Until(i)'
        BY <1>1, <1>2, <1>8, <3>1
      <3> QED
        BY <3>2
    <2> QED
      BY <2>1, <2>2 DEF RibbonInv, RowsSpan
  <1> QED
    BY <1>2, <1>4, <1>7, <1>10, <1>11

\* The open row is closed, and a reason given.
Closes(r, reason) == IF r.open THEN [r EXCEPT !.open = FALSE, !.reason = reason] ELSE r
LEMMA RowClosed ==
  ASSUME RibbonInv, NEW reason \in {"disconnected", "degraded", "server_down", "interrupted"}, ~moved,
         \/ host /\ ribbonLink = "live"
         \/ ~host /\ reason = "interrupted",
         ribbonRows' = Ribbon!Closed(reason), UNCHANGED <<now, happened>>
  PROVE  /\ ribbonRows' \in Seq(Row) /\ Len(ribbonRows') = Len(ribbonRows)
         /\ \A i \in 1..Len(ribbonRows) : ribbonRows'[i] = Closes(ribbonRows[i], reason)
         /\ RowsSay' /\ RowsTell' /\ RowsSpan'
  <1> DEFINE n == Len(ribbonRows)
  <1>1. n \in Nat /\ now \in Nat /\ \A i \in 1..n : ribbonRows[i] \in Row
    BY DEF RibbonInv, RibbonTypes
  <1>2. /\ ribbonRows' \in Seq(Row) /\ Len(ribbonRows') = n
        /\ \A i \in 1..n : ribbonRows'[i] = Closes(ribbonRows[i], reason)
    <2>1. \A i \in 1..n : Closes(ribbonRows[i], reason) \in Row
      <3> TAKE i \in 1..n
      <3>1. ribbonRows[i] \in Row
        BY <1>1
      <3>2. reason \in Reasons
        BY DEF Reasons
      <3>3. [ribbonRows[i] EXCEPT !.open = FALSE, !.reason = reason] \in Row
        BY <3>1, <3>2 DEF Row
      <3> QED
        BY <3>1, <3>3 DEF Closes
    <2>2. DOMAIN ribbonRows = 1..n
      BY DEF RibbonInv, RibbonTypes
    <2>3. ribbonRows' = [i \in 1..n |-> Closes(ribbonRows[i], reason)]
      BY <2>2, Zenon DEF Ribbon!Closed, Closes
    <2> HIDE DEF n
    <2> QED
      BY <1>1, <2>1, <2>3
  <1>3. /\ \A i \in 1..n : ribbonRows'[i] \in Row
        /\ \A i \in 1..n : ribbonRows'[i].from = ribbonRows[i].from /\ ribbonRows'[i].to = ribbonRows[i].to
        /\ \A i \in 1..n : ~ribbonRows'[i].open
        /\ \A i \in 1..n : ribbonRows'[i].reason = IF ribbonRows[i].open THEN reason ELSE ribbonRows[i].reason
    <2>1. \A i \in 1..n : ribbonRows'[i] \in Row
      BY <1>2
    <2>2. \A r \in Row : LET c == Closes(r, reason)
                         IN  /\ c.from = r.from /\ c.to = r.to /\ ~c.open
                             /\ c.reason = IF r.open THEN reason ELSE r.reason
      BY DEF Closes, Row, Reasons
    <2> QED
      BY <1>1, <1>2, <2>1, <2>2
  <1>5. \A i \in 1..n : ribbonRows[i].from \in Nat /\ ribbonRows[i].to \in Nat
    BY <1>1 DEF Row
  <1>6. \A i \in 1..n : RowSays(i)
    BY DEF RibbonInv, RowsSay
  <1>7. \A i \in 1..n : i # n => ribbonRows'[i] = ribbonRows[i]
    BY <1>2, <1>6 DEF Closes, RowSays
  <1>8. \A i \in 1..n : ribbonRows[i].open => ribbonRows[i].from < ribbonRows[i].to
    BY <1>1, <1>6 DEF RibbonInv, LastSays, LastRow, RowSays
  <1>9. RowsSay'
    <2> SUFFICES ASSUME NEW i \in 1..n PROVE RowSays(i)'
      BY <1>2 DEF RowsSay
    <2>1. RowSays(i) /\ i - 1 \in 0..n /\ i - 1 # n
      BY <1>1, <1>6
    <2>2. i > 1 => ribbonRows'[i - 1] = ribbonRows[i - 1]
      BY <1>1, <1>7, <2>1
    <2>3. i < n => ribbonRows'[i + 1].from = ribbonRows[i + 1].from
      BY <1>1, <1>3
    <2>4. CASE ribbonRows[i].open
      BY <1>1, <1>2, <1>3, <1>5, <1>8, <2>1, <2>3, <2>4 DEF RowSays
    <2>5. CASE ~ribbonRows[i].open
      <3>1. ribbonRows'[i] = ribbonRows[i]
        BY <1>2, <2>5 DEF Closes
      <3> QED
        BY <1>1, <1>2, <1>5, <2>1, <2>2, <2>3, <2>5, <3>1 DEF RowSays, After
    <2> QED
      BY <2>4, <2>5
  <1>10. \A i \in 1..n : Until(i)' = Until(i)
    BY <1>1, <1>2, <1>3 DEF Until
  <1>11. RowsTell'
    <2> SUFFICES ASSUME NEW t \in 0..(now - 1), NEW i \in 1..n
                 PROVE  /\ ribbonRows'[i].from <= t /\ t < ribbonRows'[i].to => happened[t + 1] = "live"
                        /\ ribbonRows'[i].to <= t /\ t < Until(i)' => happened[t + 1] = After(ribbonRows'[i].reason)
      BY <1>2 DEF RowsTell, After
    <2>1. /\ ribbonRows[i].from <= t /\ t < ribbonRows[i].to => happened[t + 1] = "live"
          /\ ribbonRows[i].to <= t /\ t < Until(i) => happened[t + 1] = After(ribbonRows[i].reason)
      BY DEF RibbonInv, RowsTell
    <2>2. CASE ribbonRows[i].open
      <3>1. RowSays(i) /\ i = n
        BY <1>6, <2>2 DEF RowSays
      <3>2. Until(i) = now
        BY <3>1 DEF Until
      <3>3. CASE host
        BY <1>1, <1>3, <1>5, <1>10, <2>1, <3>1, <3>2, <3>3 DEF RibbonInv, LastSays, LastRow
      <3>4. CASE ~host
        <4>1. reason = "interrupted" /\ After(ribbonRows[i].reason) = "lost" /\ After(ribbonRows'[i].reason) = "lost"
          BY <1>3, <2>2, <3>1, <3>4 DEF RowSays, After
        <4> QED
          BY <1>3, <1>10, <2>1, <4>1
      <3> QED
        BY <3>3, <3>4
    <2>3. CASE ~ribbonRows[i].open
      BY <1>3, <1>10, <2>1, <2>3
    <2> QED
      BY <2>2, <2>3
  <1>12. RowsSpan'
    <2> SUFFICES ASSUME NEW t \in 0..(now - 1)
                 PROVE  \/ \A i \in 1..n : ribbonRows'[i].from > t
                        \/ \E i \in 1..n : ribbonRows'[i].from <= t /\ t < Until(i)'
      BY <1>2 DEF RowsSpan
    <2>1. \/ \A i \in 1..n : ribbonRows[i].from > t
          \/ \E i \in 1..n : ribbonRows[i].from <= t /\ t < Until(i)
      BY DEF RibbonInv, RowsSpan
    <2> QED
      BY <1>3, <1>10, <2>1
  <1> QED
    BY <1>2, <1>9, <1>11, <1>12

\* What the journal tells of a cell.
LEMMA BodyOf ==
  ASSUME NEW entries, NEW n, NEW t
  PROVE  Ribbon!Bodies(entries, "break", n, t)
           <=> \E e \in entries : IsBreak(e) /\ e.from <= t /\ t < (IF e.to = 0 - 1 THEN n ELSE e.to)
  BY DEF Ribbon!Bodies, Ribbon!Covers, Ribbon!Never, IsBreak

\* A crash that is journalled changes no break.
LEMMA BreaksStay ==
  ASSUME RibbonInv, UNCHANGED <<now, happened>>, (ribbonLink = "broken")' <=> ribbonLink = "broken",
         journal \subseteq journal', \A e \in journal' : IsBreak(e) => e \in journal
  PROVE  BreaksTell'
  <1> DEFINE covers(e, t) == e.from <= t /\ t < (IF e.to = 0 - 1 THEN now ELSE e.to)
  <1>1. \A t \in 0..(now - 1) : (\E e \in journal : IsBreak(e) /\ covers(e, t)) <=> happened[t + 1] = "broken"
    BY BodyOf DEF RibbonInv, BreaksTell
  <1> HIDE DEF covers
  <1>2. \A t \in 0..(now - 1) : (\E e \in journal' : IsBreak(e) /\ covers(e, t)) <=> happened[t + 1] = "broken"
    BY <1>1
  <1>3. \A t \in 0..(now - 1) : Ribbon!Bodies(journal', "break", now, t) <=> happened[t + 1] = "broken"
    BY <1>2, BodyOf DEF covers
  <1>4. \A e \in journal' : IsBreak(e) => e.from \in 0..now /\ e.to \in 0..now \cup {0 - 1}
    BY DEF RibbonInv, BreaksTell
  <1>5. (\E e \in journal' : IsBreak(e) /\ e.to = 0 - 1) <=> ribbonLink = "broken"
    BY DEF RibbonInv, BreaksTell
  <1> QED
    BY <1>3, <1>4, <1>5 DEF BreaksTell, IsBreak, Ribbon!Bodies, Ribbon!Covers, Ribbon!Never

\* A break that begins now covers no time that is gone by.
LEMMA BreakBegins ==
  ASSUME RibbonInv, UNCHANGED <<now, happened>>, ribbonLink' = "broken",
         journal' = journal \cup {[type |-> "break", from |-> now, to |-> Ribbon!Never]}
  PROVE  BreaksTell' /\ journal' \subseteq Episode
  <1> DEFINE covers(e, t) == e.from <= t /\ t < (IF e.to = 0 - 1 THEN now ELSE e.to)
             new == [type |-> "break", from |-> now, to |-> 0 - 1]
  <1>1. \A t \in 0..(now - 1) : (\E e \in journal : IsBreak(e) /\ covers(e, t)) <=> happened[t + 1] = "broken"
    BY BodyOf DEF RibbonInv, BreaksTell
  <1>2. now \in Nat /\ journal \subseteq Episode
    BY DEF RibbonInv, RibbonTypes
  <1>3. journal' = journal \cup {new}
    BY DEF Ribbon!Never
  <1>4. IsBreak(new) /\ new.from = now /\ new.to = 0 - 1 /\ new \in Episode
    BY <1>2 DEF IsBreak, Episode
  <1>5. \A t \in 0..(now - 1) : ~covers(new, t)
    BY <1>2, <1>4
  <1> HIDE DEF new, covers
  <1>6. \A t \in 0..(now - 1) : (\E e \in journal' : IsBreak(e) /\ covers(e, t)) <=> happened[t + 1] = "broken"
    BY <1>1, <1>3, <1>5
  <1>7. \A t \in 0..(now - 1) : Ribbon!Bodies(journal', "break", now, t) <=> happened[t + 1] = "broken"
    BY <1>6, BodyOf DEF covers
  <1>8. \A e \in journal' : IsBreak(e) => e.from \in 0..now /\ e.to \in 0..now \cup {0 - 1}
    BY <1>2, <1>3, <1>4 DEF RibbonInv, BreaksTell
  <1>9. \E e \in journal' : IsBreak(e) /\ e.to = 0 - 1
    BY <1>3, <1>4
  <1>10. BreaksTell'
    BY <1>7, <1>8, <1>9 DEF BreaksTell, IsBreak, Ribbon!Bodies, Ribbon!Covers, Ribbon!Never
  <1> QED
    BY <1>2, <1>3, <1>4, <1>10

\* Ended now, a break covers what it covered.
LEMMA BreakEnds ==
  ASSUME RibbonInv, UNCHANGED <<now, happened>>, (ribbonLink # "broken")', journal' = Ribbon!Ended(journal)
  PROVE  BreaksTell' /\ journal' \subseteq Episode
  <1> DEFINE covers(e, t) == e.from <= t /\ t < (IF e.to = 0 - 1 THEN now ELSE e.to)
             end(e) == IF e.to = 0 - 1 THEN [e EXCEPT !.to = now] ELSE e
  <1>1. \A t \in 0..(now - 1) : (\E e \in journal : IsBreak(e) /\ covers(e, t)) <=> happened[t + 1] = "broken"
    BY BodyOf DEF RibbonInv, BreaksTell
  <1>2. now \in Nat /\ journal \subseteq Episode
    BY DEF RibbonInv, RibbonTypes
  <1>3. journal' = {end(e) : e \in journal}
    BY Zenon DEF Ribbon!Ended, Ribbon!Never
  <1>4. \A e \in Episode : /\ end(e) \in Episode /\ end(e).type = e.type /\ end(e).from = e.from
                           /\ end(e).to = IF e.to = 0 - 1 THEN now ELSE e.to
    BY <1>2 DEF Episode
  <1>5. \A e \in Episode : end(e).to # 0 - 1
    BY <1>2, <1>4
  <1>6. \A e \in Episode, t \in 0..(now - 1) : covers(end(e), t) <=> covers(e, t)
    BY <1>4, <1>5
  <1>7. \A e \in Episode : IsBreak(end(e)) <=> IsBreak(e)
    BY <1>4 DEF IsBreak
  <1>8. \A e \in journal : IsBreak(e) => end(e).from \in 0..now /\ end(e).to \in 0..now
    BY <1>2, <1>4 DEF RibbonInv, BreaksTell
  <1> HIDE DEF end, covers
  <1>9. \A t \in 0..(now - 1) : (\E e \in journal' : IsBreak(e) /\ covers(e, t)) <=> happened[t + 1] = "broken"
    <2> TAKE t \in 0..(now - 1)
    <2>1. (\E e \in journal' : IsBreak(e) /\ covers(e, t)) <=> \E e \in journal : IsBreak(e) /\ covers(e, t)
      BY <1>2, <1>3, <1>6, <1>7
    <2> QED
      BY <1>1, <2>1
  <1>10. \A t \in 0..(now - 1) : Ribbon!Bodies(journal', "break", now, t) <=> happened[t + 1] = "broken"
    BY <1>9, BodyOf DEF covers
  <1>11. \A e \in journal' : IsBreak(e) => e.from \in 0..now /\ e.to \in 0..now
    BY <1>2, <1>3, <1>7, <1>8
  <1>12. ~\E e \in journal' : IsBreak(e) /\ e.to = 0 - 1
    BY <1>2, <1>3, <1>5
  <1>13. BreaksTell'
    BY <1>10, <1>11, <1>12 DEF BreaksTell, IsBreak, Ribbon!Bodies, Ribbon!Covers, Ribbon!Never
  <1> QED
    BY <1>2, <1>3, <1>4, <1>13

LEMMA RibbonStart == ASSUME Ribbon!Init PROVE RibbonInv
  <1>1. now = 0 /\ ribbonRows = <<>> /\ happened = <<>> /\ Len(ribbonRows) = 0
    BY DEF Ribbon!Init
  <1>2. RibbonTypes
    <2>1. <<>> \in Seq(Row) /\ <<>> \in Seq(Links) /\ Len(<<>>) = 0
      OBVIOUS
    <2>2. ribbonLink \in Links /\ host \in BOOLEAN /\ moved \in BOOLEAN
      BY DEF Ribbon!Init, Links
    <2>3. journal \subseteq Episode /\ owed \subseteq [from : Nat, to : Nat] /\ ribbonOutage \in Nat \cup {0 - 1}
      BY DEF Ribbon!Init, Ribbon!Never
    <2> QED
      BY <1>1, <2>1, <2>2, <2>3 DEF RibbonTypes
  <1>3. RowsSay /\ LastSays /\ RowsTell /\ RowsSpan
    BY <1>1 DEF Ribbon!Init, RowsSay, LastSays, RowsTell, RowsSpan
  <1>4. BreaksTell
    BY DEF Ribbon!Init, BreaksTell
  <1> QED
    BY <1>2, <1>3, <1>4 DEF RibbonInv

\* The last row of a live link grows with the time.
Grows(r) == IF r.open /\ host /\ ribbonLink = "live" THEN [r EXCEPT !.to = now + 1] ELSE r
LEMMA TickKeeps == ASSUME RibbonInv, Ribbon!Tick PROVE RibbonInv'
  <1> DEFINE n == Len(ribbonRows)
  <1>1. n \in Nat /\ now \in Nat /\ (\A i \in 1..n : ribbonRows[i] \in Row) /\ now' = now + 1
    BY DEF RibbonInv, RibbonTypes, Ribbon!Tick
  <1>2. /\ ribbonRows' \in Seq(Row) /\ Len(ribbonRows') = n
        /\ \A i \in 1..n : ribbonRows'[i] = Grows(ribbonRows[i])
    <2>1. \A i \in 1..n : Grows(ribbonRows[i]) \in Row
      <3> TAKE i \in 1..n
      <3>1. ribbonRows[i] \in Row
        BY <1>1
      <3>2. [ribbonRows[i] EXCEPT !.to = now + 1] \in Row
        BY <1>1, <3>1 DEF Row
      <3> QED
        BY <3>1, <3>2 DEF Grows
    <2>2. DOMAIN ribbonRows = 1..n
      BY DEF RibbonInv, RibbonTypes
    <2>3. ribbonRows' = [i \in 1..n |-> Grows(ribbonRows[i])]
      BY <2>2, Zenon DEF Ribbon!Tick, Grows
    <2> HIDE DEF n
    <2> QED
      BY <1>1, <2>1, <2>3
  <1>3. \A r \in Row : LET g == Grows(r)
                       IN  /\ g.from = r.from /\ g.open = r.open /\ g.reason = r.reason
                           /\ g.to = IF r.open /\ host /\ ribbonLink = "live" THEN now + 1 ELSE r.to
    BY <1>1 DEF Grows, Row
  <1>4. \A i \in 1..n : /\ ribbonRows'[i].from = ribbonRows[i].from /\ ribbonRows'[i].open = ribbonRows[i].open
                        /\ ribbonRows'[i].reason = ribbonRows[i].reason
                        /\ ribbonRows'[i].to = IF ribbonRows[i].open /\ host /\ ribbonLink = "live" THEN now + 1
                                               ELSE ribbonRows[i].to
    BY <1>1, <1>2, <1>3
  <1>5. \A i \in 1..n : ribbonRows[i].from \in Nat /\ ribbonRows[i].to \in Nat
    BY <1>1 DEF Row
  <1>6. \A i \in 1..n : RowSays(i)
    BY DEF RibbonInv, RowsSay
  <1>7. /\ UNCHANGED <<ribbonLink, host, journal, owed, ribbonOutage>> /\ moved' = FALSE
        /\ happened \in Seq(Links) /\ Len(happened) = now /\ ribbonLink \in Links
        /\ happened' = Append(happened, ribbonLink)
    BY DEF Ribbon!Tick, Ribbon!client, RibbonInv, RibbonTypes
  <1>8. /\ happened' \in Seq(Links) /\ Len(happened') = now + 1 /\ happened'[now + 1] = ribbonLink
        /\ \A t \in 0..(now - 1) : happened'[t + 1] = happened[t + 1]
    BY <1>1, <1>7
  <1>9. RibbonTypes'
    <2>1. now' \in Nat /\ Len(happened') = now'
      BY <1>1, <1>8
    <2>3. moved' \in BOOLEAN /\ host' \in BOOLEAN
      BY <1>7 DEF RibbonInv, RibbonTypes
    <2>2. /\ journal' \subseteq Episode /\ owed' \subseteq [from : Nat, to : Nat]
          /\ ribbonOutage' \in Nat \cup {0 - 1} /\ ribbonLink' \in Links
      BY <1>7 DEF RibbonInv, RibbonTypes
    <2> QED
      BY <1>2, <1>8, <2>1, <2>2, <2>3 DEF RibbonTypes
  <1>10. RowsSay'
    <2> SUFFICES ASSUME NEW i \in 1..n PROVE RowSays(i)'
      BY <1>2 DEF RowsSay
    <2>1. RowSays(i) /\ i - 1 \in 0..n
      BY <1>1, <1>6
    <2>2. i > 1 => ribbonRows'[i - 1].reason = ribbonRows[i - 1].reason
      BY <1>1, <1>4, <2>1
    <2>3. i < n => ribbonRows'[i + 1].from = ribbonRows[i + 1].from
      BY <1>1, <1>4, SMTT(30)
    <2>4. /\ ribbonRows'[i].from = ribbonRows[i].from /\ ribbonRows'[i].open = ribbonRows[i].open
          /\ ribbonRows'[i].reason = ribbonRows[i].reason
          /\ ribbonRows'[i].to = IF ribbonRows[i].open /\ host /\ ribbonLink = "live" THEN now + 1
                                 ELSE ribbonRows[i].to
      BY <1>4
    <2>5. ribbonRows'[i].from <= ribbonRows'[i].to /\ ribbonRows'[i].to <= now + 1
      BY <1>1, <1>5, <2>1, <2>4 DEF RowSays
    <2>6. i < n => ribbonRows'[i].to < ribbonRows'[i + 1].from
      BY <1>1, <2>1, <2>3, <2>4 DEF RowSays
    <2>7. ribbonRows'[i].from = ribbonRows'[i].to /\ ~ribbonRows'[i].open
            => ribbonRows[i].from = ribbonRows[i].to /\ ~ribbonRows[i].open
      BY <2>4
    <2> QED
      BY <1>1, <1>2, <2>1, <2>2, <2>4, <2>5, <2>6, <2>7 DEF RowSays, After
  <1>11. n = 0 <=> ribbonRows = <<>>
    BY <1>1 DEF RibbonInv, RibbonTypes
  <1>12. n = 0 <=> ribbonRows' = <<>>
    BY <1>1, <1>2
  <1>13. n > 0 => LastRow = ribbonRows[n] /\ LastRow' = ribbonRows'[n] /\ n \in 1..n
    BY <1>1, <1>2 DEF LastRow
  <1>14. LastSays'
    <2>1. CASE n = 0
      BY <1>7, <1>11, <1>12, <2>1 DEF RibbonInv, LastSays
    <2>2. CASE n > 0
      <3>1. RowSays(n) /\ ribbonRows[n].from <= ribbonRows[n].to /\ ribbonRows[n].to <= now
        BY <1>6, <1>13, <2>2 DEF RowSays
      <3>2. /\ LastRow'.from = LastRow.from /\ LastRow'.open = LastRow.open /\ LastRow'.reason = LastRow.reason
            /\ LastRow'.to = IF LastRow.open /\ host /\ ribbonLink = "live" THEN now + 1 ELSE LastRow.to
            /\ LastRow.from \in Nat /\ LastRow.to \in Nat /\ LastRow.from <= LastRow.to /\ LastRow.to <= now
        BY <1>4, <1>5, <1>13, <2>2, <3>1
      <3>3. IF ribbonLink = "live" THEN host /\ LastRow.open /\ LastRow.to = now
            ELSE After(LastRow.reason) = ribbonLink /\ (LastRow.open => ~host)
        BY <1>1, <1>11, <2>2 DEF RibbonInv, LastSays
      <3>4. LastRow.open => LastRow.from < LastRow.to \/ ribbonLink = "live"
        BY <1>1, <1>11, <2>2 DEF RibbonInv, LastSays
      <3>5. After(LastRow'.reason) = After(LastRow.reason)
        BY <3>2
      <3>6. IF ribbonLink = "live" THEN host /\ LastRow'.open /\ LastRow'.to = now + 1
            ELSE After(LastRow'.reason) = ribbonLink /\ LastRow'.to < now + 1 /\ (LastRow'.open => ~host)
        BY <1>1, <3>2, <3>3, <3>5
      <3>7. LastRow'.open => LastRow'.from < LastRow'.to
        BY <1>1, <3>2, <3>3, <3>4
      <3> QED
        BY <1>1, <1>7, <1>12, <2>2, <3>5, <3>6, <3>7 DEF LastSays, After
    <2> QED
      BY <1>1, <2>1, <2>2
  <1>15. \A i \in 1..n : /\ i < n => Until(i)' = Until(i) /\ Until(i) = ribbonRows[i + 1].from
                         /\ i = n => Until(i)' = now + 1 /\ Until(i) = now
    BY <1>1, <1>2, <1>4 DEF Until
  <1>16. \A i \in 1..n : i < n => /\ ribbonRows[i].to < ribbonRows[i + 1].from /\ ribbonRows[i + 1].from <= now
                                  /\ ~ribbonRows[i].open
    <2> TAKE i \in 1..n
    <2> HAVE i < n
    <2>1. RowSays(i) /\ RowSays(i + 1) /\ i + 1 \in 1..n
      BY <1>1, <1>6
    <2> QED
      BY <1>1, <1>5, <2>1 DEF RowSays
  <1>17. \A i \in 1..n : /\ ribbonRows'[i].from \in Nat /\ ribbonRows'[i].to \in Nat
                         /\ Until(i) \in Nat /\ Until(i)' \in Nat /\ Until(i) <= Until(i)'
    <2> TAKE i \in 1..n
    <2>1. ribbonRows'[i].from \in Nat
      BY <1>4, <1>5
    <2>2. ribbonRows'[i].to \in Nat
      <3>1. ribbonRows'[i].to \in {now + 1, ribbonRows[i].to}
        BY <1>4
      <3> QED
        BY <1>1, <1>5, <3>1
    <2>3. CASE i < n
      <3>1. i + 1 \in 1..n
        BY <1>1, <2>3
      <3>2. Until(i)' = Until(i) /\ Until(i) = ribbonRows[i + 1].from
        BY <1>15, <2>3
      <3>3. ribbonRows[i + 1].from \in Nat
        BY <1>5, <3>1
      <3> QED
        BY <2>1, <2>2, <3>2, <3>3
    <2>4. CASE i = n
      <3>1. Until(i)' = now + 1 /\ Until(i) = now
        BY <1>15, <2>4
      <3> QED
        BY <1>1, <2>1, <2>2, <3>1
    <2> QED
      BY <1>1, <2>3, <2>4
  <1>18. RowsTell'
    <2> SUFFICES ASSUME NEW t \in 0..now, NEW i \in 1..n
                 PROVE  /\ ribbonRows'[i].from <= t /\ t < ribbonRows'[i].to => happened'[t + 1] = "live"
                        /\ ribbonRows'[i].to <= t /\ t < Until(i)' => happened'[t + 1] = After(ribbonRows'[i].reason)
      BY <1>1, <1>2 DEF RowsTell, After
    <2>1. ribbonRows'[i].reason = ribbonRows[i].reason /\ ribbonRows'[i].from = ribbonRows[i].from
      BY <1>4
    <2>2. CASE t \in 0..(now - 1)
      <3>1. /\ ribbonRows[i].from <= t /\ t < ribbonRows[i].to => happened[t + 1] = "live"
            /\ ribbonRows[i].to <= t /\ t < Until(i) => happened[t + 1] = After(ribbonRows[i].reason)
        BY <2>2 DEF RibbonInv, RowsTell
      <3>2. happened'[t + 1] = happened[t + 1]
        BY <1>8, <2>2
      <3>3. CASE i < n
        BY <1>4, <1>15, <1>16, <2>1, <3>1, <3>2, <3>3
      <3>4. CASE i = n
        <4>1. CASE ribbonLink = "live"
          <5>1. ribbonRows[i].to = now /\ ribbonRows'[i].to = now + 1
            BY <1>1, <1>4, <1>11, <1>13, <3>4, <4>1 DEF RibbonInv, LastSays
          <5> QED
            BY <1>1, <2>1, <2>2, <3>1, <3>2, <5>1
        <4>2. CASE ribbonLink # "live"
          <5>1. ribbonRows'[i].to = ribbonRows[i].to
            BY <1>4, <4>2
          <5> QED
            BY <1>1, <1>15, <2>1, <2>2, <3>1, <3>2, <3>4, <5>1
        <4> QED
          BY <4>1, <4>2
      <3> QED
        BY <1>1, <3>3, <3>4
    <2>3. CASE t = now
      <3>1. happened'[t + 1] = ribbonLink
        BY <1>8, <2>3
      <3>2. CASE i < n
        <4>1. ribbonRows'[i].to <= now /\ Until(i)' <= now
          <5>1. Until(i)' <= now
            BY <1>15, <1>16, <3>2
          <5>2. ribbonRows'[i].to = ribbonRows[i].to /\ ribbonRows[i].to < ribbonRows[i + 1].from
            BY <1>4, <1>16, <3>2
          <5>3. Until(i)' = ribbonRows[i + 1].from
            BY <1>15, <3>2
          <5> QED
            BY <1>1, <1>5, <1>17, <5>1, <5>2, <5>3
        <4> QED
          BY <1>1, <1>17, <2>3, <4>1
      <3>3. CASE i = n
        <4>1. IF ribbonLink = "live" THEN ribbonRows'[i].to = now + 1
              ELSE ribbonRows'[i].to <= now /\ After(ribbonRows[i].reason) = ribbonLink
          <5>1. RowSays(i) /\ LastRow = ribbonRows[i] /\ ribbonRows # <<>>
            BY <1>1, <1>6, <1>11, <1>13, <3>3
          <5> QED
            BY <1>1, <1>4, <5>1 DEF RibbonInv, LastSays, RowSays
        <4> QED
          BY <1>1, <1>17, <2>1, <2>3, <3>1, <4>1
      <3> QED
        BY <1>1, <3>2, <3>3
    <2> QED
      BY <1>1, <2>2, <2>3
  <1>19. RowsSpan'
    <2> SUFFICES ASSUME NEW t \in 0..now
                 PROVE  \/ \A i \in 1..n : ribbonRows'[i].from > t
                        \/ \E i \in 1..n : ribbonRows'[i].from <= t /\ t < Until(i)'
      <3>1. (now + 1) - 1 = now
        BY <1>1
      <3> QED
        BY <1>1, <1>2, <3>1 DEF RowsSpan
    <2>1. CASE t \in 0..(now - 1)
      <3>1. \/ \A i \in 1..n : ribbonRows[i].from > t
            \/ \E i \in 1..n : ribbonRows[i].from <= t /\ t < Until(i)
        BY <2>1 DEF RibbonInv, RowsSpan
      <3>2. \A i \in 1..n : t < Until(i) => t < Until(i)'
        BY <1>1, <1>17, <2>1
      <3> QED
        BY <1>4, <3>1, <3>2
    <2>2. CASE t = now /\ n > 0
      <3>1. PICK j \in 1..n : j = n
        BY <1>13, <2>2
      <3>2. ribbonRows[j].from <= ribbonRows[j].to /\ ribbonRows[j].to <= now
        BY <1>6 DEF RowSays
      <3>3. Until(j)' = now + 1
        BY <1>15, <3>1
      <3>4. ribbonRows'[j].from = ribbonRows[j].from /\ ribbonRows[j].from \in Nat /\ ribbonRows[j].to \in Nat
        BY <1>4, <1>5
      <3>5. ribbonRows'[j].from <= t /\ t < Until(j)'
        BY <1>1, <2>2, <3>2, <3>3, <3>4
      <3> QED
        BY <3>5
    <2>3. CASE n = 0
      BY <2>3
    <2> QED
      BY <1>1, <2>1, <2>2, <2>3
  <1>20. BreaksTell'
    <2> DEFINE covers(e, m, t) == e.from <= t /\ t < (IF e.to = 0 - 1 THEN m ELSE e.to)
    <2>1. \A t \in 0..(now - 1) : (\E e \in journal : IsBreak(e) /\ covers(e, now, t)) <=> happened[t + 1] = "broken"
      BY BodyOf DEF RibbonInv, BreaksTell
    <2>2. \A e \in journal : IsBreak(e) => e.from \in 0..now /\ e.to \in 0..now \cup {0 - 1}
      BY DEF RibbonInv, BreaksTell
    <2>3. (\E e \in journal : IsBreak(e) /\ e.to = 0 - 1) <=> ribbonLink = "broken"
      BY DEF RibbonInv, BreaksTell
    <2>4. \A e \in journal, t \in 0..(now - 1) : IsBreak(e) => (covers(e, now, t) <=> covers(e, now + 1, t))
      BY <1>1, <2>2
    <2>5. \A e \in journal : IsBreak(e) => (covers(e, now + 1, now) <=> e.to = 0 - 1)
      BY <1>1, <2>2
    <2> HIDE DEF covers
    <2>6. \A t \in 0..now : (\E e \in journal : IsBreak(e) /\ covers(e, now + 1, t)) <=> happened'[t + 1] = "broken"
      <3> TAKE t \in 0..now
      <3>1. CASE t \in 0..(now - 1)
        BY <1>8, <2>1, <2>4, <3>1
      <3>2. CASE t = now
        BY <1>8, <2>3, <2>5, <3>2
      <3> QED
        BY <1>1, <3>1, <3>2
    <2>7. \A t \in 0..now : Ribbon!Bodies(journal, "break", now + 1, t) <=> happened'[t + 1] = "broken"
      BY <2>6, BodyOf DEF covers
    <2>8. \A e \in journal : IsBreak(e) => e.from \in 0..(now + 1) /\ e.to \in 0..(now + 1) \cup {0 - 1}
      BY <1>1, <2>2
    <2>9. journal' = journal /\ ribbonLink' = ribbonLink /\ now' - 1 = now
      BY <1>1, <1>7
    <2> QED
      BY <1>1, <2>3, <2>7, <2>8, <2>9 DEF BreaksTell, IsBreak, Ribbon!Bodies, Ribbon!Covers, Ribbon!Never
  <1> QED
    BY <1>9, <1>10, <1>14, <1>18, <1>19, <1>20 DEF RibbonInv

\* What a change of the link leaves alone.
LEMMA ChangeIs ==
  ASSUME RibbonInv, NEW to \in Links, NEW r, NEW j, Ribbon!Change(to, r, j)
  PROVE  /\ host /\ ~moved /\ moved' /\ host' /\ ribbonLink' = to /\ ribbonRows' = r /\ journal' = j
         /\ UNCHANGED <<now, happened, owed, ribbonOutage>>
         /\ now' \in Nat /\ host' \in BOOLEAN /\ moved' \in BOOLEAN /\ ribbonLink' \in Links
         /\ happened' \in Seq(Links) /\ Len(happened') = now'
         /\ owed' \subseteq [from : Nat, to : Nat] /\ ribbonOutage' \in Nat \cup {0 - 1}
  <1>1. /\ host /\ ~moved /\ moved' = TRUE /\ host' = host /\ ribbonLink' = to /\ ribbonRows' = r /\ journal' = j
        /\ UNCHANGED <<now, happened, owed, ribbonOutage>>
    BY DEF Ribbon!Change, Ribbon!Once, Ribbon!client
  <1> QED
    BY <1>1 DEF RibbonInv, RibbonTypes

\* A connection that is made or comes back opens a row.
LEMMA OpenKeeps == ASSUME RibbonInv, Ribbon!Connect \/ Ribbon!Recover PROVE RibbonInv'
  <1> DEFINE r == [from |-> now, to |-> now, open |-> TRUE, reason |-> "none"]
  <1>1. now \in Nat /\ journal \subseteq Episode
    BY DEF RibbonInv, RibbonTypes
  <1>2. r \in Row /\ r.from = now /\ r.to = now /\ r.open /\ r.reason = "none"
    BY <1>1 DEF Row, Reasons
  <1>3. Ribbon!OpenRow = <<r>>
    BY DEF Ribbon!OpenRow, Ribbon!NoReason
  <1> HIDE DEF r
  <1>4. "live" \in Links
    BY DEF Links
  <1>5. PICK j : /\ Ribbon!Change("live", ribbonRows \o <<r>>, j)
                 /\ \/ ribbonLink \in {"idle", "lost"} /\ j = journal
                    \/ ribbonLink = "broken" /\ j = Ribbon!Ended(journal)
    BY <1>3, Zenon DEF Ribbon!Connect, Ribbon!Recover
  <1>6. /\ host /\ ~moved /\ moved' /\ host' /\ ribbonLink' = "live" /\ ribbonRows' = ribbonRows \o <<r>>
        /\ journal' = j /\ UNCHANGED <<now, happened, owed, ribbonOutage>>
        /\ now' \in Nat /\ host' \in BOOLEAN /\ moved' \in BOOLEAN /\ ribbonLink' \in Links
        /\ happened' \in Seq(Links) /\ Len(happened') = now'
        /\ owed' \subseteq [from : Nat, to : Nat] /\ ribbonOutage' \in Nat \cup {0 - 1}
    BY <1>4, <1>5, ChangeIs
  <1>7. /\ ribbonRows' \in Seq(Row) /\ ribbonRows' # <<>> /\ LastRow' = r
        /\ RowsSay' /\ RowsTell' /\ RowsSpan'
    BY <1>2, <1>5, <1>6, RowAdded
  <1>8. LastSays'
    BY <1>2, <1>6, <1>7 DEF LastSays
  <1>9. BreaksTell' /\ journal' \subseteq Episode
    <2>1. CASE ribbonLink \in {"idle", "lost"} /\ j = journal
      BY <1>1, <1>6, <2>1, BreaksStay
    <2>2. CASE ribbonLink = "broken" /\ j = Ribbon!Ended(journal)
      BY <1>6, <2>2, BreakEnds
    <2> QED
      BY <1>5, <2>1, <2>2
  <1> QED
    BY <1>6, <1>7, <1>8, <1>9 DEF RibbonInv, RibbonTypes

\* The rows of a link that goes are closed.
LEMMA CloseKeeps ==
  ASSUME RibbonInv, NEW reason \in {"disconnected", "degraded", "server_down"}, NEW j, ribbonLink = "live",
         Ribbon!Change(After(reason), Ribbon!Closed(reason), j),
         BreaksTell' /\ journal' \subseteq Episode
  PROVE  RibbonInv'
  <1>1. After(reason) \in Links /\ After(reason) # "live"
    BY DEF After, Links
  <1>2. /\ host /\ ~moved /\ moved' /\ host' /\ ribbonLink' = After(reason)
        /\ ribbonRows' = Ribbon!Closed(reason) /\ UNCHANGED <<now, happened, owed, ribbonOutage>>
        /\ now' \in Nat /\ host' \in BOOLEAN /\ moved' \in BOOLEAN /\ ribbonLink' \in Links
        /\ happened' \in Seq(Links) /\ Len(happened') = now'
        /\ owed' \subseteq [from : Nat, to : Nat] /\ ribbonOutage' \in Nat \cup {0 - 1}
    BY <1>1, ChangeIs
  <1>3. /\ ribbonRows' \in Seq(Row) /\ Len(ribbonRows') = Len(ribbonRows)
        /\ \A i \in 1..Len(ribbonRows) : ribbonRows'[i] = Closes(ribbonRows[i], reason)
        /\ RowsSay' /\ RowsTell' /\ RowsSpan'
    BY <1>2, RowClosed
  <1>4. ribbonRows \in Seq(Row) /\ ribbonRows # <<>> /\ LastRow.open
    BY DEF RibbonInv, RibbonTypes, LastSays
  <1>5. LastRow \in Row /\ LastRow' = Closes(LastRow, reason) /\ ribbonRows' # <<>>
    BY <1>3, <1>4 DEF LastRow
  <1>6. LastRow'.reason = reason /\ ~LastRow'.open
    BY <1>4, <1>5 DEF Closes, Row
  <1>7. LastSays'
    BY <1>1, <1>2, <1>5, <1>6 DEF LastSays, After
  <1> QED
    BY <1>2, <1>3, <1>7 DEF RibbonInv, RibbonTypes

\* A change of owner, or its end, is marked.
LEMMA MarkKeeps ==
  ASSUME RibbonInv, NEW reason \in {"disconnected", "server_down"}, NEW j, ribbonLink = "broken",
         Ribbon!Change(After(reason), ribbonRows \o Ribbon!Marker(reason), j),
         BreaksTell' /\ journal' \subseteq Episode
  PROVE  RibbonInv'
  <1> DEFINE r == [from |-> now, to |-> now, open |-> FALSE, reason |-> reason]
  <1>1. now \in Nat
    BY DEF RibbonInv, RibbonTypes
  <1>2. r \in Row /\ r.from = now /\ r.to = now /\ ~r.open /\ r.reason = reason
    BY <1>1 DEF Row, Reasons
  <1>3. Ribbon!Marker(reason) = <<r>>
    BY DEF Ribbon!Marker
  <1> HIDE DEF r
  <1>4. After(reason) \in Links /\ After(reason) # "live"
    BY DEF After, Links
  <1>5. /\ host /\ ~moved /\ moved' /\ host' /\ ribbonLink' = After(reason)
        /\ ribbonRows' = ribbonRows \o <<r>> /\ UNCHANGED <<now, happened, owed, ribbonOutage>>
        /\ now' \in Nat /\ host' \in BOOLEAN /\ moved' \in BOOLEAN /\ ribbonLink' \in Links
        /\ happened' \in Seq(Links) /\ Len(happened') = now'
        /\ owed' \subseteq [from : Nat, to : Nat] /\ ribbonOutage' \in Nat \cup {0 - 1}
    BY <1>3, <1>4, ChangeIs
  <1>6. /\ ribbonRows' \in Seq(Row) /\ ribbonRows' # <<>> /\ LastRow' = r
        /\ RowsSay' /\ RowsTell' /\ RowsSpan'
    BY <1>2, <1>5, RowAdded
  <1>7. LastSays'
    BY <1>2, <1>4, <1>5, <1>6 DEF LastSays, After
  <1> QED
    BY <1>5, <1>6, <1>7 DEF RibbonInv, RibbonTypes

LEMMA BreakKeeps ==
  ASSUME RibbonInv, NEW reason \in {"degraded", "server_down"}, Ribbon!Break(reason) PROVE RibbonInv'
  <1> DEFINE j == journal \cup {[type |-> "break", from |-> now, to |-> Ribbon!Never]}
  <1>1. ribbonLink = "live" /\ Ribbon!Change("broken", Ribbon!Closed(reason), j)
    BY DEF Ribbon!Break
  <1>2. After(reason) = "broken" /\ "broken" \in Links
    BY DEF After, Links
  <1>3. journal' = j /\ ribbonLink' = "broken" /\ UNCHANGED <<now, happened>>
    BY <1>1, <1>2, ChangeIs
  <1>4. BreaksTell' /\ journal' \subseteq Episode
    BY <1>3, BreakBegins
  <1> HIDE DEF j
  <1> QED
    BY <1>1, <1>2, <1>4, CloseKeeps

LEMMA GoesDownKeeps == ASSUME RibbonInv, Ribbon!GoesDown PROVE RibbonInv'
  <1>1. ribbonLink = "broken" /\ Ribbon!Change("broken", ribbonRows \o Ribbon!Marker("server_down"), journal)
    BY DEF Ribbon!GoesDown
  <1>2. After("server_down") = "broken" /\ "broken" \in Links
    BY DEF After, Links
  <1>3. journal' = journal /\ ribbonLink' = "broken" /\ UNCHANGED <<now, happened>>
    BY <1>1, <1>2, ChangeIs
  <1>4. BreaksTell' /\ journal' \subseteq Episode
    BY <1>1, <1>3, BreaksStay DEF RibbonInv, RibbonTypes
  <1> QED
    BY <1>1, <1>2, <1>4, MarkKeeps

LEMMA DisconnectKeeps == ASSUME RibbonInv, Ribbon!Disconnect PROVE RibbonInv'
  <1>1. After("disconnected") = "idle" /\ "idle" \in Links
    BY DEF After, Links
  <1>2. CASE ribbonLink = "live" /\ Ribbon!Change("idle", Ribbon!Closed("disconnected"), journal)
    <2>1. journal' = journal /\ ribbonLink' = "idle" /\ UNCHANGED <<now, happened>>
      BY <1>1, <1>2, ChangeIs
    <2>2. BreaksTell' /\ journal' \subseteq Episode
      BY <1>2, <2>1, BreaksStay DEF RibbonInv, RibbonTypes
    <2> QED
      BY <1>1, <1>2, <2>2, CloseKeeps
  <1>3. CASE /\ ribbonLink = "broken"
             /\ Ribbon!Change("idle", ribbonRows \o Ribbon!Marker("disconnected"), Ribbon!Ended(journal))
    <2>1. journal' = Ribbon!Ended(journal) /\ ribbonLink' = "idle" /\ UNCHANGED <<now, happened>>
      BY <1>1, <1>3, ChangeIs
    <2>2. BreaksTell' /\ journal' \subseteq Episode
      BY <2>1, BreakEnds
    <2> QED
      BY <1>1, <1>3, <2>2, MarkKeeps
  <1> QED
    BY <1>2, <1>3 DEF Ribbon!Disconnect

\* While the rows and the time stand.
LEMMA RowsStand ==
  ASSUME RibbonInv, UNCHANGED <<now, ribbonRows, happened>>
  PROVE  RowsSay' /\ RowsTell' /\ RowsSpan'
  BY DEF RibbonInv, RowsSay, RowSays, RowsTell, RowsSpan, Until, After

LEMMA HostDownKeeps == ASSUME RibbonInv, Ribbon!HostDown PROVE RibbonInv'
  <1>1. /\ UNCHANGED <<now, ribbonRows, journal, happened, owed, ribbonOutage>>
        /\ ~moved /\ moved' = TRUE /\ host' = FALSE
        /\ ribbonLink' = IF ribbonLink = "live" THEN "lost" ELSE ribbonLink
    BY DEF Ribbon!HostDown, Ribbon!Once, Ribbon!client
  <1>2. RibbonTypes'
    <2>1. ribbonLink' \in Links /\ host' \in BOOLEAN /\ moved' \in BOOLEAN
      BY <1>1 DEF RibbonInv, RibbonTypes, Links
    <2> QED
      BY <1>1, <2>1 DEF RibbonInv, RibbonTypes
  <1>3. LastSays'
    <2>1. CASE ribbonRows = <<>>
      BY <1>1, <2>1 DEF RibbonInv, LastSays
    <2>2. CASE ribbonRows # <<>>
      <3>1. LastRow' = LastRow
        BY <1>1 DEF LastRow
      <3>2. LastRow.open => LastRow.reason = "none"
        <4>1. Len(ribbonRows) \in 1..Len(ribbonRows)
          BY <2>2 DEF RibbonInv, RibbonTypes
        <4> QED
          BY <4>1 DEF RibbonInv, RowsSay, RowSays, LastRow
      <3>3. CASE ribbonLink = "live"
        <4>1. ribbonLink' = "lost" /\ LastRow.open /\ LastRow.from < LastRow.to
          BY <1>1, <2>2, <3>3 DEF RibbonInv, LastSays
        <4>2. After(LastRow.reason) = "lost"
          BY <3>2, <4>1 DEF After
        <4> QED
          BY <1>1, <2>2, <3>1, <4>1, <4>2 DEF LastSays, After
      <3>4. CASE ribbonLink # "live"
        BY <1>1, <2>2, <3>1, <3>4 DEF RibbonInv, LastSays, After
      <3> QED
        BY <3>3, <3>4
    <2> QED
      BY <2>1, <2>2
  <1>4. BreaksTell'
    BY <1>1, BreaksStay
  <1> QED
    BY <1>1, <1>2, <1>3, <1>4, RowsStand DEF RibbonInv

\* The rows a crash left open are closed where their heartbeats end.
LEMMA HostUpKeeps == ASSUME RibbonInv, Ribbon!HostUp PROVE RibbonInv'
  <1>1. /\ UNCHANGED <<now, ribbonLink, journal, happened, owed, ribbonOutage>>
        /\ ~moved /\ moved' = TRUE /\ ~host /\ host' = TRUE
        /\ ribbonRows' = Ribbon!Closed("interrupted")
    BY DEF Ribbon!HostUp, Ribbon!Once, Ribbon!client
  <1>2. /\ ribbonRows' \in Seq(Row) /\ Len(ribbonRows') = Len(ribbonRows)
        /\ \A i \in 1..Len(ribbonRows) : ribbonRows'[i] = Closes(ribbonRows[i], "interrupted")
        /\ RowsSay' /\ RowsTell' /\ RowsSpan'
    BY <1>1, RowClosed
  <1>3. RibbonTypes'
    <2>1. host' \in BOOLEAN /\ moved' \in BOOLEAN
      BY <1>1
    <2> QED
      BY <1>1, <1>2, <2>1 DEF RibbonInv, RibbonTypes
  <1>4. LastSays'
    <2>1. CASE ribbonRows = <<>>
      <3>1. ribbonRows' = <<>>
        BY <1>2, <2>1
      <3> QED
        BY <1>1, <2>1, <3>1 DEF RibbonInv, LastSays
    <2>2. CASE ribbonRows # <<>>
      <3>1. ribbonRows \in Seq(Row) /\ Len(ribbonRows) \in 1..Len(ribbonRows)
        BY <2>2 DEF RibbonInv, RibbonTypes
      <3>2. LastRow \in Row /\ LastRow' = Closes(LastRow, "interrupted") /\ ribbonRows' # <<>>
        BY <1>2, <3>1 DEF LastRow
      <3>3. LastRow.open => LastRow.reason = "none"
        BY <3>1 DEF RibbonInv, RowsSay, RowSays, LastRow
      <3>4. /\ ~LastRow'.open /\ LastRow'.to = LastRow.to
            /\ LastRow'.reason = IF LastRow.open THEN "interrupted" ELSE LastRow.reason
        BY <3>2 DEF Closes, Row
      <3>5. After(LastRow'.reason) = After(LastRow.reason)
        BY <3>3, <3>4 DEF After
      <3>6. ribbonLink # "live"
        BY <1>1, <2>2 DEF RibbonInv, LastSays
      <3>7. After(LastRow.reason) = ribbonLink
        BY <2>2, <3>6 DEF RibbonInv, LastSays
      <3> QED
        BY <1>1, <3>2, <3>4, <3>5, <3>6, <3>7 DEF LastSays, After
    <2> QED
      BY <2>1, <2>2
  <1>5. BreaksTell'
    BY <1>1, BreaksStay
  <1> QED
    BY <1>2, <1>3, <1>4, <1>5 DEF RibbonInv

\* While the link and its rows stand.
LEMMA RibbonStands ==
  ASSUME RibbonInv, UNCHANGED <<now, ribbonLink, host, ribbonRows, moved, happened>>,
         journal \subseteq journal', journal' \subseteq Episode, \A e \in journal' : IsBreak(e) => e \in journal,
         owed' \subseteq [from : Nat, to : Nat], ribbonOutage' \in Nat \cup {0 - 1}
  PROVE  RibbonInv'
  <1>1. RibbonTypes'
    BY DEF RibbonInv, RibbonTypes
  <1>2. LastSays'
    BY DEF RibbonInv, LastSays, LastRow, After
  <1>3. BreaksTell'
    BY BreaksStay
  <1> QED
    BY <1>1, <1>2, <1>3, RowsStand DEF RibbonInv

\* A crash of the journal, from its beginning to its end.
CrashOf(from, to) == [type |-> "crash", from |-> from, to |-> to]
LEMMA CrashIsAdded ==
  ASSUME RibbonInv, Ribbon!CrashJournalled \/ Ribbon!OtherBrowserReports
  PROVE  /\ \E from, to : from \in Nat /\ to \in Nat /\ journal' = journal \cup {CrashOf(from, to)}
         /\ UNCHANGED <<now, ribbonLink, host, ribbonRows, moved, happened, shown, incidents, ribbonOutage, crash>>
         /\ owed' \subseteq owed
  <1>1. now \in Nat /\ owed \subseteq [from : Nat, to : Nat]
    BY DEF RibbonInv, RibbonTypes
  <1>2. CASE Ribbon!CrashJournalled
    <2>1. PICK e \in owed : owed' = owed \ {e} /\ journal' = journal \cup {CrashOf(e.from, e.to)}
      BY <1>2 DEF Ribbon!CrashJournalled, CrashOf
    <2>2. e.from \in Nat /\ e.to \in Nat
      BY <1>1
    <2>3. UNCHANGED <<now, ribbonLink, host, ribbonRows, moved, happened, shown, incidents, ribbonOutage, crash>>
      BY <1>2 DEF Ribbon!CrashJournalled, Ribbon!client
    <2> QED
      BY <2>1, <2>2, <2>3
  <1>3. CASE Ribbon!OtherBrowserReports
    <2>1. PICK from, to \in 0..now : journal' = journal \cup {CrashOf(from, to)}
      BY <1>3 DEF Ribbon!OtherBrowserReports, CrashOf
    <2>2. from \in Nat /\ to \in Nat
      BY <1>1
    <2>3. UNCHANGED <<now, ribbonLink, host, ribbonRows, moved, happened, shown, incidents, ribbonOutage, crash, owed>>
      BY <1>3 DEF Ribbon!OtherBrowserReports, Ribbon!client
    <2> QED
      BY <2>1, <2>2, <2>3
  <1> QED
    BY <1>2, <1>3
LEMMA CrashKeeps == ASSUME RibbonInv, Ribbon!CrashJournalled \/ Ribbon!OtherBrowserReports PROVE RibbonInv'
  <1>1. /\ \E from, to : from \in Nat /\ to \in Nat /\ journal' = journal \cup {CrashOf(from, to)}
        /\ UNCHANGED <<now, ribbonLink, host, ribbonRows, moved, happened, ribbonOutage>>
        /\ owed' \subseteq owed
    BY CrashIsAdded
  <1>2. PICK from, to : from \in Nat /\ to \in Nat /\ journal' = journal \cup {CrashOf(from, to)}
    BY <1>1
  <1>3. CrashOf(from, to) \in Episode /\ ~IsBreak(CrashOf(from, to))
    BY <1>2 DEF CrashOf, Episode, IsBreak
  <1>4. journal \subseteq Episode /\ owed \subseteq [from : Nat, to : Nat] /\ ribbonOutage \in Nat \cup {0 - 1}
    BY DEF RibbonInv, RibbonTypes
  <1> QED
    BY <1>1, <1>2, <1>3, <1>4, RibbonStands

\* What the browser does leaves the server alone.
LEMMA BrowserIs ==
  ASSUME RibbonInv,
         Ribbon!OnBackendDrop \/ Ribbon!ResolveOutage \/ Ribbon!FetchLink \/ Ribbon!FetchConnectionIncidents
  PROVE  /\ UNCHANGED <<now, ribbonLink, host, ribbonRows, journal, moved, happened>>
         /\ owed' \subseteq [from : Nat, to : Nat] /\ ribbonOutage' \in Nat \cup {0 - 1}
  <1>1. now \in Nat /\ owed \subseteq [from : Nat, to : Nat] /\ ribbonOutage \in Nat \cup {0 - 1}
    BY DEF RibbonInv, RibbonTypes
  <1>2. CASE Ribbon!OnBackendDrop
    BY <1>1, <1>2 DEF Ribbon!OnBackendDrop, Ribbon!server
  <1>3. CASE Ribbon!ResolveOutage
    <2>1. /\ ribbonOutage # 0 - 1 /\ ribbonOutage' = 0 - 1
          /\ owed' = owed \cup {[from |-> ribbonOutage, to |-> now]}
          /\ UNCHANGED <<now, ribbonLink, host, ribbonRows, journal, moved, happened>>
      BY <1>3 DEF Ribbon!ResolveOutage, Ribbon!server, Ribbon!Never
    <2>2. [from |-> ribbonOutage, to |-> now] \in [from : Nat, to : Nat]
      BY <1>1, <2>1
    <2> QED
      BY <1>1, <2>1, <2>2
  <1>4. CASE Ribbon!FetchLink
    BY <1>1, <1>4 DEF Ribbon!FetchLink, Ribbon!server
  <1>5. CASE Ribbon!FetchConnectionIncidents
    BY <1>1, <1>5 DEF Ribbon!FetchConnectionIncidents, Ribbon!server
  <1> QED
    BY <1>2, <1>3, <1>4, <1>5
LEMMA BrowserKeeps ==
  ASSUME RibbonInv,
         Ribbon!OnBackendDrop \/ Ribbon!ResolveOutage \/ Ribbon!FetchLink \/ Ribbon!FetchConnectionIncidents
  PROVE  RibbonInv'
  <1>1. /\ UNCHANGED <<now, ribbonLink, host, ribbonRows, journal, moved, happened>>
        /\ owed' \subseteq [from : Nat, to : Nat] /\ ribbonOutage' \in Nat \cup {0 - 1}
    BY BrowserIs
  <1> QED
    BY <1>1, RibbonStands DEF RibbonInv, RibbonTypes

\* The rows of a link, with the time between them, are what happened to it, and its breaks
\* are the time it was broken, whatever breaks, comes back, is disconnected or crashes.
THEOREM RibbonInvariant == Ribbon!Spec => []RibbonInv
  <1>1. Ribbon!Init => RibbonInv
    BY RibbonStart
  <1>2. RibbonInv /\ [Ribbon!Next]_(Ribbon!linkVars) => RibbonInv'
    <2> SUFFICES ASSUME RibbonInv, [Ribbon!Next]_(Ribbon!linkVars) PROVE RibbonInv'
      OBVIOUS
    <2>1. CASE Ribbon!Tick
      BY <2>1, TickKeeps
    <2>2. CASE Ribbon!Connect \/ Ribbon!Recover
      BY <2>2, OpenKeeps
    <2>3. CASE \E reason \in {"degraded", "server_down"} : Ribbon!Break(reason)
      BY <2>3, BreakKeeps
    <2>4. CASE Ribbon!GoesDown
      BY <2>4, GoesDownKeeps
    <2>5. CASE Ribbon!Disconnect
      BY <2>5, DisconnectKeeps
    <2>6. CASE Ribbon!HostDown
      BY <2>6, HostDownKeeps
    <2>7. CASE Ribbon!HostUp
      BY <2>7, HostUpKeeps
    <2>8. CASE Ribbon!CrashJournalled \/ Ribbon!OtherBrowserReports
      BY <2>8, CrashKeeps
    <2>9. CASE Ribbon!OnBackendDrop \/ Ribbon!ResolveOutage \/ Ribbon!FetchLink \/ Ribbon!FetchConnectionIncidents
      BY <2>9, BrowserKeeps
    <2>10. CASE UNCHANGED Ribbon!linkVars
      <3>1. /\ UNCHANGED <<now, ribbonLink, host, ribbonRows, journal, moved, happened, owed, ribbonOutage>>
        BY <2>10 DEF Ribbon!linkVars
      <3> QED
        BY <3>1, RibbonStands DEF RibbonInv, RibbonTypes
    <2> QED
      BY <2>1, <2>2, <2>3, <2>4, <2>5, <2>6, <2>7, <2>8, <2>9, <2>10 DEF Ribbon!Next
  <1> QED
    BY <1>1, <1>2, PTL DEF Ribbon!Spec

\* The red of an outage: what the browser suspects stays drawn, or a crash is known.
LEMMA SuspectStart == ASSUME Ribbon!Init PROVE SuspectInv
  BY DEF Ribbon!Init, SuspectInv, CrashesEnd, CrashesStay, Ribbon!Never

LEMMA OverlapStands ==
  ASSUME NEW entries, CrashesEnd(entries), NEW from \in Nat, NEW n \in Nat,
         Ribbon!JournalHasOverlappingCrash(entries, [from |-> from, to |-> 0 - 1], n)
  PROVE  Ribbon!JournalHasOverlappingCrash(entries, [from |-> from, to |-> 0 - 1], n + 1)
  <1>1. PICK e \in entries : e.type = "crash" /\ Ribbon!Overlap(e, [from |-> from, to |-> 0 - 1], n)
    BY DEF Ribbon!JournalHasOverlappingCrash
  <1>2. e.from \in Nat /\ e.to \in Nat
    BY <1>1 DEF CrashesEnd
  <1>3. e.from < n /\ e.to > from
    BY <1>1, <1>2 DEF Ribbon!Overlap, Ribbon!Never
  <1>4. Ribbon!Overlap(e, [from |-> from, to |-> 0 - 1], n + 1)
    BY <1>2, <1>3 DEF Ribbon!Overlap, Ribbon!Never
  <1> QED
    BY <1>1, <1>4 DEF Ribbon!JournalHasOverlappingCrash

\* Only the fetches of the browser change what it suspects or knows.
LEMMA SuspectStands ==
  ASSUME RibbonInv, SuspectInv, UNCHANGED <<ribbonOutage, incidents, shown, crash>>,
         CrashesEnd(journal'), CrashesStay(journal, journal'),
         now' \in {now, now + 1}
  PROVE  SuspectInv'
  <1>1. now \in Nat /\ ribbonOutage \in Nat \cup {0 - 1}
    BY DEF RibbonInv, RibbonTypes
  <1>2. CrashesEnd(incidents)
    BY DEF SuspectInv, CrashesEnd, CrashesStay
  <1>3. KnownCrash => ribbonOutage = 0 - 1 \/ KnownCrash'
    <2>1. CASE now' = now
      BY <2>1 DEF KnownCrash, Ribbon!JournalHasOverlappingCrash, Ribbon!Overlap
    <2>2. CASE now' = now + 1 /\ ribbonOutage \in Nat
      BY <1>1, <1>2, <2>2, OverlapStands DEF KnownCrash
    <2> QED
      BY <1>1, <2>1, <2>2
  <1>4. CrashesEnd(journal)' /\ CrashesStay(incidents, journal)'
    BY DEF SuspectInv, CrashesEnd, CrashesStay
  <1>5. SuspectedGap' = SuspectedGap
    BY DEF SuspectedGap
  <1> QED
    BY <1>1, <1>3, <1>4, <1>5 DEF SuspectInv

LEMMA EndedCrashesEnd ==
  ASSUME RibbonInv, SuspectInv, journal' = Ribbon!Ended(journal) PROVE CrashesEnd(journal') /\ CrashesStay(journal, journal')
  <1>1. CrashesStay(journal, journal')
    <2> SUFFICES ASSUME NEW e \in journal, e.type = "crash" PROVE e \in journal'
      BY DEF CrashesStay
    <2>1. e.to # 0 - 1
      BY DEF SuspectInv, CrashesEnd
    <2> QED
      BY <2>1 DEF Ribbon!Ended, Ribbon!Never
  <1> SUFFICES ASSUME NEW e \in journal', e.type = "crash" PROVE e.from \in Nat /\ e.to \in Nat
    BY <1>1 DEF CrashesEnd
  <1>2. PICK d \in journal : e = IF d.to = 0 - 1 THEN [d EXCEPT !.to = now] ELSE d
    BY DEF Ribbon!Ended, Ribbon!Never
  <1>3. d \in Episode /\ now \in Nat
    BY DEF RibbonInv, RibbonTypes
  <1>4. e.type = d.type /\ e.from = d.from /\ e.to = IF d.to = 0 - 1 THEN now ELSE d.to
    BY <1>2, <1>3 DEF Episode
  <1>5. d.from \in Nat /\ d.to \in Nat
    BY <1>4 DEF SuspectInv, CrashesEnd
  <1> QED
    BY <1>3, <1>4, <1>5

LEMMA ChangeSuspects ==
  ASSUME RibbonInv, SuspectInv, NEW to, NEW r, NEW j, Ribbon!Change(to, r, j),
         \/ j = journal
         \/ j = Ribbon!Ended(journal)
         \/ j = journal \cup {[type |-> "break", from |-> now, to |-> Ribbon!Never]}
  PROVE  SuspectInv'
  <1>1. UNCHANGED <<now, ribbonOutage, incidents, shown, crash>> /\ journal' = j
    BY DEF Ribbon!Change, Ribbon!client
  <1>2. CrashesEnd(journal') /\ CrashesStay(journal, journal')
    <2>1. CASE j = journal
      BY <1>1, <2>1 DEF SuspectInv, CrashesEnd, CrashesStay
    <2>2. CASE j = Ribbon!Ended(journal)
      BY <1>1, <2>2, EndedCrashesEnd
    <2>3. CASE j = journal \cup {[type |-> "break", from |-> now, to |-> Ribbon!Never]}
      BY <1>1, <2>3 DEF SuspectInv, CrashesEnd, CrashesStay
    <2> QED
      BY <2>1, <2>2, <2>3
  <1> QED
    BY <1>1, <1>2, SuspectStands

LEMMA DropSuspects == ASSUME RibbonInv, SuspectInv, Ribbon!OnBackendDrop PROVE SuspectInv'
  <1>1. /\ ribbonOutage' = now /\ now \in Nat /\ UNCHANGED <<now, journal, incidents>>
        /\ crash' = {[from |-> now, to |-> 0 - 1]}
    BY DEF Ribbon!OnBackendDrop, Ribbon!server, Ribbon!Never, RibbonInv, RibbonTypes
  <1>2. SuspectedGap' \in shown'.gaps
    BY <1>1 DEF Ribbon!OnBackendDrop, Ribbon!ApplyCrashOptimistic, Ribbon!OverlayCrashOutageOnLink, Ribbon!Never,
                SuspectedGap
  <1> QED
    BY <1>1, <1>2 DEF SuspectInv, CrashesEnd, CrashesStay

LEMMA FetchSuspects ==
  ASSUME RibbonInv, SuspectInv, Ribbon!FetchLink \/ Ribbon!FetchConnectionIncidents PROVE SuspectInv'
  <1>1. UNCHANGED <<now, journal, ribbonOutage>> /\ ribbonOutage \in Nat \cup {0 - 1} /\ now \in Nat
    BY DEF Ribbon!FetchLink, Ribbon!FetchConnectionIncidents, Ribbon!server, RibbonInv, RibbonTypes
  <1>2. CASE Ribbon!FetchLink
    <2>1. incidents' = incidents /\ \A c \in crash : c.to # 0 - 1
      BY <1>2 DEF Ribbon!FetchLink, Ribbon!Never
    <2>2. ribbonOutage # 0 - 1 => KnownCrash
      <3> DEFINE c == [from |-> ribbonOutage, to |-> 0 - 1]
      <3>1. c.to = 0 - 1
        OBVIOUS
      <3> HIDE DEF c
      <3>2. crash # {c}
        BY <2>1, <3>1
      <3> QED
        BY <3>2 DEF SuspectInv, c
    <2>3. KnownCrash => KnownCrash'
      BY <1>1, <2>1 DEF KnownCrash, Ribbon!JournalHasOverlappingCrash, Ribbon!Overlap
    <2> QED
      BY <1>1, <2>1, <2>2, <2>3 DEF SuspectInv, CrashesEnd, CrashesStay
  <1>3. CASE Ribbon!FetchConnectionIncidents
    <2>1. /\ incidents' = journal /\ shown' = shown
          /\ crash' = {c \in crash : ~Ribbon!JournalHasOverlappingCrash(journal, c, now)}
      BY <1>3 DEF Ribbon!FetchConnectionIncidents
    <2>2. CrashesEnd(journal)' /\ CrashesStay(incidents, journal)'
      BY <1>1, <2>1 DEF SuspectInv, CrashesEnd, CrashesStay
    <2>3. ASSUME ribbonOutage # 0 - 1 PROVE KnownCrash' \/ (crash' = {[from |-> ribbonOutage, to |-> 0 - 1]} /\ SuspectedGap \in shown.gaps)
      <3> DEFINE c == [from |-> ribbonOutage, to |-> 0 - 1]
      <3>1. CASE Ribbon!JournalHasOverlappingCrash(journal, c, now)
        <4>1. KnownCrash'
          BY <1>1, <2>1, <3>1 DEF KnownCrash, Ribbon!JournalHasOverlappingCrash, Ribbon!Overlap
        <4> QED
          BY <4>1
      <3>2. CASE ~Ribbon!JournalHasOverlappingCrash(journal, c, now)
        <4>1. CASE crash = {c} /\ SuspectedGap \in shown.gaps
          <5> HIDE DEF c
          <5>1. crash' = {c}
            BY <2>1, <3>2, <4>1
          <5> QED
            BY <4>1, <5>1 DEF c
        <4>2. CASE KnownCrash
          <5>1. Ribbon!JournalHasOverlappingCrash(journal, c, now)
            BY <4>2 DEF KnownCrash, Ribbon!JournalHasOverlappingCrash, SuspectInv, CrashesStay
          <5> QED
            BY <3>2, <5>1
        <4> QED
          BY <2>3, <4>1, <4>2 DEF SuspectInv
      <3> QED
        BY <3>1, <3>2
    <2> QED
      BY <1>1, <2>1, <2>2, <2>3 DEF SuspectInv, SuspectedGap
  <1> QED
    BY <1>2, <1>3

LEMMA SuspectStep == ASSUME RibbonInv, SuspectInv, [Ribbon!Next]_(Ribbon!linkVars) PROVE SuspectInv'
  <1>1. CASE Ribbon!Tick
    <2>1. /\ UNCHANGED <<ribbonOutage, incidents, shown, crash, journal>> /\ now' = now + 1
      BY <1>1 DEF Ribbon!Tick, Ribbon!client
    <2> QED
      BY <2>1, SuspectStands DEF SuspectInv, CrashesEnd, CrashesStay
  <1>2. CASE \/ Ribbon!Connect \/ Ribbon!Recover \/ Ribbon!GoesDown \/ Ribbon!Disconnect
             \/ \E reason \in {"degraded", "server_down"} : Ribbon!Break(reason)
    <2>1. PICK to, r, j : /\ Ribbon!Change(to, r, j)
                          /\ \/ j = journal
                             \/ j = Ribbon!Ended(journal)
                             \/ j = journal \cup {[type |-> "break", from |-> now, to |-> Ribbon!Never]}
      BY <1>2, Zenon DEF Ribbon!Connect, Ribbon!Recover, Ribbon!GoesDown, Ribbon!Disconnect, Ribbon!Break
    <2> QED
      BY <2>1, ChangeSuspects
  <1>3. CASE Ribbon!HostDown \/ Ribbon!HostUp
    <2>1. UNCHANGED <<ribbonOutage, incidents, shown, crash, journal, now>>
      BY <1>3 DEF Ribbon!HostDown, Ribbon!HostUp, Ribbon!client
    <2> QED
      BY <2>1, SuspectStands DEF SuspectInv, CrashesEnd, CrashesStay
  <1>4. CASE Ribbon!CrashJournalled \/ Ribbon!OtherBrowserReports
    <2>1. /\ \E from, to : from \in Nat /\ to \in Nat /\ journal' = journal \cup {CrashOf(from, to)}
          /\ UNCHANGED <<now, shown, incidents, ribbonOutage, crash>>
      BY <1>4, CrashIsAdded
    <2>2. CrashesEnd(journal') /\ CrashesStay(journal, journal')
      BY <2>1 DEF SuspectInv, CrashesEnd, CrashesStay, CrashOf
    <2> QED
      BY <2>1, <2>2, SuspectStands
  <1>5. CASE Ribbon!OnBackendDrop
    BY <1>5, DropSuspects
  <1>6. CASE Ribbon!ResolveOutage
    <2>1. ribbonOutage' = 0 - 1 /\ UNCHANGED <<now, journal, incidents>>
      BY <1>6 DEF Ribbon!ResolveOutage, Ribbon!server, Ribbon!Never
    <2> QED
      BY <2>1 DEF SuspectInv, CrashesEnd, CrashesStay
  <1>7. CASE Ribbon!FetchLink \/ Ribbon!FetchConnectionIncidents
    BY <1>7, FetchSuspects
  <1>8. CASE UNCHANGED Ribbon!linkVars
    <2>1. UNCHANGED <<ribbonOutage, incidents, shown, crash, journal, now>>
      BY <1>8 DEF Ribbon!linkVars
    <2> QED
      BY <2>1, SuspectStands DEF SuspectInv, CrashesEnd, CrashesStay
  <1> QED
    BY <1>1, <1>2, <1>3, <1>4, <1>5, <1>6, <1>7, <1>8 DEF Ribbon!Next

\* What is suspected is red on top.
LEMMA SuspectedIsRed == ASSUME RibbonInv, SuspectInv PROVE Ribbon!RedWhileDown
  <1> SUFFICES ASSUME ribbonOutage # 0 - 1, ~KnownCrash, NEW t \in ribbonOutage..(now - 1)
               PROVE  Ribbon!Painted(shown, incidents, FALSE, now, t) = "red"
    BY DEF Ribbon!RedWhileDown, KnownCrash, Ribbon!Never
  <1>1. now \in Nat /\ ribbonOutage \in Nat
    BY DEF RibbonInv, RibbonTypes
  <1>2. SuspectedGap \in shown.gaps
    BY DEF SuspectInv
  <1>3. ~Ribbon!JournalHasOverlappingCrash(incidents, SuspectedGap, now)
    BY DEF KnownCrash, Ribbon!JournalHasOverlappingCrash, Ribbon!Overlap, SuspectedGap
  <1>4. Ribbon!Covers(SuspectedGap, now, t)
    BY <1>1 DEF SuspectedGap, Ribbon!Covers, Ribbon!Never
  <1>5. SuspectedGap.cause = "interrupted" /\ SuspectedGap.to = 0 - 1
    BY DEF SuspectedGap
  <1>6. \E g \in shown.gaps : /\ g.cause = "interrupted" /\ g.to = 0 - 1
                              /\ ~Ribbon!JournalHasOverlappingCrash(incidents, g, now)
                              /\ Ribbon!Covers(g, now, t)
    BY <1>2, <1>3, <1>4, <1>5
  <1> QED
    BY <1>6 DEF Ribbon!Painted, Ribbon!Bars, Ribbon!Never

\* What an answer tells of the gaps.
Gap == [from : Nat, to : Nat \cup {0 - 1}, cause : Reasons, abandoned : BOOLEAN]
RawGap(i) == Ribbon!RawGaps(ribbonRows)[i]
SpanOf(g) == <<g.from, g.to, g.cause>>
InGap(g, t) == g.from <= t /\ t < (IF g.to = 0 - 1 THEN now ELSE g.to)
GapTells(g) ==
  /\ g.cause # "none"
  /\ \A t \in 0..(now - 1) : InGap(g, t) => happened[t + 1] = After(g.cause)

\* The gaps of the first rows tell what happened in the time after them.
GapsTell(acc, k) ==
  /\ acc \in Seq(Gap)
  /\ k = 0 => acc = <<>>
  /\ \A j \in 1..Len(acc) : GapTells(acc[j])
  /\ \A i \in 1..k, t \in 0..(now - 1) :
        ~ribbonRows[i].open /\ ribbonRows[i].to <= t /\ t < Until(i) => \E j \in 1..Len(acc) : InGap(acc[j], t)
  /\ k > 0 /\ ~ribbonRows[k].open =>
        LET last == acc[Len(acc)]
        IN  /\ acc # <<>> /\ last.to = RawGap(k).to /\ last.from <= ribbonRows[k].to
            /\ After(last.cause) = After(ribbonRows[k].reason)

LEMMA RowIs ==
  ASSUME RibbonInv, NEW i \in 1..Len(ribbonRows)
  PROVE  /\ ribbonRows[i] \in Row /\ ribbonRows[i].from \in Nat /\ ribbonRows[i].to \in Nat
         /\ ribbonRows[i].reason \in Reasons
  <1>1. ribbonRows[i] \in Row
    BY DEF RibbonInv, RibbonTypes
  <1> QED
    BY <1>1 DEF Row
LEMMA RawGapIs ==
  ASSUME RibbonInv, NEW i \in 1..Len(ribbonRows)
  PROVE  LET g == RawGap(i)
         IN  /\ g \in Gap /\ g.from = ribbonRows[i].to /\ g.cause = ribbonRows[i].reason
             /\ g.to = IF i < Len(ribbonRows) THEN ribbonRows[i + 1].from ELSE 0 - 1
             /\ g.from # g.to
  <1>1. ribbonRows[i] \in Row /\ ribbonRows[i].to \in Nat /\ ribbonRows[i].reason \in Reasons
    BY RowIs
  <1>2. i < Len(ribbonRows) => ribbonRows[i + 1].from \in Nat
    <2>1. Len(ribbonRows) \in Nat
      BY DEF RibbonInv, RibbonTypes
    <2> QED
      BY <2>1, RowIs
  <1>3. i < Len(ribbonRows) => ribbonRows[i].to < ribbonRows[i + 1].from
    BY DEF RibbonInv, RowsSay, RowSays
  <1>4. RawGap(i) = [from |-> ribbonRows[i].to,
                     to |-> IF i < Len(ribbonRows) THEN ribbonRows[i + 1].from ELSE 0 - 1,
                     cause |-> ribbonRows[i].reason, abandoned |-> FALSE]
    <2>1. i \in DOMAIN ribbonRows
      BY DEF RibbonInv, RibbonTypes
    <2> QED
      BY <2>1 DEF RawGap, Ribbon!RawGaps, Ribbon!Never
  <1> QED
    BY <1>1, <1>2, <1>3, <1>4 DEF Gap

\* A row that is closed tells the time after it.
LEMMA RawGapTells ==
  ASSUME RibbonInv, NEW i \in 1..Len(ribbonRows), ~ribbonRows[i].open
  PROVE  /\ GapTells(RawGap(i))
         /\ \A t \in 0..(now - 1) : InGap(RawGap(i), t) <=> ribbonRows[i].to <= t /\ t < Until(i)
  <1>1. ribbonRows[i].reason # "none"
    BY DEF RibbonInv, RowsSay, RowSays
  <1>2. i < Len(ribbonRows) => ribbonRows[i + 1].from \in Nat
    <2>1. Len(ribbonRows) \in Nat
      BY DEF RibbonInv, RibbonTypes
    <2> QED
      BY <2>1, RowIs
  <1>3. \A t \in 0..(now - 1) : InGap(RawGap(i), t) <=> ribbonRows[i].to <= t /\ t < Until(i)
    BY <1>2, RawGapIs DEF InGap, Until
  <1>4. \A t \in 0..(now - 1) : ribbonRows[i].to <= t /\ t < Until(i) => happened[t + 1] = After(ribbonRows[i].reason)
    BY DEF RibbonInv, RowsTell
  <1> QED
    BY <1>1, <1>3, <1>4, RawGapIs DEF GapTells

\* A gap of the same span tells the same.
LEMMA SameSpan ==
  ASSUME NEW g, NEW h, SpanOf(g) = SpanOf(h)
  PROVE  /\ g.from = h.from /\ g.to = h.to /\ g.cause = h.cause
         /\ GapTells(g) <=> GapTells(h)
         /\ \A t : InGap(g, t) <=> InGap(h, t)
  <1>1. g.from = h.from /\ g.to = h.to /\ g.cause = h.cause
    BY DEF SpanOf
  <1>2. \A t : InGap(g, t) <=> InGap(h, t)
    BY <1>1 DEF InGap
  <1>3. GapTells(g) <=> GapTells(h)
    BY <1>1, <1>2 DEF GapTells, After
  <1> QED
    BY <1>1, <1>2, <1>3

\* A gap of its own.
LEMMA GapIsAppended ==
  ASSUME RibbonInv, NEW k \in 0..(Len(ribbonRows) - 1), NEW acc, GapsTell(acc, k), ~ribbonRows[k + 1].open,
         NEW same \in Seq(Gap), Len(same) = Len(acc), \A j \in 1..Len(acc) : SpanOf(same[j]) = SpanOf(acc[j])
  PROVE  GapsTell(Append(same, RawGap(k + 1)), k + 1)
  <1> DEFINE g == RawGap(k + 1)
             new == Append(same, g)
             m == Len(acc)
  <1>1. k \in Nat /\ k + 1 \in 1..Len(ribbonRows) /\ k + 1 > 0 /\ acc \in Seq(Gap) /\ m \in Nat
    BY DEF RibbonInv, RibbonTypes, GapsTell
  <1>2. g \in Gap /\ g.from = ribbonRows[k + 1].to /\ g.cause = ribbonRows[k + 1].reason /\ g.from \in Nat
    BY <1>1, RawGapIs DEF Gap
  <1>3. /\ GapTells(g)
        /\ \A t \in 0..(now - 1) : InGap(g, t) <=> ribbonRows[k + 1].to <= t /\ t < Until(k + 1)
    BY <1>1, RawGapTells
  <1> HIDE DEF g
  <1>4. new \in Seq(Gap) /\ Len(new) = m + 1 /\ new[m + 1] = g /\ \A j \in 1..m : new[j] = same[j]
    BY <1>1, <1>2
  <1> HIDE DEF new
  <1>5. \A j \in 1..m : GapTells(new[j]) /\ \A t : InGap(new[j], t) <=> InGap(acc[j], t)
    BY <1>4, SameSpan DEF GapsTell
  <1>6. \A j \in 1..(m + 1) : GapTells(new[j])
    BY <1>1, <1>3, <1>4, <1>5
  <1>7. ASSUME NEW i \in 1..(k + 1), NEW t \in 0..(now - 1),
               ~ribbonRows[i].open /\ ribbonRows[i].to <= t /\ t < Until(i)
        PROVE  \E j \in 1..(m + 1) : InGap(new[j], t)
    <2>1. CASE i = k + 1
      <3>1. InGap(g, t) /\ m + 1 \in 1..(m + 1)
        BY <1>1, <1>3, <1>7, <2>1
      <3> QED
        BY <1>4, <3>1
    <2>2. CASE i \in 1..k
      <3>1. PICK j \in 1..m : InGap(acc[j], t)
        BY <1>7, <2>2 DEF GapsTell
      <3>2. InGap(new[j], t) /\ j \in 1..(m + 1)
        BY <1>1, <1>5, <3>1, SMTT(30)
      <3> QED
        BY <3>2
    <2> QED
      BY <1>1, <2>1, <2>2
  <1>8. new # <<>> /\ new[Len(new)] = g
    BY <1>1, <1>4
  <1>9. g.to = RawGap(k + 1).to /\ g.from <= ribbonRows[k + 1].to
    BY <1>2 DEF g
  <1>10. After(g.cause) = After(ribbonRows[k + 1].reason)
    BY <1>2
  <1>11. GapsTell(new, k + 1)
    <2>1. k + 1 # 0 /\ \A j \in 1..Len(new) : GapTells(new[j])
      BY <1>1, <1>4, <1>6
    <2>2. \A i \in 1..(k + 1), t \in 0..(now - 1) :
             ~ribbonRows[i].open /\ ribbonRows[i].to <= t /\ t < Until(i)
               => \E j \in 1..Len(new) : InGap(new[j], t)
      BY <1>4, <1>7
    <2> QED
      BY <1>4, <1>8, <1>9, <1>10, <2>1, <2>2, Zenon DEF GapsTell
  <1> QED
    BY <1>11 DEF new, g

\* A gap that touches the last one and is of the same break prolongs it.
LEMMA GapIsJoined ==
  ASSUME RibbonInv, NEW k \in 1..(Len(ribbonRows) - 1), NEW acc, GapsTell(acc, k), ~ribbonRows[k + 1].open,
         acc # <<>>, acc[Len(acc)].to = RawGap(k + 1).from, ribbonRows[k + 1].reason # "disconnected"
  PROVE  GapsTell([acc EXCEPT ![Len(acc)].to = RawGap(k + 1).to], k + 1)
  <1> DEFINE g == RawGap(k + 1)
             m == Len(acc)
             last == acc[m]
             joined == [last EXCEPT !.to = g.to]
             new == [acc EXCEPT ![m].to = g.to]
  <1>1. k \in Nat /\ k + 1 \in 1..Len(ribbonRows) /\ k + 1 > 0 /\ acc \in Seq(Gap) /\ m \in Nat /\ m > 0
    BY DEF RibbonInv, RibbonTypes, GapsTell
  <1>2. g \in Gap /\ g.from = ribbonRows[k + 1].to /\ g.cause = ribbonRows[k + 1].reason
    BY <1>1, RawGapIs
  <1>3. /\ GapTells(g)
        /\ \A t \in 0..(now - 1) : InGap(g, t) <=> ribbonRows[k + 1].to <= t /\ t < Until(k + 1)
    BY <1>1, RawGapTells
  <1>4. RowSays(k) /\ RowSays(k + 1) /\ k \in 1..Len(ribbonRows) /\ k < Len(ribbonRows)
    BY <1>1 DEF RibbonInv, RowsSay
  <1>5. ~ribbonRows[k].open
    BY <1>4 DEF RowSays
  <1>6. /\ last.to = RawGap(k).to /\ last.from <= ribbonRows[k].to
        /\ After(last.cause) = After(ribbonRows[k].reason) /\ last \in Gap /\ GapTells(last)
    BY <1>1, <1>5 DEF GapsTell
  <1>7. last.to = ribbonRows[k + 1].from
    BY <1>4, <1>6, RawGapIs
  <1>8. ribbonRows[k + 1].from = ribbonRows[k + 1].to
    BY <1>2, <1>7
  <1>9. After(ribbonRows[k].reason) = "broken" /\ After(ribbonRows[k + 1].reason) = "broken"
    <2>1. After(ribbonRows[k].reason) = "broken" /\ After(ribbonRows[k + 1].reason) # "lost"
      <3>1. (k + 1) - 1 = k
        BY <1>1
      <3> QED
        BY <1>4, <1>8, <3>1 DEF RowSays
    <2> QED
      BY <2>1 DEF After
  <1>10. /\ last.from \in Nat /\ last.to \in Nat /\ g.from \in Nat /\ g.to \in Nat \cup {0 - 1} /\ now \in Nat
         /\ last.from <= last.to /\ last.to = g.from
         /\ g.to # 0 - 1 => g.from < g.to
    <2>1. ribbonRows[k + 1] \in Row /\ ribbonRows[k] \in Row /\ now \in Nat
      BY <1>1 DEF RibbonInv, RibbonTypes
    <2>2. ribbonRows[k].to < ribbonRows[k + 1].from
      BY <1>1, <1>4 DEF RowSays
    <2>3. last.from \in Nat /\ g.from \in Nat /\ g.to \in Nat \cup {0 - 1}
      BY <1>2, <1>6 DEF Gap
    <2>4. k + 1 < Len(ribbonRows) => ribbonRows[k + 1].to < ribbonRows[(k + 1) + 1].from
      BY <1>4 DEF RowSays
    <2>5. g.to # 0 - 1 => g.from < g.to
      BY <1>1, <1>2, <2>4, RawGapIs
    <2> QED
      BY <1>2, <1>6, <1>7, <1>8, <2>1, <2>2, <2>3, <2>5 DEF Row
  <1>11. joined \in Gap /\ joined.from = last.from /\ joined.to = g.to /\ joined.cause = last.cause
    BY <1>6, <1>10 DEF Gap
  <1>12. /\ new \in Seq(Gap) /\ Len(new) = m /\ new[m] = joined
         /\ \A j \in 1..m : j # m => new[j] = acc[j]
    <2>1. new = [acc EXCEPT ![m] = joined]
      BY <1>1
    <2> HIDE DEF joined, new
    <2> QED
      BY <1>1, <1>11, <2>1
  <1>13. \A t \in 0..(now - 1) : InGap(joined, t) <=> InGap(last, t) \/ InGap(g, t)
    <2> TAKE t \in 0..(now - 1)
    <2> HIDE DEF joined, last, g
    <2> QED
      BY <1>10, <1>11 DEF InGap
  <1> HIDE DEF joined, new, last, g
  <1>14. GapTells(joined)
    <2>1. \A t \in 0..(now - 1) : InGap(joined, t) => happened[t + 1] = "broken"
      <3> TAKE t \in 0..(now - 1)
      <3>1. InGap(last, t) => happened[t + 1] = "broken"
        BY <1>6, <1>9 DEF GapTells
      <3>2. InGap(g, t) => happened[t + 1] = "broken"
        BY <1>2, <1>3, <1>9 DEF GapTells
      <3> QED
        BY <1>13, <3>1, <3>2
    <2>2. After(joined.cause) = "broken" /\ joined.cause # "none"
      BY <1>6, <1>9, <1>11 DEF GapTells
    <2> QED
      BY <2>1, <2>2 DEF GapTells
  <1>15. \A j \in 1..m : GapTells(new[j])
    BY <1>12, <1>14 DEF GapsTell
  <1>16. \A j \in 1..m, t \in 0..(now - 1) : InGap(acc[j], t) => InGap(new[j], t)
    BY <1>12, <1>13 DEF last
  <1>17. ASSUME NEW i \in 1..(k + 1), NEW t \in 0..(now - 1),
                ~ribbonRows[i].open /\ ribbonRows[i].to <= t /\ t < Until(i)
         PROVE  \E j \in 1..m : InGap(new[j], t)
    <2>1. CASE i = k + 1
      <3>1. InGap(g, t) /\ m \in 1..m
        BY <1>1, <1>3, <1>17, <2>1
      <3> QED
        BY <1>12, <1>13, <3>1
    <2>2. CASE i \in 1..k
      <3>1. PICK j \in 1..m : InGap(acc[j], t)
        BY <1>17, <2>2 DEF GapsTell
      <3> QED
        BY <1>16, <3>1
    <2> QED
      BY <1>1, <2>1, <2>2
  <1>18. new # <<>> /\ new[Len(new)] = joined
    BY <1>1, <1>12
  <1>19. joined.to = RawGap(k + 1).to /\ joined.from <= ribbonRows[k + 1].to
    BY <1>2, <1>10, <1>11 DEF g
  <1>20. After(joined.cause) = After(ribbonRows[k + 1].reason)
    BY <1>6, <1>9, <1>11
  <1>21. GapsTell(new, k + 1)
    <2>1. k + 1 # 0 /\ \A j \in 1..Len(new) : GapTells(new[j])
      BY <1>1, <1>12, <1>15
    <2>2. \A i \in 1..(k + 1), t \in 0..(now - 1) :
             ~ribbonRows[i].open /\ ribbonRows[i].to <= t /\ t < Until(i)
               => \E j \in 1..Len(new) : InGap(new[j], t)
      BY <1>12, <1>17
    <2> QED
      BY <1>12, <1>18, <1>19, <1>20, <2>1, <2>2, Zenon DEF GapsTell
  <1> QED
    BY <1>21 DEF new, g

\* One step of the answer.
LEMMA GapCoalesced ==
  ASSUME RibbonInv, NEW k \in 0..(Len(ribbonRows) - 1), NEW acc, GapsTell(acc, k)
  PROVE  GapsTell(Ribbon!Coalesce(acc, RawGap(k + 1)), k + 1)
  <1> DEFINE g == RawGap(k + 1)
             m == Len(acc)
             last == acc[m]
             ended == [acc EXCEPT ![m].abandoned = @ \/ last.cause \notin {"disconnected"}]
             longer == [acc EXCEPT ![m].to = g.to]
  <1>1. k \in Nat /\ k + 1 \in 1..Len(ribbonRows) /\ acc \in Seq(Gap) /\ m \in Nat
    BY DEF RibbonInv, RibbonTypes, GapsTell
  <1>2. g \in Gap /\ g.from = ribbonRows[k + 1].to /\ g.cause = ribbonRows[k + 1].reason /\ g.from # g.to
    BY <1>1, RawGapIs
  <1>3. ribbonRows[k + 1].open <=> ribbonRows[k + 1].reason = "none"
    BY <1>1 DEF RibbonInv, RowsSay, RowSays
  <1> HIDE DEF g
  <1>4. CASE ribbonRows[k + 1].open
    <2>1. Ribbon!Coalesce(acc, g) = acc
      BY <1>2, <1>3, <1>4 DEF Ribbon!Coalesce, Ribbon!NoReason
    <2>2. GapsTell(acc, k + 1)
      <3>1. k + 1 # 0 /\ \A i \in 1..(k + 1) : i = k + 1 \/ i \in 1..k
        BY <1>1
      <3> QED
        BY <1>4, <3>1 DEF GapsTell
    <2> QED
      BY <2>1, <2>2 DEF g
  <1>5. CASE ~ribbonRows[k + 1].open /\ (acc = <<>> \/ last.to # g.from)
    <2>1. Ribbon!Coalesce(acc, g) = Append(acc, g)
      BY <1>2, <1>3, <1>5, Zenon DEF Ribbon!Coalesce, Ribbon!NoReason
    <2>2. GapsTell(Append(acc, RawGap(k + 1)), k + 1)
      BY <1>1, <1>5, GapIsAppended
    <2> QED
      BY <2>1, <2>2 DEF g
  <1>6. CASE ~ribbonRows[k + 1].open /\ acc # <<>> /\ last.to = g.from /\ g.cause = "disconnected"
    <2>1. Ribbon!Coalesce(acc, g) = Append(ended, g)
      BY <1>2, <1>3, <1>6, Zenon DEF Ribbon!Coalesce, Ribbon!NoReason, Ribbon!Grey
    <2>2. m \in 1..m /\ last \in Gap
      BY <1>1, <1>6
    <2>3. PICK one : one = [last EXCEPT !.abandoned = @ \/ last.cause \notin {"disconnected"}]
      OBVIOUS
    <2>4. one \in Gap /\ SpanOf(one) = SpanOf(last)
      <3>1. (last.abandoned \/ last.cause \notin {"disconnected"}) \in BOOLEAN
        OBVIOUS
      <3> HIDE DEF last
      <3> QED
        BY <2>2, <2>3, <3>1 DEF Gap, SpanOf
    <2>5. ended = [acc EXCEPT ![m] = one]
      BY <2>3
    <2> HIDE DEF ended
    <2>6. /\ ended \in Seq(Gap) /\ Len(ended) = m /\ \A j \in 1..m : ended[j] = IF j = m THEN one ELSE acc[j]
      BY <1>1, <2>2, <2>4, <2>5
    <2>7. \A j \in 1..m : SpanOf(ended[j]) = SpanOf(acc[j])
      BY <2>4, <2>6
    <2>8. GapsTell(Append(ended, RawGap(k + 1)), k + 1)
      BY <1>6, <2>6, <2>7, GapIsAppended
    <2> QED
      BY <2>1, <2>8 DEF g
  <1>7. CASE ~ribbonRows[k + 1].open /\ acc # <<>> /\ last.to = g.from /\ g.cause # "disconnected"
    <2>1. Ribbon!Coalesce(acc, g) = longer
      BY <1>2, <1>3, <1>7, Zenon DEF Ribbon!Coalesce, Ribbon!NoReason, Ribbon!Grey
    <2>2. k # 0
      BY <1>7 DEF GapsTell
    <2>3. k \in 1..(Len(ribbonRows) - 1)
      BY <1>1, <2>2
    <2>4. GapsTell([acc EXCEPT ![Len(acc)].to = RawGap(k + 1).to], k + 1)
      BY <1>2, <1>7, <2>3, GapIsJoined DEF g
    <2> QED
      BY <2>1, <2>4 DEF g
  <1> QED
    BY <1>4, <1>5, <1>6, <1>7

\* The answer of the server tells what happened.
LEMMA GapsAreTold == ASSUME RibbonInv PROVE GapsTell(Ribbon!QueryGaps(ribbonRows), Len(ribbonRows))
  <1> DEFINE n == Len(ribbonRows)
             raw == Ribbon!RawGaps(ribbonRows)
  <1>1. n \in Nat /\ DOMAIN ribbonRows = 1..n
    BY DEF RibbonInv, RibbonTypes
  <1>2. \A i \in 1..n : raw[i] = RawGap(i) /\ raw[i] \in Gap
    BY RawGapIs DEF RawGap
  <1>3. raw = [i \in 1..n |-> raw[i]]
    BY <1>1 DEF Ribbon!RawGaps
  <1> HIDE DEF raw, n
  <1>4. raw \in Seq(Gap) /\ Len(raw) = n
    BY <1>1, <1>2, <1>3
  <1>5. PICK a : Steps("gap", a, <<>>, raw, n) /\ Ribbon!QueryGaps(ribbonRows) = a[n]
    BY <1>1, GapsFold DEF n, raw
  <1> DEFINE S == {k \in 0..n : GapsTell(a[k], k)}
  <1>6. 0 \in S
    <2>1. a[0] = <<>>
      BY <1>5 DEF Steps
    <2>2. GapsTell(<<>>, 0)
      <3>1. <<>> \in Seq(Gap) /\ Len(<<>>) = 0 /\ ~(0 > 0)
        OBVIOUS
      <3>2. \A i \in 1..0 : FALSE
        OBVIOUS
      <3> QED
        BY <3>1, <3>2 DEF GapsTell
    <2> QED
      BY <1>1, <2>1, <2>2
  <1>7. \A k \in 0..(n - 1) : k \in S => k + 1 \in S
    <2> SUFFICES ASSUME NEW k \in 0..(n - 1), GapsTell(a[k], k) PROVE GapsTell(a[k + 1], k + 1)
      BY <1>1
    <2>1. k + 1 \in 1..n /\ (k + 1) - 1 = k
      BY <1>1
    <2>2. a[k + 1] = Ribbon!Coalesce(a[k], raw[k + 1])
      BY <1>5, <2>1 DEF Steps, StepOf
    <2>3. GapsTell(Ribbon!Coalesce(a[k], RawGap(k + 1)), k + 1)
      BY GapCoalesced DEF n
    <2> QED
      BY <1>2, <2>1, <2>2, <2>3
  <1> HIDE DEF S
  <1>8. n \in S
    <2>1. \A k \in 0..n : k \in S
      BY <1>1, <1>6, <1>7, UpTo
    <2> QED
      BY <1>1, <2>1
  <1> QED
    BY <1>5, <1>8 DEF S, n

\* The colour on top, from what is drawn at a cell.
InSpan(s, t) == s.from <= t /\ t < (IF s.to = 0 - 1 THEN now ELSE s.to)
Blue(l, t) == \E s \in l.intervals : InSpan(s, t)
OfCause(l, causes, t) == \E g \in l.gaps : g.cause \in causes /\ InSpan(g, t)
LEMMA TopOfGaps ==
  ASSUME NEW l, NEW entries, NEW t, \A g \in l.gaps : g.cause \in Reasons \ {"none"}
  PROVE  LET red == OfCause(l, {"interrupted"}, t)
             yellow == OfCause(l, {"degraded", "server_down"}, t)
             grey == OfCause(l, {"disconnected"}, t)
             top == Ribbon!Painted(l, entries, TRUE, now, t)
         IN  /\ red => top = "red"
             /\ ~red /\ yellow => top = "yellow"
             /\ ~red /\ ~yellow /\ grey => top = "grey"
             /\ ~red /\ ~yellow /\ ~grey /\ Blue(l, t) => top = "blue"
  <1>1. \A s : Ribbon!Covers(s, now, t) <=> InSpan(s, t)
    BY DEF Ribbon!Covers, InSpan, Ribbon!Never
  <1>2. \A g \in l.gaps : /\ g.cause \in {"disconnected"} <=> g.cause \in Ribbon!Grey
                          /\ g.cause = "interrupted" <=> g.cause \in {"interrupted"}
                          /\ g.cause \notin Ribbon!Grey \cup {"interrupted"} <=> g.cause \in {"degraded", "server_down"}
    BY DEF Ribbon!Grey, Reasons
  <1>3. /\ OfCause(l, {"interrupted"}, t) <=> \E g \in l.gaps : g.cause = "interrupted" /\ Ribbon!Covers(g, now, t)
        /\ OfCause(l, {"degraded", "server_down"}, t)
             <=> \E g \in l.gaps : g.cause \notin Ribbon!Grey \cup {"interrupted"} /\ Ribbon!Covers(g, now, t)
        /\ OfCause(l, {"disconnected"}, t) <=> \E g \in l.gaps : g.cause \in Ribbon!Grey /\ Ribbon!Covers(g, now, t)
        /\ Blue(l, t) <=> \E s \in l.intervals : Ribbon!Covers(s, now, t)
    BY <1>1, <1>2 DEF OfCause, Blue
  <1> QED
    BY <1>3, Zenon DEF Ribbon!Painted, Ribbon!Bars

LEMMA TopOfJournal ==
  ASSUME NEW l, NEW entries, NEW t, \A g \in l.gaps : g.cause \in Reasons \ {"none"}
  PROVE  LET body == Ribbon!Bodies(entries, "crash", now, t)
             yellow == Ribbon!Bodies(entries, "break", now, t)
             grey == OfCause(l, {"disconnected"}, t)
             top == Ribbon!Painted(l, entries, FALSE, now, t)
         IN  /\ body => top = "red"
             /\ ~body /\ ~OfCause(l, {"interrupted"}, t) =>
                  /\ yellow => top = "yellow"
                  /\ ~yellow /\ grey => top = "grey"
                  /\ ~yellow /\ ~grey /\ Blue(l, t) => top = "blue"
             /\ ~yellow /\ ~grey /\ ~Blue(l, t) => top \in {"red", "blank"}
  <1>1. \A s : Ribbon!Covers(s, now, t) <=> InSpan(s, t)
    BY DEF Ribbon!Covers, InSpan, Ribbon!Never
  <1>2. \A g \in l.gaps : /\ g.cause \in {"disconnected"} <=> g.cause \in Ribbon!Grey
                          /\ g.cause = "interrupted" <=> g.cause \in {"interrupted"}
    BY DEF Ribbon!Grey, Reasons
  <1>3. /\ ~OfCause(l, {"interrupted"}, t)
             => ~\E g \in l.gaps : g.cause = "interrupted" /\ Ribbon!Covers(g, now, t)
        /\ OfCause(l, {"disconnected"}, t) <=> \E g \in l.gaps : g.cause \in Ribbon!Grey /\ Ribbon!Covers(g, now, t)
        /\ Blue(l, t) <=> \E s \in l.intervals : Ribbon!Covers(s, now, t)
    BY <1>1, <1>2 DEF OfCause, Blue
  <1> DEFINE susp == \E g \in l.gaps : /\ g.cause = "interrupted" /\ g.to = Ribbon!Never
                                       /\ ~Ribbon!JournalHasOverlappingCrash(entries, g, now)
                                       /\ Ribbon!Covers(g, now, t)
             red == Ribbon!Bodies(entries, "crash", now, t) \/ susp
             yellow == Ribbon!Bodies(entries, "break", now, t)
             grey == \E g \in l.gaps : g.cause \in Ribbon!Grey /\ Ribbon!Covers(g, now, t)
             blue == \E s \in l.intervals : Ribbon!Covers(s, now, t)
             top == Ribbon!Painted(l, entries, FALSE, now, t)
  <1>4. /\ red => top = "red"
        /\ ~red /\ yellow => top = "yellow"
        /\ ~red /\ ~yellow /\ grey => top = "grey"
        /\ ~red /\ ~yellow /\ ~grey /\ blue => top = "blue"
        /\ ~red /\ ~yellow /\ ~grey /\ ~blue => top = "blank"
    BY Zenon DEF Ribbon!Painted, Ribbon!Bars
  <1>5. susp => \E g \in l.gaps : g.cause = "interrupted" /\ Ribbon!Covers(g, now, t)
    OBVIOUS
  <1> HIDE DEF susp, red, yellow, grey, blue, top
  <1> QED
    BY <1>3, <1>4, <1>5 DEF red, yellow, grey, blue, top

\* What the server answers of a cell that is gone by.
LEMMA AnswerTells ==
  ASSUME RibbonInv, host, NEW t \in 0..(now - 1), \E i \in 1..Len(ribbonRows) : ribbonRows[i].from <= t
  PROVE  LET l == Ribbon!Answer(ribbonRows)
         IN  /\ \A g \in l.gaps : g.cause \in Reasons \ {"none"}
             /\ Blue(l, t) <=> happened[t + 1] = "live"
             /\ OfCause(l, {"disconnected"}, t) <=> happened[t + 1] = "idle"
             /\ OfCause(l, {"degraded", "server_down"}, t) <=> happened[t + 1] = "broken"
             /\ OfCause(l, {"interrupted"}, t) <=> happened[t + 1] = "lost"
  <1> DEFINE n == Len(ribbonRows)
             l == Ribbon!Answer(ribbonRows)
             q == Ribbon!QueryGaps(ribbonRows)
             was == happened[t + 1]
  <1>1. n \in Nat /\ DOMAIN ribbonRows = 1..n /\ now \in Nat
    BY DEF RibbonInv, RibbonTypes
  <1>2. GapsTell(q, n)
    BY GapsAreTold
  <1>3. q \in Seq(Gap) /\ DOMAIN q = 1..Len(q)
    BY <1>2 DEF GapsTell
  <1>4. l.gaps = {q[j] : j \in 1..Len(q)}
    BY <1>3 DEF Ribbon!Answer
  <1>5. l.intervals = {Ribbon!Interval(ribbonRows[i]) : i \in 1..n}
    BY <1>1 DEF Ribbon!Answer
  <1>6. \A i \in 1..n : ribbonRows[i].open => ribbonRows[i].to = now
    <2> TAKE i \in 1..n
    <2> HAVE ribbonRows[i].open
    <2>1. i = n
      BY DEF RibbonInv, RowsSay, RowSays
    <2>2. ribbonRows # <<>> /\ LastRow = ribbonRows[i]
      BY <1>1, <2>1 DEF LastRow
    <2> QED
      BY <2>2 DEF RibbonInv, LastSays
  <1>7. \A i \in 1..n : InSpan(Ribbon!Interval(ribbonRows[i]), t)
                          <=> ribbonRows[i].from <= t /\ t < ribbonRows[i].to
    <2> TAKE i \in 1..n
    <2>1. ribbonRows[i].to \in Nat
      BY RowIs
    <2> QED
      BY <1>6, <2>1 DEF InSpan, Ribbon!Interval, Ribbon!Never
  <1>8. Blue(l, t) => was = "live"
    <2> HAVE Blue(l, t)
    <2>1. PICK i \in 1..n : InSpan(Ribbon!Interval(ribbonRows[i]), t)
      BY <1>5 DEF Blue
    <2> QED
      BY <1>7, <2>1 DEF RibbonInv, RowsTell
  <1>9. \A j \in 1..Len(q) : /\ q[j].cause \in Reasons \ {"none"}
                             /\ InSpan(q[j], t) => was = After(q[j].cause)
    <2> TAKE j \in 1..Len(q)
    <2>1. q[j] \in Gap /\ GapTells(q[j])
      BY <1>2, <1>3 DEF GapsTell
    <2> HIDE DEF q
    <2> QED
      BY <2>1 DEF GapTells, Gap, InGap, InSpan
  <1>10. Blue(l, t) \/ \E j \in 1..Len(q) : InSpan(q[j], t)
    <2>1. PICK i \in 1..n : ribbonRows[i].from <= t /\ t < Until(i)
      <3>1. ~\A i \in 1..n : ribbonRows[i].from > t
        <4>1. PICK i \in 1..n : ribbonRows[i].from <= t
          OBVIOUS
        <4>2. ribbonRows[i].from \in Nat
          BY RowIs
        <4> QED
          BY <1>1, <4>1, <4>2
      <3> QED
        BY <3>1 DEF RibbonInv, RowsSpan
    <2>2. ribbonRows[i].from \in Nat /\ ribbonRows[i].to \in Nat
      BY RowIs
    <2>3. CASE t < ribbonRows[i].to
      <3>1. InSpan(Ribbon!Interval(ribbonRows[i]), t)
        BY <1>7, <2>1, <2>3
      <3> QED
        BY <1>5, <3>1 DEF Blue
    <2>4. CASE ribbonRows[i].to <= t
      <3>1. ~ribbonRows[i].open
        BY <1>1, <1>6, <2>4
      <3>2. \E j \in 1..Len(q) : InGap(q[j], t)
        BY <1>2, <2>1, <2>4, <3>1 DEF GapsTell
      <3> QED
        BY <3>2 DEF InGap, InSpan
    <2> QED
      BY <1>1, <2>2, <2>3, <2>4
  <1>11. was \in Links
    BY <1>1 DEF RibbonInv, RibbonTypes
  <1> HIDE DEF q, l, was, n
  <1>12. \A g \in l.gaps : g.cause \in Reasons \ {"none"} /\ (InSpan(g, t) => was = After(g.cause))
    BY <1>4, <1>9
  <1>13. Blue(l, t) \/ \E g \in l.gaps : InSpan(g, t)
    BY <1>4, <1>10
  <1>14. \A c \in Reasons \ {"none"} : /\ After(c) = "idle" <=> c \in {"disconnected"}
                                       /\ After(c) = "broken" <=> c \in {"degraded", "server_down"}
                                       /\ After(c) = "lost" <=> c \in {"interrupted"}
                                       /\ After(c) # "live"
    BY DEF After, Reasons
  <1>15. Blue(l, t) <=> was = "live"
    BY <1>8, <1>12, <1>13, <1>14
  <1>16. ASSUME was # "live" PROVE \E g \in l.gaps : InSpan(g, t) /\ was = After(g.cause)
    BY <1>8, <1>12, <1>13, <1>16
  <1>17. OfCause(l, {"disconnected"}, t) <=> was = "idle"
    BY <1>12, <1>14, <1>16 DEF OfCause
  <1>18. OfCause(l, {"degraded", "server_down"}, t) <=> was = "broken"
    BY <1>12, <1>14, <1>16 DEF OfCause
  <1>19. OfCause(l, {"interrupted"}, t) <=> was = "lost"
    BY <1>12, <1>14, <1>16 DEF OfCause
  <1> QED
    BY <1>12, <1>15, <1>17, <1>18, <1>19 DEF l, was

LEMMA PaintedTells == ASSUME RibbonInv PROVE Ribbon!PaintedAsHappened
  <1> SUFFICES ASSUME host, shown = Ribbon!Answer(ribbonRows), incidents = journal, NEW t \in 0..(now - 1),
                      ~\A i \in DOMAIN ribbonRows : ribbonRows[i].from > t
               PROVE  LET was == happened[t + 1]
                          top(workGaps) == Ribbon!Painted(shown, incidents, workGaps, now, t)
                      IN  /\ top(TRUE) = [live |-> "blue", idle |-> "grey", broken |-> "yellow", lost |-> "red"][was]
                          /\ IF Ribbon!Bodies(journal, "crash", now, t) THEN top(FALSE) = "red"
                             ELSE top(FALSE) \in [live |-> {"blue"}, idle |-> {"grey"}, broken |-> {"yellow"},
                                                  lost |-> {"red", "blank"}][was]
    BY Zenon DEF Ribbon!PaintedAsHappened
  <1> DEFINE was == happened[t + 1]
             gaps == Ribbon!Painted(shown, incidents, TRUE, now, t)
             bodies == Ribbon!Painted(shown, incidents, FALSE, now, t)
             red == OfCause(shown, {"interrupted"}, t)
             yellow == OfCause(shown, {"degraded", "server_down"}, t)
             grey == OfCause(shown, {"disconnected"}, t)
             blue == Blue(shown, t)
             broken == Ribbon!Bodies(incidents, "break", now, t)
             crashed == Ribbon!Bodies(incidents, "crash", now, t)
  <1>1. was \in Links /\ (broken <=> was = "broken")
    BY DEF RibbonInv, RibbonTypes, BreaksTell
  <1>2. \E i \in 1..Len(ribbonRows) : ribbonRows[i].from <= t
    <2>1. PICK i \in DOMAIN ribbonRows : ~(ribbonRows[i].from > t)
      OBVIOUS
    <2>2. i \in 1..Len(ribbonRows) /\ now \in Nat
      BY DEF RibbonInv, RibbonTypes
    <2>3. ribbonRows[i].from \in Nat
      BY <2>2, RowIs
    <2> QED
      BY <2>1, <2>2, <2>3
  <1>3. /\ \A g \in shown.gaps : g.cause \in Reasons \ {"none"}
        /\ blue <=> was = "live"
        /\ grey <=> was = "idle"
        /\ yellow <=> was = "broken"
        /\ red <=> was = "lost"
    BY <1>2, AnswerTells
  <1>4. /\ red => gaps = "red"
        /\ ~red /\ yellow => gaps = "yellow"
        /\ ~red /\ ~yellow /\ grey => gaps = "grey"
        /\ ~red /\ ~yellow /\ ~grey /\ blue => gaps = "blue"
    BY <1>3, TopOfGaps
  <1>5. /\ crashed => bodies = "red"
        /\ ~crashed /\ ~red => /\ broken => bodies = "yellow"
                               /\ ~broken /\ grey => bodies = "grey"
                               /\ ~broken /\ ~grey /\ blue => bodies = "blue"
        /\ ~broken /\ ~grey /\ ~blue => bodies \in {"red", "blank"}
    BY <1>3, TopOfJournal
  <1> HIDE DEF was, gaps, bodies, red, yellow, grey, blue, broken, crashed
  <1>6. gaps = [live |-> "blue", idle |-> "grey", broken |-> "yellow", lost |-> "red"][was]
    BY <1>1, <1>3, <1>4 DEF Links
  <1>7. IF crashed THEN bodies = "red"
        ELSE bodies \in [live |-> {"blue"}, idle |-> {"grey"}, broken |-> {"yellow"}, lost |-> {"red", "blank"}][was]
    BY <1>1, <1>3, <1>5 DEF Links
  <1> QED
    BY <1>6, <1>7 DEF was, gaps, bodies, crashed

\* The ribbon of a link shows what happened to it, and a host that cannot be reached as
\* lost (the liveness store and its gaps, overlayCrashOutageOnLink, ConnectionRibbon),
\* whatever breaks, crashes, comes back, is reported by whom and fetched in whatever order.
THEOREM RibbonShowsLink == Ribbon!Spec => []Ribbon!RibbonIsTrue
  <1>1. Ribbon!Init => SuspectInv
    BY SuspectStart
  <1>2. RibbonInv /\ SuspectInv /\ [Ribbon!Next]_(Ribbon!linkVars) => SuspectInv'
    BY SuspectStep
  <1>3. RibbonInv /\ SuspectInv => Ribbon!RibbonIsTrue
    BY SuspectedIsRed, PaintedTells DEF Ribbon!RibbonIsTrue
  <1> QED
    BY <1>1, <1>2, <1>3, RibbonInvariant, PTL DEF Ribbon!Spec

-----------------------------------------------------------------------------
(* The axis of the timeline: from a place to the time drawn there and back. *)

\* What is laid side by side: the sessions, or the window without any.
Parts(sessions, around) ==
  IF sessions = <<>> THEN <<[start |-> around.from, end |-> around.to]>> ELSE sessions

\* The stretches lie side by side.
LEMMA ScaleIs ==
  ASSUME NEW sessions, NEW around, NEW n \in Nat, Len(Parts(sessions, around)) = n
  PROVE  LET scale == Axis!Scale(sessions, around)
             o == scale.offset
         IN  /\ scale.parts = Parts(sessions, around) /\ scale.length = o[n + 1]
             /\ DOMAIN o = 1..(n + 1) /\ o[1] = 0
             /\ \A i \in 1..n : o[i + 1] = o[i] + Axis!Dur(scale.parts[i])
  <1> DEFINE scale == Axis!Scale(sessions, around)
             p == Parts(sessions, around)
             F == CHOOSE f : OffsetFold(f, p, n)
  <1>1. scale = [parts |-> p, offset |-> F, length |-> F[n + 1]]
    BY Zenon DEF Axis!Scale, Parts, OffsetFold
  <1> HIDE DEF p
  <1>2. DOMAIN F = 1..(n + 1) /\ F[1] = 0 /\ \A i \in 1..n : F[i + 1] = F[i] + Axis!Dur(p[i])
    BY OffsetsFold
  <1> HIDE DEF F
  <1>3. scale.parts = p /\ scale.offset = F /\ scale.length = F[n + 1]
    BY <1>1
  <1> HIDE DEF scale
  <1> QED
    BY <1>2, <1>3 DEF scale, p

\* An axis of stretches in order; of one alone the end may be anywhere.
IsAxis(p, n) ==
  /\ \A i \in 1..n : p[i].start \in Int /\ p[i].end \in Int
  /\ \A i, j \in 1..n : i < j => p[i].end <= p[j].start
  /\ n > 1 => \A i \in 1..n : p[i].start < p[i].end
\* A scale whose stretches are in order and lie side by side.
LaidOut(scale, n) ==
  /\ DOMAIN scale.parts = 1..n /\ Len(scale.parts) = n /\ IsAxis(scale.parts, n)
  /\ DOMAIN scale.offset = 1..(n + 1) /\ scale.length = scale.offset[n + 1]
  /\ scale.offset[1] = 0
  /\ \A i \in 1..n : scale.offset[i + 1] = scale.offset[i] + Axis!Dur(scale.parts[i])

\* A stretch takes its length on the scale, one minute at least.
LEMMA DurIs ==
  ASSUME NEW s, s.start \in Int, s.end \in Int
  PROVE  /\ Axis!Dur(s) \in Nat /\ Axis!Dur(s) >= 1
         /\ Axis!Dur(s) = IF s.start < s.end THEN s.end - s.start ELSE 1
  BY DEF Axis!Dur

\* The stretches begin one after the other.
LEMMA OffsetsGrow ==
  ASSUME NEW scale, NEW n \in Nat, LaidOut(scale, n)
  PROVE  /\ \A i \in 1..(n + 1) : scale.offset[i] \in Nat
         /\ \A i, j \in 1..(n + 1) : i < j => scale.offset[i] < scale.offset[j]
  <1> DEFINE o == scale.offset
             Grown(k) == o[k + 1] \in Nat /\ \A i \in 1..k : o[i] \in Nat /\ o[i] < o[k + 1]
             S == {k \in 0..n : Grown(k)}
  <1>1. 0 \in S
    BY DEF LaidOut
  <1>2. \A k \in 0..(n - 1) : k \in S => k + 1 \in S
    <2> SUFFICES ASSUME NEW k \in 0..(n - 1), Grown(k) PROVE Grown(k + 1)
      OBVIOUS
    <2>1. k + 1 \in 1..n
      OBVIOUS
    <2>2. o[(k + 1) + 1] = o[k + 1] + Axis!Dur(scale.parts[k + 1])
      BY <2>1 DEF LaidOut
    <2>3. Axis!Dur(scale.parts[k + 1]) \in Nat /\ Axis!Dur(scale.parts[k + 1]) >= 1
      BY <2>1, DurIs DEF LaidOut, IsAxis
    <2>4. \A i \in 1..(k + 1) : i \in 1..k \/ i = k + 1
      OBVIOUS
    <2> HIDE DEF o
    <2> QED
      BY <2>2, <2>3, <2>4
  <1> HIDE DEF S
  <1>3. \A k \in 0..n : k \in S
    BY <1>1, <1>2, UpTo
  <1>4. ASSUME NEW j \in 1..(n + 1) PROVE o[j] \in Nat /\ \A i \in 1..(j - 1) : o[i] < o[j]
    <2>1. j - 1 \in 0..n /\ (j - 1) + 1 = j
      OBVIOUS
    <2>2. Grown(j - 1)
      BY <1>3, <2>1 DEF S
    <2> QED
      BY <2>1, <2>2
  <1> HIDE DEF o
  <1>5. \A i, j \in 1..(n + 1) : i < j => o[i] < o[j]
    BY <1>4
  <1> QED
    BY <1>4, <1>5 DEF o

\* The first part that is found is found first.
LEMMA FirstPartIs ==
  ASSUME NEW scale, NEW n \in Nat, DOMAIN scale.parts = 1..n, NEW T \in SUBSET (1..n),
         NEW k \in T, \A i \in T : k <= i
  PROVE  (CHOOSE i \in DOMAIN scale.parts : i \in T /\ \A j \in 1..(i - 1) : j \notin T) = k
  <1>0. k \in 1..n /\ \A i \in T : i \in 1..n
    OBVIOUS
  <1>1. k \in 1..n /\ k \in T /\ \A j \in 1..(k - 1) : j \notin T
    BY <1>0
  <1>2. \A i \in 1..n : (i \in T /\ \A j \in 1..(i - 1) : j \notin T) => i = k
    BY <1>0
  <1> QED
    BY <1>1, <1>2

\* The tooltip tells the time drawn under the cursor (makeProjector, makeInverseProjector):
\* on every axis whose stretches are in order, from a place to the instant and back leads
\* to the same place, at the seams too.
THEOREM CursorComesBack ==
  ASSUME NEW scale, NEW n \in Nat \ {0}, LaidOut(scale, n), NEW u \in 0..scale.length
  PROVE  Axis!Project(scale, Axis!InvertProject(scale, u)) = u
  <1> DEFINE p == scale.parts
             o == scale.offset
             K == {i \in 1..n : u <= o[i] + Axis!Dur(p[i])}
  <1>1. /\ DOMAIN p = 1..n /\ Len(p) = n /\ IsAxis(p, n)
        /\ scale.length = o[n + 1] /\ o[1] = 0
        /\ \A i \in 1..n : o[i + 1] = o[i] + Axis!Dur(p[i])
    BY DEF LaidOut
  <1>2. /\ \A i \in 1..(n + 1) : o[i] \in Nat
        /\ \A i, j \in 1..(n + 1) : i < j => o[i] < o[j]
    BY OffsetsGrow
  <1>3. u \in Nat /\ u <= scale.length /\ scale.length \in Nat
    BY <1>1, <1>2
  <1>4. n \in K /\ K \in SUBSET Nat
    BY <1>1, <1>3
  <1>5. PICK k \in K : \A i \in K : k <= i
    BY <1>4, LeastOf
  <1>6. k \in 1..n /\ u <= o[k + 1] /\ o[k + 1] = o[k] + Axis!Dur(p[k]) /\ o[k] \in Nat
    BY <1>1, <1>2, <1>5
  <1>7. IF k = 1 THEN o[k] = 0 ELSE o[k] < u
    <2>1. CASE k = 1
      BY <1>1, <2>1
    <2>2. CASE k # 1
      <3>1. k - 1 \in 1..n /\ (k - 1) + 1 = k
        BY <1>6, <2>2
      <3>2. k - 1 \notin K
        BY <1>5, <3>1
      <3>3. o[k] = o[k - 1] + Axis!Dur(p[k - 1]) /\ o[k - 1] \in Nat
        BY <1>1, <1>2, <3>1
      <3> QED
        BY <1>3, <1>6, <2>2, <3>1, <3>2, <3>3
    <2> QED
      BY <2>1, <2>2
  <1> DEFINE t == p[k].start + (u - o[k])
  <1>8. Axis!InvertProject(scale, u) = t
    <2>1. Axis!Clamp(u, scale.length) = u
      BY <1>3 DEF Axis!Clamp
    <2>2. (CHOOSE i \in DOMAIN scale.parts : i \in K /\ \A j \in 1..(i - 1) : j \notin K) = k
      BY <1>1, <1>5, FirstPartIs
    <2>3. \A i \in 1..n : i \in K <=> u <= o[i] + Axis!Dur(p[i])
      OBVIOUS
    <2> DEFINE found(i) == u <= o[i] + Axis!Dur(p[i])
    <2>4. \A i \in DOMAIN p : (i \in K /\ \A j \in 1..(i - 1) : j \notin K)
                               <=> (found(i) /\ \A j \in 1..(i - 1) : ~found(j))
      <3> TAKE i \in DOMAIN p
      <3>1. i \in 1..n /\ \A j \in 1..(i - 1) : j \in 1..n
        BY <1>1
      <3> HIDE DEF K, found
      <3> QED
        BY <2>3, <3>1 DEF found
    <2> HIDE DEF K
    <2>5. (CHOOSE i \in DOMAIN p : found(i) /\ \A j \in 1..(i - 1) : ~found(j)) = k
      BY <2>2, <2>4, Zenon
    <2> DEFINE at(place, i) == p[i].start + (IF place > o[i] THEN place - o[i] ELSE 0)
               first(place) == CHOOSE i \in DOMAIN p :
                                 /\ place <= o[i] + Axis!Dur(p[i])
                                 /\ \A j \in 1..(i - 1) : ~(place <= o[j] + Axis!Dur(p[j]))
    <2>6. first(u) = k
      BY <2>5, Zenon
    <2>7. Axis!InvertProject(scale, u) = p[k].start + (IF u > o[k] THEN u - o[k] ELSE 0)
      <3>1. LET place == Axis!Clamp(u, scale.length) IN Axis!InvertProject(scale, u) = at(place, first(place))
        BY Zenon DEF Axis!InvertProject, Axis!FirstPart
      <3> HIDE DEF at, first
      <3>2. Axis!InvertProject(scale, u) = at(u, k)
        BY <2>1, <2>6, <3>1, Zenon
      <3> QED
        BY <3>2, Zenon DEF at
    <2>8. o[k] <= u
      BY <1>3, <1>6, <1>7
    <2> QED
      BY <1>3, <1>6, <2>7, <2>8
  <1> HIDE DEF K
  <1>9. t \in Int /\ p[k].start \in Int /\ p[k].end \in Int /\ p[1].start \in Int /\ p[n].end \in Int
    <2>1. 1 \in 1..n /\ n \in 1..n /\ k \in 1..n
      BY <1>6
    <2>2. p[k].start \in Int /\ p[k].end \in Int /\ p[1].start \in Int /\ p[n].end \in Int
      BY <1>1, <2>1 DEF IsAxis
    <2> QED
      BY <1>3, <1>6, <2>2
  <1>10. Axis!Dur(p[k]) = IF p[k].start < p[k].end THEN p[k].end - p[k].start ELSE 1
    BY <1>9, DurIs
  <1> DEFINE d == Axis!Dur(p[k])
             x == u - o[k]
  <1>21. x \in Nat /\ d \in Nat /\ x <= d /\ (k > 1 => x >= 1) /\ t = p[k].start + x
    <2>1. d \in Nat
      BY <1>9, DurIs
    <2> HIDE DEF d
    <2> QED
      BY <1>3, <1>6, <1>7, <2>1 DEF d
  <1> HIDE DEF t, x
  <1>22. n > 1 => d = p[k].end - p[k].start
    BY <1>1, <1>6, <1>10 DEF IsAxis
  <1>11. t >= p[k].start /\ (k > 1 => t > p[k].start) /\ (n > 1 => t <= p[k].end)
    <2> HIDE DEF d
    <2> QED
      BY <1>6, <1>9, <1>21, <1>22
  <1>12. \A i \in 1..(k - 1) : t > p[i].end /\ t > p[i].start
    <2> TAKE i \in 1..(k - 1)
    <2>1. i \in 1..n /\ i < k /\ k > 1 /\ n > 1
      BY <1>6
    <2>2. p[i].end <= p[k].start /\ p[i].start < p[i].end /\ p[i].start \in Int /\ p[i].end \in Int
      BY <1>1, <1>6, <2>1 DEF IsAxis
    <2> QED
      BY <1>9, <1>11, <2>1, <2>2
  <1>13. k < n => t < p[n].end
    <2> SUFFICES ASSUME k < n PROVE t < p[n].end
      OBVIOUS
    <2>1. p[k].end <= p[n].start /\ p[n].start < p[n].end /\ p[n].start \in Int
      BY <1>1, <1>6 DEF IsAxis
    <2> QED
      BY <1>6, <1>9, <1>11, <2>1
  <1>14. t >= p[n].end /\ t > p[1].start => u = scale.length
    <2> SUFFICES ASSUME t >= p[n].end, t > p[1].start PROVE u = scale.length
      OBVIOUS
    <2>1. k = n
      BY <1>6, <1>9, <1>13
    <2>2. x >= d
      <3>1. CASE p[k].start < p[k].end
        BY <1>9, <1>10, <1>21, <2>1, <3>1
      <3>2. CASE ~(p[k].start < p[k].end)
        <4>1. n = 1
          BY <1>1, <1>6, <3>2 DEF IsAxis
        <4> QED
          BY <1>9, <1>10, <1>21, <2>1, <3>2, <4>1
      <3> QED
        BY <3>1, <3>2
    <2> HIDE DEF d
    <2> QED
      BY <1>1, <1>3, <1>6, <1>21, <2>1, <2>2 DEF x, d
  <1>15. t <= p[1].start => u = 0
    <2>1. CASE k = 1
      BY <1>3, <1>6, <1>7, <1>9, <1>21, <2>1 DEF x
    <2>2. CASE k # 1
      <3>1. 1 \in 1..(k - 1)
        BY <1>6, <2>2
      <3> QED
        BY <1>9, <1>12, <3>1
    <2> QED
      BY <2>1, <2>2
  <1> DEFINE found(i) == t < p[i].start \/ t <= p[i].end
             first == CHOOSE i \in DOMAIN p : found(i) /\ \A j \in 1..(i - 1) : ~found(j)
             F == {i \in 1..n : found(i)}
  <1>16. found(k) => first = k
    <2> SUFFICES ASSUME found(k) PROVE first = k
      OBVIOUS
    <2>1. F \in SUBSET (1..n) /\ k \in F
      BY <1>6
    <2>2. \A i \in F : k <= i
      <3> SUFFICES ASSUME NEW i \in F, i < k PROVE FALSE
        BY <1>6
      <3>1. i \in 1..(k - 1) /\ found(i) /\ i \in 1..n
        BY <1>6
      <3>2. p[i].start \in Int /\ p[i].end \in Int
        BY <1>1, <3>1 DEF IsAxis
      <3> QED
        BY <1>9, <1>12, <3>1, <3>2
    <2>3. \A i \in DOMAIN p : (i \in F /\ \A j \in 1..(i - 1) : j \notin F)
                               <=> (found(i) /\ \A j \in 1..(i - 1) : ~found(j))
      <3> TAKE i \in DOMAIN p
      <3>1. i \in 1..n /\ \A j \in 1..(i - 1) : j \in 1..n
        BY <1>1
      <3>2. \A j \in 1..n : j \in F <=> found(j)
        OBVIOUS
      <3> HIDE DEF F, found
      <3> QED
        BY <3>1, <3>2
    <2> HIDE DEF F
    <2>4. (CHOOSE i \in DOMAIN p : i \in F /\ \A j \in 1..(i - 1) : j \notin F) = k
      BY <1>1, <2>1, <2>2, FirstPartIs
    <2> QED
      BY <2>3, <2>4, Zenon
  <1> DEFINE mid(i) == IF t < p[i].start THEN o[i] ELSE Axis!Clamp(o[i] + t - p[i].start, scale.length)
             over == t > p[1].start /\ (t >= p[n].end \/ \A j \in DOMAIN p : ~found(j))
  <1>17. Axis!Project(scale, t) =
           CASE t <= p[1].start -> 0 [] over -> scale.length [] OTHER -> mid(first)
    BY <1>1, Zenon DEF Axis!Project, Axis!FirstPart
  <1> HIDE DEF first
  <1>18. CASE t <= p[1].start
    <2>1. ~over
      BY <1>9, <1>18
    <2> HIDE DEF over, mid
    <2> QED
      BY <1>8, <1>15, <1>17, <1>18, <2>1
  <1>19. CASE ~(t <= p[1].start) /\ over
    <2>1. t >= p[n].end
      <3> SUFFICES ASSUME ~found(k) PROVE t >= p[n].end
        BY <1>1, <1>6, <1>19
      <3>1. n = 1 /\ k = n /\ t > p[k].end
        BY <1>6, <1>9, <1>11
      <3> QED
        BY <1>9, <3>1
    <2>2. u = scale.length
      BY <1>9, <1>14, <1>19, <2>1
    <2> HIDE DEF over, mid
    <2> QED
      BY <1>8, <1>17, <1>19, <2>2
  <1>20. CASE ~(t <= p[1].start) /\ ~over
    <2>1. found(k)
      <3>1. t < p[n].end
        BY <1>9, <1>20
      <3> QED
        BY <1>6, <1>9, <1>11, <3>1
    <2>2. first = k
      BY <1>16, <2>1
    <2>3. mid(k) = u
      BY <1>3, <1>6, <1>9, <1>11, <1>21 DEF Axis!Clamp, x
    <2> HIDE DEF over, mid
    <2> QED
      BY <1>8, <1>17, <1>20, <2>2, <2>3
  <1> QED
    BY <1>18, <1>19, <1>20

(* The days of a horizon. *)

\* What is picked stands in the order it had.
PickedTo(seq, places, k, p) ==
  /\ \A i \in 1..Len(p) : \E l \in 1..k : l \in places /\ p[i] = seq[l]
  /\ \A l \in 1..k : l \in places => \E i \in 1..Len(p) : p[i] = seq[l]
  /\ \A i, j \in 1..Len(p) : i < j =>
       \E l, m \in 1..k : l \in places /\ m \in places /\ l < m /\ p[i] = seq[l] /\ p[j] = seq[m]
\* What Picked returns, of any sequence and places.
LEMMA PickedIs ==
  ASSUME NEW X, NEW seq \in Seq(X), NEW places
  PROVE  LET p == Axis!Picked(seq, places)
         IN  p \in Seq(X) /\ PickedTo(seq, places, Len(seq), p)
  <1> DEFINE n == Len(seq)
  <1>1. n \in Nat /\ Len(seq) = n /\ \A k \in 1..n : seq[k] \in X
    OBVIOUS
  <1> HIDE DEF n
  <1>0. PICK a : Picks(a, seq, places, n) /\ Axis!Picked(seq, places) = a[n]
    BY <1>1, PicksFold
  <1>2. /\ a[0] = <<>>
        /\ \A k \in 1..n : a[k] = IF k \in places THEN Append(a[k - 1], seq[k]) ELSE a[k - 1]
    BY <1>0 DEF Picks
  <1> DEFINE S == {k \in 0..n : a[k] \in Seq(X) /\ PickedTo(seq, places, k, a[k])}
  <1>3. 0 \in S
    <2>1. <<>> \in Seq(X) /\ PickedTo(seq, places, 0, <<>>)
      BY DEF PickedTo
    <2>2. 0 \in 0..n /\ a[0] \in Seq(X) /\ PickedTo(seq, places, 0, a[0])
      BY <1>1, <1>2, <2>1
    <2> QED
      BY <2>2, Zenon
  <1>4. \A k \in 0..(n - 1) : k \in S => k + 1 \in S
    <2> SUFFICES ASSUME NEW k \in 0..(n - 1), a[k] \in Seq(X), PickedTo(seq, places, k, a[k])
                 PROVE  a[k + 1] \in Seq(X) /\ PickedTo(seq, places, k + 1, a[k + 1])
      BY <1>1
    <2>1. k + 1 \in 1..n /\ (k + 1) - 1 = k /\ k \in Nat /\ \A l \in 1..(k + 1) : l \in 1..k \/ l = k + 1
      BY <1>1
    <2>2. CASE k + 1 \notin places
      <3>1. a[k + 1] = a[k]
        BY <1>2, <2>1, <2>2
      <3>2. \A l \in 1..k : l \in 1..(k + 1)
        BY <2>1
      <3>3. \A l \in 1..(k + 1) : l \in places => l \in 1..k
        BY <2>1, <2>2
      <3> QED
        BY <3>1, <3>2, <3>3 DEF PickedTo
    <2>3. CASE k + 1 \in places
      <3> DEFINE p == a[k]
                 q == a[k + 1]
                 m == Len(p)
      <3>1. q = Append(p, seq[k + 1])
        BY <1>2, <2>1, <2>3
      <3>2. seq[k + 1] \in X
        BY <1>1, <2>1
      <3>3. q \in Seq(X) /\ Len(q) = m + 1 /\ q[m + 1] = seq[k + 1] /\ m \in Nat /\ \A i \in 1..m : q[i] = p[i]
        BY <3>1, <3>2
      <3> HIDE DEF p, q, m
      <3>4. PickedTo(seq, places, k, p) /\ Len(p) = m
        BY DEF p, m
      <3>5. \A i \in 1..(m + 1) : i \in 1..m \/ i = m + 1
        BY <3>3
      <3>6. ASSUME NEW i \in 1..(m + 1) PROVE \E l \in 1..(k + 1) : l \in places /\ q[i] = seq[l]
        <4>1. CASE i \in 1..m
          <5>1. PICK l \in 1..k : l \in places /\ p[i] = seq[l]
            BY <3>4, <4>1 DEF PickedTo
          <5>2. l \in 1..(k + 1) /\ q[i] = seq[l]
            BY <2>1, <3>3, <4>1, <5>1
          <5> QED
            BY <5>1, <5>2
        <4>2. CASE i = m + 1
          BY <2>1, <2>3, <3>3, <4>2
        <4> QED
          BY <3>5, <4>1, <4>2
      <3>7. ASSUME NEW l \in 1..(k + 1), l \in places PROVE \E i \in 1..(m + 1) : q[i] = seq[l]
        <4>1. CASE l \in 1..k
          <5>1. PICK i \in 1..m : p[i] = seq[l]
            BY <3>4, <3>7, <4>1 DEF PickedTo
          <5>2. i \in 1..(m + 1) /\ q[i] = seq[l]
            BY <3>3, <5>1
          <5> QED
            BY <5>2
        <4>2. CASE l = k + 1
          <5>1. m + 1 \in 1..(m + 1) /\ q[m + 1] = seq[l]
            BY <3>3, <4>2
          <5> QED
            BY <5>1
        <4> QED
          BY <2>1, <4>1, <4>2
      <3>8. ASSUME NEW i \in 1..(m + 1), NEW j \in 1..(m + 1), i < j
            PROVE  \E l, h \in 1..(k + 1) : l \in places /\ h \in places /\ l < h /\ q[i] = seq[l] /\ q[j] = seq[h]
        <4>1. i \in 1..m
          BY <3>3, <3>8
        <4>2. CASE j \in 1..m
          <5>1. PICK l \in 1..k, h \in 1..k : l \in places /\ h \in places /\ l < h /\ p[i] = seq[l] /\ p[j] = seq[h]
            BY <3>4, <3>8, <4>1, <4>2 DEF PickedTo
          <5>2. l \in 1..(k + 1) /\ h \in 1..(k + 1) /\ q[i] = seq[l] /\ q[j] = seq[h]
            BY <2>1, <3>3, <4>1, <4>2, <5>1
          <5> QED
            BY <5>1, <5>2
        <4>3. CASE j = m + 1
          <5>1. PICK l \in 1..k : l \in places /\ p[i] = seq[l]
            BY <3>4, <4>1 DEF PickedTo
          <5>2. l \in 1..(k + 1) /\ k + 1 \in 1..(k + 1) /\ l < k + 1
            BY <2>1
          <5>3. q[i] = seq[l] /\ q[j] = seq[k + 1]
            BY <3>3, <4>1, <4>3, <5>1
          <5> QED
            BY <2>3, <5>1, <5>2, <5>3
        <4> QED
          BY <3>5, <4>2, <4>3
      <3>9. PickedTo(seq, places, k + 1, q)
        <4>1. Len(q) = m + 1
          BY <3>3
        <4>2. \A i \in 1..Len(q) : \E l \in 1..(k + 1) : l \in places /\ q[i] = seq[l]
          BY ONLY <4>1, <3>6, Zenon
        <4>3. \A l \in 1..(k + 1) : l \in places => \E i \in 1..Len(q) : q[i] = seq[l]
          BY ONLY <4>1, <3>7, Zenon
        <4>4. \A i, j \in 1..Len(q) : i < j =>
                \E l, h \in 1..(k + 1) : l \in places /\ h \in places /\ l < h /\ q[i] = seq[l] /\ q[j] = seq[h]
          BY ONLY <4>1, <3>8, SMT
        <4> QED
          BY ONLY <4>2, <4>3, <4>4, Zenon DEF PickedTo
      <3> QED
        BY <3>3, <3>9 DEF q
    <2> QED
      BY <2>2, <2>3
  <1> HIDE DEF S
  <1>5. n \in S
    BY <1>1, <1>3, <1>4, UpTo
  <1> QED
    BY <1>0, <1>5 DEF S, n

\* Days in order, and the days of a set in order.
Ascending(days) == days \in Seq(Int) /\ \A i, j \in 1..Len(days) : i < j => days[i] < days[j]
DaysAre(days, Among) == Ascending(days) /\ \A d \in Int : (\E i \in 1..Len(days) : days[i] = d) <=> d \in Among

\* Picking some of the days leaves them in order.
LEMMA PickedDays ==
  ASSUME NEW days, Ascending(days), NEW places \in SUBSET (1..Len(days))
  PROVE  DaysAre(Axis!Picked(days, places), {days[i] : i \in places})
  <1> DEFINE p == Axis!Picked(days, places)
             n == Len(days)
  <1>1. p \in Seq(Int) /\ PickedTo(days, places, n, p) /\ n \in Nat
    BY PickedIs DEF Ascending
  <1>2. \A i \in 1..n : days[i] \in Int
    BY DEF Ascending
  <1>3. ASSUME NEW i \in 1..Len(p), NEW j \in 1..Len(p), i < j PROVE p[i] < p[j]
    <2> HIDE DEF p
    <2>1. PICK l \in 1..n, m \in 1..n : l < m /\ p[i] = days[l] /\ p[j] = days[m]
      BY <1>1, <1>3 DEF PickedTo
    <2> QED
      BY <2>1 DEF Ascending
  <1>4. ASSUME NEW d \in Int PROVE (\E i \in 1..Len(p) : p[i] = d) <=> \E l \in places : days[l] = d
    <2> HIDE DEF p
    <2>1. ASSUME NEW i \in 1..Len(p) PROVE \E l \in places : p[i] = days[l]
      BY <1>1 DEF PickedTo
    <2>2. ASSUME NEW l \in places PROVE \E i \in 1..Len(p) : p[i] = days[l]
      <3>1. l \in 1..n
        OBVIOUS
      <3> QED
        BY <1>1, <3>1 DEF PickedTo
    <2> QED
      BY <2>1, <2>2
  <1> HIDE DEF p
  <1> QED
    BY <1>1, <1>3, <1>4 DEF DaysAre, Ascending, p

\* The exchange days of a range of dates.
Trades(weekends, d) == weekends \/ ~Axis!IsWeekend(d)
\* The exchange days between two dates.
Traded(weekends, first, last) == {d \in first..last : Trades(weekends, d)}
\* The exchange days between two dates (prevDate, the filter of weekends).
LEMMA ExchangeDaysAre ==
  ASSUME NEW first \in Int, NEW last \in Int, NEW weekends
  PROVE  DaysAre(Axis!ExchangeDays(first, last, weekends), Traded(weekends, first, last))
  <1> DEFINE days == [i \in 1..(last - first + 1) |-> first + i - 1]
             places == {i \in DOMAIN days : Trades(weekends, days[i])}
             n == IF last - first + 1 >= 0 THEN last - first + 1 ELSE 0
  <1>1. n \in Nat /\ 1..(last - first + 1) = 1..n
    OBVIOUS
  <1>2. days = [i \in 1..n |-> first + i - 1]
    BY <1>1
  <1>3. days \in Seq(Int) /\ Len(days) = n /\ DOMAIN days = 1..n /\ \A i \in 1..n : days[i] = first + i - 1
    <2> HIDE DEF days, n
    <2>1. \A i \in 1..n : first + i - 1 \in Int
      BY <1>1
    <2> QED
      BY <1>1, <1>2, <2>1
  <1>4. Axis!ExchangeDays(first, last, weekends) = Axis!Picked(days, places)
    BY Zenon DEF Axis!ExchangeDays, Trades
  <1> HIDE DEF days
  <1>5. Ascending(days)
    BY <1>1, <1>3 DEF Ascending
  <1>6. places \in SUBSET (1..Len(days))
    BY <1>3
  <1>7. DaysAre(Axis!Picked(days, places), {days[i] : i \in places})
    BY <1>5, <1>6, PickedDays
  <1>8. {days[i] : i \in places} = Traded(weekends, first, last)
    <2>1. ASSUME NEW i \in places PROVE days[i] \in first..last /\ Trades(weekends, days[i])
      BY <1>1, <1>3
    <2>2. ASSUME NEW d \in first..last, Trades(weekends, d) PROVE \E i \in places : days[i] = d
      <3>1. d - first + 1 \in 1..n /\ days[d - first + 1] = d
        BY <1>1, <1>3
      <3> QED
        BY <1>3, <2>2, <3>1
    <2> HIDE DEF places
    <2> QED
      BY <2>1, <2>2 DEF Traded
  <1> QED
    BY <1>4, <1>7, <1>8

\* From a day on there are as many days as places.
LEMMA DaysLeft ==
  ASSUME NEW days, Ascending(days), NEW i \in 1..(Len(days) + 1)
  PROVE  Cardinality({days[j] : j \in i..Len(days)}) = Len(days) - i + 1
  <1> DEFINE n == Len(days)
             k == n - i + 1
             S == {days[j] : j \in i..n}
             f == [x \in 1..k |-> days[i + x - 1]]
  <1>1. n \in Nat /\ k \in Nat /\ \A x \in 1..k : i + x - 1 \in i..n /\ i + x - 1 \in 1..n
    BY DEF Ascending
  <1>2. \A x \in 1..k : f[x] = days[i + x - 1] /\ f[x] \in S
    BY <1>1
  <1>3. ASSUME NEW x \in 1..k, NEW y \in 1..k, f[x] = f[y] PROVE x = y
    <2>1. i + x - 1 \in 1..n /\ i + y - 1 \in 1..n /\ days[i + x - 1] = days[i + y - 1]
      BY <1>1, <1>2, <1>3
    <2>2. days[i + x - 1] \in Int /\ days[i + y - 1] \in Int
      BY <2>1 DEF Ascending
    <2>3. \A a, b \in 1..n : a < b => days[a] < days[b]
      BY DEF Ascending
    <2>4. ASSUME i + x - 1 < i + y - 1 PROVE FALSE
      <3>1. days[i + x - 1] < days[i + y - 1]
        BY <2>1, <2>3, <2>4
      <3> QED
        BY <2>1, <2>2, <3>1
    <2>5. ASSUME i + y - 1 < i + x - 1 PROVE FALSE
      <3>1. days[i + y - 1] < days[i + x - 1]
        BY <2>1, <2>3, <2>5
      <3> QED
        BY <2>1, <2>2, <3>1
    <2> QED
      BY <2>4, <2>5
  <1>4. ASSUME NEW s \in S PROVE \E x \in 1..k : f[x] = s
    <2>1. PICK j \in i..n : s = days[j]
      OBVIOUS
    <2>2. j - i + 1 \in 1..k /\ i + (j - i + 1) - 1 = j
      BY <1>1
    <2> QED
      BY <1>2, <2>1, <2>2
  <1>5. f \in [1..k -> S] /\ DOMAIN f = 1..k
    BY <1>2
  <1> HIDE DEF f, S
  <1>6. f \in Bijection(1..k, S)
    BY <1>3, <1>4, <1>5 DEF Bijection, Injection, Surjection, IsInjective
  <1>7. Cardinality(S) = k
    <2> HIDE DEF k
    <2>1. ExistsBijection(1..k, S)
      BY <1>6 DEF ExistsBijection
    <2> QED
      BY <1>1, <2>1, FS_CountingElements
  <1> QED
    BY <1>7 DEF S

\* A set of dates is counted by the days that list it; later dates are fewer.
LEMMA ListedAreCounted ==
  ASSUME NEW days, NEW b \in Int, NEW a \in Int, NEW weekends,
         DaysAre(days, Traded(weekends, b, a))
  PROVE  /\ Cardinality(Traded(weekends, b, a)) = Len(days)
         /\ \A i \in 1..Len(days) : Cardinality(Traded(weekends, days[i], a)) = Len(days) - i + 1
  <1> DEFINE n == Len(days)
  <1>1. n \in Nat /\ Ascending(days) /\ \A i \in 1..n : days[i] \in Int
    BY DEF DaysAre, Ascending
  <1>2. \A i \in 1..n : days[i] \in b..a /\ Trades(weekends, days[i])
    BY <1>1 DEF DaysAre, Traded
  <1>3. \A e \in b..a : Trades(weekends, e) => \E i \in 1..n : days[i] = e
    BY DEF DaysAre, Traded
  <1>4. Traded(weekends, b, a) = {days[j] : j \in 1..n}
    BY <1>2, <1>3 DEF Traded
  <1>5. ASSUME NEW i \in 1..n PROVE Traded(weekends, days[i], a) = {days[j] : j \in i..n}
    <2>1. ASSUME NEW e \in days[i]..a, Trades(weekends, e) PROVE \E j \in i..n : days[j] = e
      <3>1. e \in b..a
        BY <1>1, <1>2
      <3>2. PICK j \in 1..n : days[j] = e
        BY <1>3, <2>1, <3>1
      <3>3. ~(j < i)
        BY <1>1, <3>2 DEF Ascending
      <3> QED
        BY <1>1, <3>2, <3>3
    <2>2. ASSUME NEW j \in i..n PROVE days[j] \in days[i]..a /\ Trades(weekends, days[j])
      <3>1. j \in 1..n
        OBVIOUS
      <3>2. days[i] <= days[j]
        BY <1>1, <3>1 DEF Ascending
      <3> QED
        BY <1>1, <1>2, <3>1, <3>2
    <2> QED
      BY <2>1, <2>2 DEF Traded
  <1>6. 1 \in 1..(n + 1) /\ \A i \in 1..n : i \in 1..(n + 1)
    BY <1>1
  <1>7. Cardinality({days[j] : j \in 1..n}) = n - 1 + 1
    BY <1>1, <1>6, DaysLeft
  <1>8. \A i \in 1..n : Cardinality({days[j] : j \in i..n}) = n - i + 1
    BY <1>1, <1>6, DaysLeft
  <1>9. Cardinality(Traded(weekends, b, a)) = n
    <2>1. Cardinality(Traded(weekends, b, a)) = n - 1 + 1
      BY <1>4, <1>7, Zenon
    <2> QED
      BY <1>1, <2>1
  <1>10. ASSUME NEW i \in 1..n PROVE Cardinality(Traded(weekends, days[i], a)) = n - i + 1
    BY <1>5, <1>8, Zenon
  <1> QED
    BY <1>9, <1>10

\* They can be counted.
LEMMA TradedCounts ==
  ASSUME NEW weekends, NEW first \in Int, NEW last \in Int
  PROVE  IsFiniteSet(Traded(weekends, first, last)) /\ Cardinality(Traded(weekends, first, last)) \in Nat
  <1>1. IsFiniteSet(first..last) /\ Traded(weekends, first, last) \in SUBSET (first..last)
    BY FS_Interval DEF Traded
  <1> QED
    BY <1>1, FS_Subset, FS_CardinalityType

\* Of any three days one is traded.
LEMMA TradesAmong ==
  ASSUME NEW a \in Int, NEW weekends, NEW m \in Nat, NEW d \in Int, d <= a - 3 * m + 1
  PROVE  Cardinality(Traded(weekends, d, a)) >= m
  <1> DEFINE T(k) == Traded(weekends, a - 3 * k + 1, a)
             Many(k) == IsFiniteSet(T(k)) /\ Cardinality(T(k)) \in Nat /\ Cardinality(T(k)) >= k
             S == {k \in 0..m : Many(k)}
  <1>1. \A k \in Nat : IsFiniteSet(T(k)) /\ Cardinality(T(k)) \in Nat
    BY TradedCounts
  <1>2. 0 \in S
    BY <1>1
  <1>3. \A k \in 0..(m - 1) : k \in S => k + 1 \in S
    <2> SUFFICES ASSUME NEW k \in 0..(m - 1), Many(k) PROVE Many(k + 1)
      OBVIOUS
    <2>1. \E e \in (a - 3 * k - 2)..(a - 3 * k) : Trades(weekends, e)
      <3>1. \A x \in Int : x % 7 \notin {0, 6} \/ (x + 1) % 7 \notin {0, 6} \/ (x + 2) % 7 \notin {0, 6}
        OBVIOUS
      <3>2. PICK e \in {a - 3 * k - 2, (a - 3 * k - 2) + 1, (a - 3 * k - 2) + 2} : e % 7 \notin {0, 6}
        BY <3>1
      <3>3. e \in (a - 3 * k - 2)..(a - 3 * k)
        OBVIOUS
      <3> QED
        BY <3>2, <3>3 DEF Trades, Axis!IsWeekend, Axis!Weekday
    <2>2. PICK e \in (a - 3 * k - 2)..(a - 3 * k) : Trades(weekends, e)
      BY <2>1
    <2>3. e \notin T(k) /\ T(k) \cup {e} \subseteq T(k + 1)
      BY <2>2 DEF Traded
    <2>4. k \in Nat /\ k + 1 \in Nat
      OBVIOUS
    <2>7. IsFiniteSet(T(k + 1)) /\ Cardinality(T(k + 1)) \in Nat
      BY <1>1, <2>4
    <2> HIDE DEF T
    <2>5. Cardinality(T(k) \cup {e}) = Cardinality(T(k)) + 1
      BY <2>3, FS_AddElement
    <2>6. Cardinality(T(k) \cup {e}) <= Cardinality(T(k + 1))
      BY <1>1, <2>3, <2>4, FS_Subset
    <2> QED
      BY <2>4, <2>5, <2>6, <2>7
  <1> HIDE DEF S
  <1>4. m \in S
    BY <1>2, <1>3, UpTo
  <1>5. T(m) \subseteq Traded(weekends, d, a)
    BY DEF Traded
  <1>6. IsFiniteSet(Traded(weekends, d, a)) /\ Cardinality(Traded(weekends, d, a)) \in Nat
    BY TradedCounts
  <1> HIDE DEF T
  <1>7. Cardinality(T(m)) <= Cardinality(Traded(weekends, d, a))
    BY <1>5, <1>6, FS_Subset
  <1> QED
    BY <1>1, <1>4, <1>6, <1>7 DEF S

\* A calendar of the exchange's own hours, of certain dates in order.
HasDays(calendar, D) == \E days : DaysAre(days, D) /\ calendar = Axis!SessionsOn(days)

\* The last days of an ascending list are an ascending list.
LEMMA LastDays ==
  ASSUME NEW days, Ascending(days), NEW n \in Nat, n <= Len(days)
  PROVE  DaysAre(SubSeq(days, Len(days) - n + 1, Len(days)), {days[i] : i \in (Len(days) - n + 1)..Len(days)})
  <1> DEFINE len == Len(days)
             b == len - n
             p == SubSeq(days, len - n + 1, len)
  <1>1. len \in Nat /\ b \in Nat /\ b <= len /\ days \in Seq(Int) /\ \A i \in 1..len : days[i] \in Int
    BY DEF Ascending
  <1>2. p \in Seq(Int) /\ Len(p) = n /\ \A i \in 1..n : p[i] = days[i + b]
    BY <1>1
  <1> HIDE DEF p
  <1>3. \A i \in 1..n : i + b \in 1..len /\ i + b \in (len - n + 1)..len
    BY <1>1
  <1>4. \A i \in (len - n + 1)..len : i - b \in 1..n /\ (i - b) + b = i
    BY <1>1
  <1>5. ASSUME NEW i \in 1..n, NEW j \in 1..n, i < j PROVE p[i] < p[j]
    <2>1. i + b \in 1..len /\ j + b \in 1..len /\ i + b < j + b
      BY <1>1, <1>3, <1>5
    <2> HIDE DEF b
    <2>2. days[i + b] < days[j + b]
      BY <2>1 DEF Ascending
    <2> QED
      BY <1>2, <2>2 DEF b
  <1>6. \A i \in (len - n + 1)..len : p[i - b] = days[i]
    BY <1>2, <1>4
  <1>7. ASSUME NEW d \in Int PROVE (\E i \in 1..n : p[i] = d) <=> \E i \in (len - n + 1)..len : days[i] = d
    <2> HIDE DEF b
    <2> QED
      BY <1>2, <1>3, <1>4, <1>6
  <1> HIDE DEF b
  <1>8. Ascending(p)
    BY <1>2, <1>5 DEF Ascending
  <1> QED
    BY <1>2, <1>7, <1>8 DEF DaysAre, p

\* The last exchange days up to a date (recentSessions): count of them, within as many weeks.
LEMMA RecentIs ==
  ASSUME NEW n \in Nat \ {0}, NEW weekends, NEW a \in Int
  PROVE  HasDays(Axis!RecentSessions(n, weekends, a),
           {d \in {d \in (a - 7 * n)..a : Cardinality(Traded(weekends, d, a)) <= n} : Trades(weekends, d)})
  <1> DEFINE first == a - 3 * n - 13
             days == Axis!ExchangeDays(first, a, weekends)
             len == Len(days)
             last == SubSeq(days, len - n + 1, len)
             T(d) == Traded(weekends, d, a)
             D == {d \in (a - 7 * n)..a : Cardinality(T(d)) <= n /\ Trades(weekends, d)}
             L == {days[i] : i \in (len - n + 1)..len}
  <1>1. first \in Int /\ Axis!RecentSessions(n, weekends, a) = Axis!SessionsOn(last)
    BY DEF Axis!RecentSessions
  <1>2. DaysAre(days, T(first))
    BY <1>1, ExchangeDaysAre
  <1> HIDE DEF days
  <1>3. Ascending(days) /\ len \in Nat /\ \A i \in 1..len : days[i] \in Int
    BY <1>2 DEF DaysAre, Ascending
  <1>4. Cardinality(T(first)) = len /\ \A i \in 1..len : Cardinality(T(days[i])) = len - i + 1
    <2> HIDE DEF first
    <2> QED
      BY <1>1, <1>2, ListedAreCounted
  <1>5. \A d \in Int : d <= a - 3 * n - 2 => Cardinality(T(d)) >= n + 1
    <2> SUFFICES ASSUME NEW d \in Int, d <= a - 3 * n - 2 PROVE Cardinality(T(d)) >= n + 1
      OBVIOUS
    <2>1. n + 1 \in Nat /\ d <= a - 3 * (n + 1) + 1
      OBVIOUS
    <2> QED
      BY <2>1, TradesAmong
  <1>6. len >= n + 1
    BY <1>1, <1>3, <1>4, <1>5
  <1>7. \A d \in Int : (\E i \in 1..len : days[i] = d) <=> d \in first..a /\ Trades(weekends, d)
    BY <1>2 DEF DaysAre, Traded
  <1> HIDE DEF T
  <1>8. ASSUME NEW d \in D PROVE d \in L
    <2>1. d \in Int /\ d <= a /\ Cardinality(T(d)) <= n /\ Trades(weekends, d)
      OBVIOUS
    <2>2. IsFiniteSet(T(d)) /\ Cardinality(T(d)) \in Nat
      BY <2>1, TradedCounts DEF T
    <2>3. ~(d <= a - 3 * n - 2)
      BY <1>5, <2>1, <2>2
    <2>4. d \in first..a
      BY <2>1, <2>3
    <2>5. PICK i \in 1..len : days[i] = d
      BY <1>7, <2>1, <2>4
    <2>6. len - i + 1 <= n
      BY <1>4, <2>1, <2>5
    <2> QED
      BY <1>3, <2>5, <2>6
  <1>9. ASSUME NEW d \in L PROVE d \in D
    <2>1. PICK i \in (len - n + 1)..len : days[i] = d
      OBVIOUS
    <2>2. i \in 1..len
      BY <1>3, <1>6
    <2>3. d \in Int /\ d \in first..a /\ Trades(weekends, d) /\ Cardinality(T(d)) <= n
      BY <1>3, <1>4, <1>7, <2>1, <2>2
    <2>4. IsFiniteSet(T(d)) /\ Cardinality(T(d)) \in Nat
      BY <2>3, TradedCounts DEF T
    <2>5. ~(d <= a - 3 * n - 2)
      BY <1>5, <2>3, <2>4
    <2> QED
      BY <2>3, <2>5
  <1>10. DaysAre(last, L)
    BY <1>3, <1>6, LastDays
  <1>11. D = {d \in {d \in (a - 7 * n)..a : Cardinality(T(d)) <= n} : Trades(weekends, d)}
    OBVIOUS
  <1> HIDE DEF D, L
  <1>12. L = D
    BY <1>8, <1>9
  <1> HIDE DEF last
  <1> QED
    BY <1>1, <1>10, <1>11, <1>12 DEF HasDays, T

\* The exchange's hours lie within the day.
Midnight(d) == d * Axis!MinutesOfDay
LEMMA MidnightIs == ASSUME NEW d \in Int PROVE Midnight(d) \in Int
  BY DEF Midnight, Axis!MinutesOfDay
LEMMA MidnightsGrow ==
  ASSUME NEW d \in Int, NEW e \in Int, d < e PROVE Midnight(d) + 1440 <= Midnight(e)
  BY DEF Midnight, Axis!MinutesOfDay

\* When a day may open and close.
Opening(t, d) == t \in Int /\ Midnight(d) <= t /\ t <= Midnight(d) + 590
Closing(t, d) == t \in Int /\ Midnight(d) + 1140 <= t /\ t <= Midnight(d) + 1430
\* The usual hours of a day open in its morning and close in its evening (sessionBounds).
LEMMA UsualHours ==
  ASSUME NEW d \in Int
  PROVE  LET b == Axis!SessionBounds(d)
         IN  /\ Opening(b.start, d) /\ Closing(b.end, d)
             /\ Axis!DateOf(b.start) = d /\ Axis!DateOf(b.end) = d
  <1> DEFINE b == Axis!SessionBounds(d)
  <1>1. b.start \in {Midnight(d) + 590, Midnight(d) + 530} /\ b.end \in {Midnight(d) + 1140, Midnight(d) + 1430}
    BY DEF Axis!SessionBounds, Midnight
  <1> HIDE DEF b
  <1>2. \A m \in 0..1439 : (d * 1440 + m) \div 1440 = d
    OBVIOUS
  <1>3. Axis!DateOf(b.start) = d /\ Axis!DateOf(b.end) = d
    BY <1>1, <1>2 DEF Axis!DateOf, Axis!MinutesOfDay, Midnight
  <1> QED
    BY <1>1, <1>3, MidnightIs DEF b, Opening, Closing

\* A day that is not before another closes after that one opens.
LEMMA ClosesAfter ==
  ASSUME NEW x \in Int, NEW d \in Int, x <= d, NEW s, NEW e, Opening(s, x), Closing(e, d)
  PROVE  s \in Int /\ e \in Int /\ s < e
  <1>1. Midnight(x) \in Int /\ Midnight(d) \in Int /\ Midnight(x) <= Midnight(d)
    <2>1. x < d => Midnight(x) + 1440 <= Midnight(d)
      BY MidnightsGrow
    <2>2. Midnight(x) \in Int /\ Midnight(d) \in Int
      BY MidnightIs
    <2> QED
      BY <2>1, <2>2
  <1> QED
    BY <1>1 DEF Opening, Closing

\* The axis reaches back no further than the first date wanted.
LEMMA EarliestIs ==
  ASSUME NEW x \in Int, NEW a \in Int
  PROVE  Axis!Earliest(x, a) \in Int /\ Axis!Earliest(x, a) >= x
  <1>1. Axis!Reach \in Nat
    BY DEF Axis!Reach
  <1> QED
    BY <1>1 DEF Axis!Earliest

\* Every exchange day from the first date to the last, as far as the axis reaches (sessionsFrom).
LEMMA SessionsFromIs ==
  ASSUME NEW x \in Int, NEW a \in Int, NEW weekends
  PROVE  HasDays(Axis!SessionsFrom(Axis!SessionBounds(x).start, weekends, a),
                 Traded(weekends, Axis!Earliest(x, a), a))
  <1> DEFINE from == Axis!SessionBounds(x).start
             b == Axis!Earliest(x, a)
             days == Axis!ExchangeDays(b, a, weekends)
             n == Len(days)
             all == {i \in DOMAIN days : Axis!SessionBounds(days[i]).end >= from}
  <1>1. Opening(from, x) /\ Axis!DateOf(from) = x
    BY UsualHours
  <1>0. b \in Int /\ b >= x
    BY EarliestIs
  <1>2. DaysAre(days, Traded(weekends, b, a))
    BY <1>0, ExchangeDaysAre
  <1>3. Axis!SessionsFrom(from, weekends, a) = Axis!SessionsOn(Axis!Picked(days, all))
    BY <1>1, Zenon DEF Axis!SessionsFrom
  <1> HIDE DEF days, from, b
  <1>4. Ascending(days) /\ n \in Nat /\ DOMAIN days = 1..n /\ \A i \in 1..n : days[i] \in Int /\ days[i] >= x
    BY <1>0, <1>2 DEF DaysAre, Ascending, Traded
  <1>5. all = 1..n
    <2> SUFFICES ASSUME NEW i \in 1..n PROVE Axis!SessionBounds(days[i]).end >= from
      BY <1>4
    <2>1. days[i] \in Int /\ days[i] >= x
      BY <1>4
    <2>2. Closing(Axis!SessionBounds(days[i]).end, days[i])
      BY <2>1, UsualHours
    <2>3. from \in Int /\ Axis!SessionBounds(days[i]).end \in Int /\ from < Axis!SessionBounds(days[i]).end
      BY <1>1, <2>1, <2>2, ClosesAfter
    <2> QED
      BY <2>3
  <1> HIDE DEF all
  <1>6. DaysAre(Axis!Picked(days, 1..n), {days[i] : i \in 1..n})
    BY <1>4, PickedDays
  <1>7. {days[i] : i \in 1..n} = Traded(weekends, b, a)
    BY <1>0, <1>2, <1>4 DEF DaysAre, Traded
  <1> QED
    BY <1>3, <1>5, <1>6, <1>7 DEF HasDays, from, b

\* Counting in the axis is counting.
LEMMA AxisCounts == \A S : Axis!Cardinality(S) = Cardinality(S)
  BY Zenon DEF Axis!Cardinality, Cardinality

\* The calendar of a horizon lists its exchange days (OhsStore.applyTimeframe).
LEMMA CalendarIs ==
  ASSUME NEW v, Axis!IsHorizon(v), v.frame.kind # "all", today \in Int
  PROVE  HasDays(Axis!Calendar(v, today), {d \in Axis!HorizonDates(v) : Axis!Counts(v, d)})
  <1> DEFINE f == v.frame
             iw == Axis!GenIncludeWeekends(v)
             a == Axis!Anchor(v, today)
             n == Axis!SessionCount(f.unit, f.count, iw)
             D == Axis!HorizonDates(v)
  <1>1. a \in Int
    BY DEF Axis!Anchor
  <1>2. \A d : Axis!Counts(v, d) = Trades(iw, d)
    BY DEF Axis!Counts, Trades
  <1>3. \A d \in Int : {e \in d..a : Axis!Counts(v, e)} = Traded(iw, d, a)
    BY <1>2 DEF Traded
  <1>4. Axis!IsFrame(f) /\ f # Axis!All
    BY DEF Axis!IsHorizon, Axis!All
  <1> HIDE DEF f, iw, a
  <1>5. CASE f.kind = "sessions" /\ Axis!ByHours(f)
    <2>1. f.unit \in {"D", "W"} /\ f.count \in Nat \ {0}
      BY <1>4, <1>5 DEF Axis!IsFrame, Axis!ByHours
    <2>2. n = (IF f.unit = "D" THEN f.count ELSE f.count * (IF iw THEN 7 ELSE 5)) /\ n \in Nat \ {0}
      BY <2>1 DEF Axis!SessionCount
    <2>3. Axis!Calendar(v, today) = Axis!RecentSessions(n, iw, a)
      BY <1>5 DEF Axis!Calendar, f, iw, a
    <2>4. D = {d \in (a - 7 * n)..a : Axis!Cardinality({e \in d..a : Axis!Counts(v, e)}) <= n}
      <3>1. ~(f.kind = "range") /\ ~(f.kind = "sessions" /\ ~Axis!ByHours(f))
        BY <1>5
      <3> DEFINE m == IF f.unit = "D" THEN f.count ELSE f.count * (IF iw THEN 7 ELSE 5)
      <3>2. D = {d \in (a - 7 * m)..a : Axis!Cardinality({e \in d..a : Axis!Counts(v, e)}) <= m}
        BY <3>1, Zenon DEF Axis!HorizonDates, f, iw, a
      <3>3. n = m
        BY <2>2
      <3> HIDE DEF D, m, n
      <3> QED
        BY <3>2, <3>3, Zenon
    <2> HIDE DEF n, D
    <2>5. D = {d \in (a - 7 * n)..a : Cardinality(Traded(iw, d, a)) <= n}
      <3>1. \A d \in (a - 7 * n)..a : d \in Int
        BY <1>1, <2>2
      <3>2. \A d \in (a - 7 * n)..a : Axis!Cardinality({e \in d..a : Axis!Counts(v, e)}) = Cardinality(Traded(iw, d, a))
        BY <1>3, <3>1, AxisCounts, Zenon
      <3> QED
        BY <2>4, <3>2
    <2>6. HasDays(Axis!RecentSessions(n, iw, a), {d \in D : Trades(iw, d)})
      BY <1>1, <2>2, <2>5, RecentIs
    <2>7. {d \in D : Axis!Counts(v, d)} = {d \in D : Trades(iw, d)}
      BY <1>2
    <2> QED
      BY <2>3, <2>6, <2>7 DEF D
  <1>6. CASE f.kind = "sessions" /\ ~Axis!ByHours(f)
    <2>1. f.unit \in {"M", "Q", "Y"} /\ f.count \in Nat
      BY <1>4, <1>6 DEF Axis!IsFrame, Axis!ByHours
    <2> DEFINE x == a - UnitDays[f.unit] * f.count
               b == Axis!Earliest(x, a)
    <2>2. x \in Int
      BY <1>1, <2>1, AxisAssumption
    <2>3. Axis!Calendar(v, today) = Axis!SessionsFrom(Axis!SessionBounds(x).start, iw, a)
      BY <1>6 DEF Axis!Calendar, f, iw, a
    <2>4. D = b..a
      BY <1>6 DEF Axis!HorizonDates, f, iw, a
    <2> HIDE DEF x, D
    <2>5. HasDays(Axis!SessionsFrom(Axis!SessionBounds(x).start, iw, a), Traded(iw, b, a))
      BY <1>1, <2>2, SessionsFromIs
    <2> HIDE DEF b
    <2>6. {d \in D : Axis!Counts(v, d)} = Traded(iw, b, a)
      BY <1>2, <2>4 DEF Traded
    <2> QED
      BY <2>3, <2>5, <2>6 DEF D
  <1>7. CASE f.kind = "range"
    <2>1. f.from \in Int /\ f.to \in Int /\ f.from <= f.to
      BY <1>4, <1>7 DEF Axis!IsFrame
    <2> DEFINE s == Axis!SessionBounds(f.from).start
               e == Axis!SessionBounds(f.to).end
               first == CHOOSE t \in {s, e} : \A u \in {s, e} : t <= u
               last == CHOOSE t \in {s, e} : \A u \in {s, e} : t >= u
    <2>2. Opening(s, f.from)
      BY <2>1, UsualHours
    <2>3. Closing(e, f.to) /\ Axis!DateOf(e) = f.to
      BY <2>1, UsualHours
    <2>4. s \in Int /\ e \in Int /\ s < e
      BY <2>1, <2>2, <2>3, ClosesAfter
    <2>5. Axis!Calendar(v, today) = Axis!SessionsFrom(first, iw, Axis!DateOf(last))
      <3>1. ~Axis!ByHours(f) /\ f.kind # "sessions"
        BY <1>7 DEF Axis!ByHours
      <3> QED
        BY <1>7, <3>1 DEF Axis!Calendar, f, iw
    <2> DEFINE b == Axis!Earliest(f.from, f.to)
    <2>6. D = b..f.to
      BY <1>7 DEF Axis!HorizonDates, f
    <2> HIDE DEF s, e, D
    <2>7. first = s /\ last = e
      BY <2>4
    <2>8. HasDays(Axis!SessionsFrom(s, iw, f.to), Traded(iw, b, f.to))
      BY <2>1, SessionsFromIs DEF s
    <2> HIDE DEF b
    <2>9. {d \in D : Axis!Counts(v, d)} = Traded(iw, b, f.to)
      BY <1>2, <2>6 DEF Traded
    <2> HIDE DEF first, last
    <2> QED
      BY <2>3, <2>5, <2>7, <2>8, <2>9 DEF D
  <1> QED
    BY <1>4, <1>5, <1>6, <1>7 DEF Axis!IsFrame

\* The days of an axis: one after the other, each within its own day.
DaySession == [date : Int, start : Int, end : Int, inner : SUBSET Span]
Within(t, d) == t \in Int /\ Midnight(d) <= t /\ t <= Midnight(d) + 1440
IsCalendar(c) ==
  /\ c \in Seq(DaySession)
  /\ \A i \in 1..Len(c) : Within(c[i].start, c[i].date) /\ Within(c[i].end, c[i].date)
  /\ \A i, j \in 1..Len(c) : i < j => c[i].date < c[j].date

\* The hours the days have: the known ones, or the usual.
HoursOf(known, d) == IF d \in DOMAIN known THEN known[d] ELSE Axis!SessionBounds(d)
HasHours(c, known) ==
  \A i \in 1..Len(c) : LET h == HoursOf(known, c[i].date) IN c[i].start = h.start /\ c[i].end = h.end

\* What opens or closes a day lies within it.
LEMMA OfTheDay ==
  ASSUME NEW d \in Int, NEW t, Opening(t, d) \/ Closing(t, d)
  PROVE  t \in Int /\ Within(t, d)
  BY MidnightIs DEF Opening, Closing, Within

\* A calendar built of ascending days (sessionBounds of each).
LEMMA CalendarOfDays ==
  ASSUME NEW days, Ascending(days)
  PROVE  LET c == Axis!SessionsOn(days)
         IN  /\ IsCalendar(c) /\ Len(c) = Len(days) /\ \A i \in 1..Len(days) : c[i] = Axis!SessionOn(days[i])
             /\ \A i \in 1..Len(days) : c[i].date = days[i]
  <1> DEFINE c == Axis!SessionsOn(days)
             n == Len(days)
  <1>1. n \in Nat /\ DOMAIN days = 1..n /\ \A i \in 1..n : days[i] \in Int
    BY DEF Ascending
  <1>2. c = [i \in 1..n |-> Axis!SessionOn(days[i])]
    BY <1>1 DEF Axis!SessionsOn
  <1>3. ASSUME NEW d \in Int
        PROVE  LET s == Axis!SessionOn(d)
               IN  /\ s \in DaySession /\ s.date = d /\ Within(s.start, d) /\ Within(s.end, d)
                   /\ s.start = Axis!SessionBounds(d).start /\ s.end = Axis!SessionBounds(d).end
    <2> DEFINE b == Axis!SessionBounds(d)
    <2>1. b.start \in Int /\ b.end \in Int /\ Within(b.start, d) /\ Within(b.end, d)
      BY UsualHours, OfTheDay
    <2> HIDE DEF b
    <2>2. Axis!SessionOn(d) = [date |-> d, start |-> b.start, end |-> b.end, inner |-> {}]
      BY DEF Axis!SessionOn, b
    <2> QED
      BY <2>1, <2>2 DEF DaySession, b
  <1> HIDE DEF c, n
  <1>4. c \in Seq(DaySession) /\ Len(c) = n /\ \A i \in 1..n : c[i] = Axis!SessionOn(days[i])
    BY <1>1, <1>2, <1>3
  <1>5. \A i \in 1..n : c[i].date = days[i] /\ Within(c[i].start, c[i].date) /\ Within(c[i].end, c[i].date)
    BY <1>1, <1>3, <1>4
  <1>6. \A i, j \in 1..n : i < j => c[i].date < c[j].date
    BY <1>5 DEF Ascending, n
  <1> QED
    BY <1>4, <1>5, <1>6 DEF IsCalendar, c, n

\* Hours that lie within their day.
HeardOK(known) == \A d \in DOMAIN known : Within(known[d].start, d) /\ Within(known[d].end, d)

\* The server's hours leave the days and their order (mergeSessionHours).
LEMMA MergedIs ==
  ASSUME NEW c, IsCalendar(c), HasHours(c, <<>>), NEW known, HeardOK(known)
  PROVE  LET m == Axis!MergeSessionHours(c, known)
         IN  /\ IsCalendar(m) /\ HasHours(m, known) /\ Len(m) = Len(c)
             /\ \A i \in 1..Len(c) : m[i].date = c[i].date
  <1> DEFINE m == Axis!MergeSessionHours(c, known)
             n == Len(c)
             h(i) == HoursOf(known, c[i].date)
  <1>1. n \in Nat /\ DOMAIN c = 1..n /\ \A i \in 1..n : c[i] \in DaySession
    BY DEF IsCalendar
  <1>2. \A i \in 1..n : c[i].date \in Int /\ c[i].start \in Int /\ c[i].end \in Int /\ c[i].inner \in SUBSET Span
    BY <1>1 DEF DaySession
  <1>3. \A i \in 1..n : Within(c[i].start, c[i].date) /\ Within(c[i].end, c[i].date)
    BY DEF IsCalendar
  <1>4. \A i \in 1..n : c[i].start = Axis!SessionBounds(c[i].date).start /\ c[i].end = Axis!SessionBounds(c[i].date).end
    <2>1. \A d : d \notin DOMAIN <<>>
      OBVIOUS
    <2> QED
      BY <2>1 DEF HasHours, HoursOf
  <1>5. m = [i \in 1..n |-> IF c[i].date \in DOMAIN known
                             THEN [c[i] EXCEPT !.start = known[c[i].date].start, !.end = known[c[i].date].end]
                           ELSE c[i]]
    BY <1>1 DEF Axis!MergeSessionHours
  <1> HIDE DEF m, n
  <1>6. ASSUME NEW i \in 1..n
        PROVE  /\ m[i] \in DaySession /\ m[i].date = c[i].date
               /\ Within(m[i].start, c[i].date) /\ Within(m[i].end, c[i].date)
               /\ m[i].start = h(i).start /\ m[i].end = h(i).end
    <2> DEFINE d == c[i].date
    <2>1. CASE d \in DOMAIN known
      <3>1. m[i] = [c[i] EXCEPT !.start = known[d].start, !.end = known[d].end]
        BY <1>5, <2>1
      <3>2. Within(known[d].start, d) /\ Within(known[d].end, d)
        BY <2>1 DEF HeardOK
      <3>3. known[d].start \in Int /\ known[d].end \in Int
        BY <3>2 DEF Within
      <3>4. m[i] \in DaySession /\ m[i].date = d /\ m[i].start = known[d].start /\ m[i].end = known[d].end
        BY <1>1, <3>1, <3>3 DEF DaySession
      <3>5. h(i) = known[d]
        BY <2>1 DEF HoursOf
      <3> QED
        BY <3>2, <3>4, <3>5
    <2>2. CASE d \notin DOMAIN known
      <3>1. m[i] = c[i]
        BY <1>5, <2>2
      <3>2. h(i) = Axis!SessionBounds(d)
        BY <2>2 DEF HoursOf
      <3> QED
        BY <1>1, <1>3, <1>4, <3>1, <3>2
    <2> QED
      BY <2>1, <2>2
  <1> HIDE DEF h
  <1>7. m \in Seq(DaySession) /\ Len(m) = n
    <2>1. \A i \in 1..n : m[i] \in DaySession
      BY <1>6
    <2>2. \E f : m = [i \in 1..n |-> f[i]]
      <3> DEFINE f == [i \in 1..n |-> IF c[i].date \in DOMAIN known
                             THEN [c[i] EXCEPT !.start = known[c[i].date].start, !.end = known[c[i].date].end]
                           ELSE c[i]]
      <3>1. f = [i \in 1..n |-> f[i]]
        OBVIOUS
      <3> HIDE DEF f
      <3> QED
        BY <1>5, <3>1, Zenon DEF f
    <2> QED
      BY <1>1, <2>1, <2>2
  <1>8. \A i, j \in 1..n : i < j => m[i].date < m[j].date
    BY <1>6 DEF IsCalendar, n
  <1>9. IsCalendar(m)
    BY <1>6, <1>7, <1>8 DEF IsCalendar
  <1>10. HasHours(m, known)
    BY <1>6, <1>7 DEF HasHours, h
  <1> QED
    BY <1>6, <1>7, <1>9, <1>10 DEF m, n

\* A day with nothing heard of it has the usual hours.
LEMMA UnheardIs ==
  ASSUME NEW c, c \in Seq(DaySession) PROVE Axis!MergeSessionHours(c, <<>>) = c
  <1>1. \A d : d \notin DOMAIN <<>>
    OBVIOUS
  <1>2. Axis!MergeSessionHours(c, <<>>) = [i \in DOMAIN c |-> c[i]]
    BY <1>1 DEF Axis!MergeSessionHours
  <1> QED
    BY <1>2

DayMinutes == 0..Axis!MinutesOfDay
At(d, m) == Midnight(d) + m
\* A minute of the day lies within the day.
LEMMA MinutesWithin ==
  ASSUME NEW d \in Int, NEW m \in DayMinutes PROVE Within(At(d, m), d)
  <1>1. Midnight(d) \in Int
    BY MidnightIs
  <1> DEFINE midnight == Midnight(d)
  <1>2. midnight \in Int
    BY <1>1
  <1> HIDE DEF midnight
  <1>3. midnight + m \in Int /\ midnight <= midnight + m /\ midnight + m <= midnight + 1440
    BY <1>2 DEF DayMinutes, Axis!MinutesOfDay
  <1> QED
    BY <1>3, Zenon DEF Within, midnight, At

\* What the server answers of a day lies within it.
LEMMA KnownIs ==
  ASSUME NEW c, IsCalendar(c), NEW hours \in Hours, today \in Int
  PROVE  HeardOK(Axis!Known(c, hours))
  <1> DEFINE dates == {c[i].date : i \in DOMAIN c} \cap {d \in (today - 400)..today : hours # {}}
             h == CHOOSE h \in hours : TRUE
             x == h.start
             y == h.end
             k == Axis!Known(c, hours)
  <1>1. k = [d \in dates |-> [start |-> At(d, x), end |-> At(d, y)]]
    BY Zenon DEF Axis!Known, Midnight, At
  <1>2. \A d \in dates : d \in Int /\ hours # {}
    OBVIOUS
  <1>3. hours # {} => h \in hours
    OBVIOUS
  <1> HIDE DEF dates, h, k, x, y
  <1>4. ASSUME NEW d \in dates PROVE Within(k[d].start, d) /\ Within(k[d].end, d)
    <2>1. d \in Int /\ x \in DayMinutes /\ y \in DayMinutes
      BY <1>2, <1>3, AxisAssumption DEF DayMinutes, x, y
    <2>2. k[d].start = At(d, x) /\ k[d].end = At(d, y)
      BY <1>1
    <2>4. Within(At(d, x), d)
      BY <2>1, MinutesWithin
    <2>5. Within(At(d, y), d)
      BY <2>1, MinutesWithin
    <2> QED
      BY <2>2, <2>4, <2>5
  <1>5. DOMAIN k = dates
    BY <1>1
  <1> QED
    BY <1>4, <1>5 DEF HeardOK, k

\* A day as the filter draws it (reshapeDay).
DrawMode == [mode : {"none", "session", "custom"}, from : DayMinutes, to : DayMinutes]
\* The zone of trade of a day, and the day as it is to be drawn around it.
ZoneOf(date, hours, mode) ==
  IF mode.mode = "custom" THEN [from |-> Midnight(date) + mode.from, to |-> Midnight(date) + mode.to]
  ELSE [from |-> hours.start, to |-> hours.end]
DrawnIn(r, full, mode, midnight, zone) ==
  IF mode.mode = "none" THEN r.start = midnight /\ r.end = midnight + 1440 /\ r.inner = {}
  ELSE IF full THEN r.start = midnight /\ r.end = midnight + 1440 /\ r.inner = {zone}
  ELSE r.start = zone.from /\ r.end = zone.to /\ r.inner = {}
\* A day as the filter draws it stays that day and within it (reshapeDay).
LEMMA ReshapedIs ==
  ASSUME NEW s \in DaySession, Within(s.start, s.date), Within(s.end, s.date), NEW mode \in DrawMode, NEW full
  PROVE  LET r == Axis!ReshapeDay(s, full, mode)
         IN  /\ r \in DaySession /\ r.date = s.date /\ Within(r.start, s.date) /\ Within(r.end, s.date)
             /\ DrawnIn(r, full, mode, Midnight(s.date), ZoneOf(s.date, s, mode))
  <1> DEFINE r == Axis!ReshapeDay(s, full, mode)
             midnight == Midnight(s.date)
             late == midnight + Axis!MinutesOfDay
             x == mode.from
             y == mode.to
             custom == [from |-> midnight + x, to |-> midnight + y]
             hours == [from |-> s.start, to |-> s.end]
             zone == IF mode.mode = "custom" THEN custom ELSE hours
             Z == CASE mode.mode = "session" -> {hours} [] mode.mode = "custom" -> {custom} [] OTHER -> {}
  <1>0. r = IF full \/ Z = {} THEN [s EXCEPT !.start = midnight, !.end = late, !.inner = Z]
            ELSE [s EXCEPT !.start = (CHOOSE z \in Z : TRUE).from, !.end = (CHOOSE z \in Z : TRUE).to, !.inner = {}]
    BY Zenon DEF Axis!ReshapeDay, Midnight
  <1> HIDE DEF r
  <1>1. s.date \in Int /\ s.start \in Int /\ s.end \in Int
    BY DEF DaySession
  <1>2. mode.mode \in {"none", "session", "custom"} /\ x \in DayMinutes /\ y \in DayMinutes
    BY DEF DrawMode
  <1> HIDE DEF x, y
  <1>3. midnight \in Int /\ late = midnight + 1440
    BY <1>1, MidnightIs DEF Axis!MinutesOfDay
  <1>4. Within(midnight, s.date)
    BY <1>3 DEF Within
  <1>5. late \in Int /\ Within(late, s.date)
    BY <1>3 DEF Within
  <1>6. midnight + x \in Int /\ Within(midnight + x, s.date)
    BY <1>2, <1>3 DEF Within, DayMinutes, Axis!MinutesOfDay
  <1>7. midnight + y \in Int /\ Within(midnight + y, s.date)
    BY <1>2, <1>3 DEF Within, DayMinutes, Axis!MinutesOfDay
  <1> HIDE DEF midnight, late
  <1>9. custom \in Span /\ hours \in Span
    BY <1>1, <1>6, <1>7 DEF Span
  <1>10. zone \in Span /\ Within(zone.from, s.date) /\ Within(zone.to, s.date)
    BY <1>1, <1>6, <1>7, <1>9
  <1>11. Z = IF mode.mode = "none" THEN {} ELSE {zone}
    <2> HIDE DEF custom, hours
    <2> QED
      BY <1>2
  <1> HIDE DEF Z, zone, custom, hours
  <1>13. CASE full \/ mode.mode = "none"
    <2>1. full \/ Z = {}
      BY <1>11, <1>13
    <2>0. r = [s EXCEPT !.start = midnight, !.end = late, !.inner = Z]
      BY <1>0, <2>1, Zenon
    <2>2. Z \in SUBSET Span
      BY <1>10, <1>11
    <2>3. r \in DaySession /\ r.date = s.date /\ r.start = midnight /\ r.end = late /\ r.inner = Z
      <3>1. s = [date |-> s.date, start |-> s.start, end |-> s.end, inner |-> s.inner]
        BY DEF DaySession
      <3>2. r = [date |-> s.date, start |-> midnight, end |-> late, inner |-> Z]
        BY <2>0, <3>1
      <3> QED
        BY <1>1, <1>3, <1>5, <2>2, <3>2 DEF DaySession
    <2> QED
      BY <1>3, <1>4, <1>5, <1>11, <1>13, <2>3 DEF r, zone, custom, hours, midnight, x, y, DrawnIn, ZoneOf
  <1>14. CASE ~full /\ mode.mode # "none"
    <2>1. Z = {zone} /\ Z # {}
      BY <1>11, <1>14
    <2>2. (CHOOSE z \in Z : TRUE) = zone
      BY <2>1
    <2>3. r = [s EXCEPT !.start = zone.from, !.end = zone.to, !.inner = {}]
      BY <1>0, <1>14, <2>1, <2>2
    <2>4. zone.from \in Int /\ zone.to \in Int
      BY <1>10 DEF Span
    <2>5. r \in DaySession /\ r.date = s.date /\ r.start = zone.from /\ r.end = zone.to /\ r.inner = {}
      BY <1>1, <2>3, <2>4 DEF DaySession
    <2> QED
      BY <1>10, <1>14, <2>5 DEF r, zone, custom, hours, midnight, x, y, DrawnIn, ZoneOf
  <1> QED
    BY <1>13, <1>14

\* A smart window has been resolved before a day is drawn (resolveSession).
LEMMA ResolvedIs ==
  ASSUME NEW v, Axis!IsHorizon(v) PROVE Axis!ResolveSession(v) \in DrawMode
  <1> DEFINE w == v.filter.session
  <1>1. w \in [mode : {"none", "session", "smart", "custom"}, from : DayMinutes, to : DayMinutes]
    BY DEF Axis!IsHorizon, Axis!IsFilter, DayMinutes
  <1> HIDE DEF w
  <1>2. 0 \in DayMinutes
    BY DEF DayMinutes, Axis!MinutesOfDay
  <1>3. Axis!Mode("none") \in DrawMode /\ Axis!Mode("session") \in DrawMode
    BY <1>2 DEF Axis!Mode, DrawMode
  <1>4. w.mode # "smart" => w \in DrawMode
    BY <1>1 DEF DrawMode
  <1> QED
    BY <1>3, <1>4 DEF Axis!ResolveSession, w

\* The days the filter keeps, each as it draws them (shapeSessions).
LEMMA ShapedIs ==
  ASSUME NEW v, Axis!IsHorizon(v), NEW c, IsCalendar(c)
  PROVE  LET s == Axis!ShapeSessions(v, c)
             places == {i \in 1..Len(c) : Axis!Weekday(c[i].date) \in v.filter.weekdays}
             drawn(i) == Axis!ReshapeDay(c[i], v.filter.fullDay, Axis!ResolveSession(v))
         IN  /\ IsCalendar(s)
             /\ \A i \in 1..Len(s) : \E l \in places : s[i] = drawn(l)
             /\ \A l \in places : \E i \in 1..Len(s) : s[i] = drawn(l)
  <1> DEFINE s == Axis!ShapeSessions(v, c)
             places == {i \in 1..Len(c) : Axis!Weekday(c[i].date) \in v.filter.weekdays}
             mode == Axis!ResolveSession(v)
             full == v.filter.fullDay
             D(x) == Axis!ReshapeDay(x, full, mode)
             kept == Axis!Picked(c, places)
             n == Len(kept)
  <1>1. c \in Seq(DaySession) /\ DOMAIN c = 1..Len(c)
    BY DEF IsCalendar
  <1>2. s = [i \in DOMAIN kept |-> D(kept[i])]
    BY <1>1 DEF Axis!ShapeSessions
  <1>3. kept \in Seq(DaySession) /\ PickedTo(c, places, Len(c), kept)
    BY <1>1, PickedIs
  <1>4. mode \in DrawMode
    BY ResolvedIs
  <1> HIDE DEF s, mode, full, kept
  <1>5. n \in Nat /\ DOMAIN kept = 1..n /\ \A i \in 1..n : kept[i] \in DaySession
    BY <1>3
  <1>6. ASSUME NEW i \in 1..Len(c)
        PROVE  /\ D(c[i]) \in DaySession /\ D(c[i]).date = c[i].date
               /\ Within(D(c[i]).start, c[i].date) /\ Within(D(c[i]).end, c[i].date)
    <2>1. c[i] \in DaySession /\ Within(c[i].start, c[i].date) /\ Within(c[i].end, c[i].date)
      BY <1>1 DEF IsCalendar
    <2> QED
      BY <1>4, <2>1, ReshapedIs
  <1> HIDE DEF D
  <1>7. \A i \in 1..n : \E l \in places : kept[i] = c[l]
    BY <1>3 DEF PickedTo
  <1>8. \A l \in places : \E i \in 1..n : kept[i] = c[l]
    BY <1>3 DEF PickedTo
  <1>9. \A i \in 1..n : s[i] = D(kept[i]) /\ s[i] \in DaySession
    <2>1. \A i \in 1..n : s[i] = D(kept[i])
      BY <1>2, <1>5
    <2> QED
      BY <1>6, <1>7, <2>1
  <1>10. s \in Seq(DaySession) /\ Len(s) = n
    <2>1. \E f : s = [i \in 1..n |-> f[i]]
      BY <1>2, <1>5
    <2> QED
      BY <1>5, <1>9, <2>1
  <1>11. \A i \in 1..n : Within(s[i].start, s[i].date) /\ Within(s[i].end, s[i].date)
    BY <1>6, <1>7, <1>9
  <1>12. ASSUME NEW i \in 1..n, NEW j \in 1..n, i < j PROVE s[i].date < s[j].date
    <2>1. PICK l \in 1..Len(c), m \in 1..Len(c) : l < m /\ kept[i] = c[l] /\ kept[j] = c[m]
      BY <1>3, <1>12 DEF PickedTo
    <2>2. s[i].date = c[l].date /\ s[j].date = c[m].date
      BY <1>6, <1>9, <2>1
    <2>3. c[l].date < c[m].date
      BY <2>1 DEF IsCalendar
    <2> QED
      BY <2>2, <2>3
  <1>13. IsCalendar(s)
    BY <1>10, <1>11, <1>12 DEF IsCalendar
  <1>14. \A i \in 1..Len(s) : \E l \in places : s[i] = D(c[l])
    BY <1>7, <1>9, <1>10
  <1>15. \A l \in places : \E i \in 1..Len(s) : s[i] = D(c[l])
    BY <1>8, <1>9, <1>10
  <1> QED
    BY <1>13, <1>14, <1>15 DEF s, mode, full, D

LEMMA NextMidnight == ASSUME NEW d \in Int PROVE (d + 1) * Axis!MinutesOfDay = Midnight(d) + 1440
  BY DEF Midnight, Axis!MinutesOfDay

\* A day as the filter draws it is a day as it is to be drawn.
LEMMA DrawnIs ==
  ASSUME NEW v, Axis!IsHorizon(v), NEW s \in DaySession, Within(s.start, s.date), Within(s.end, s.date),
         LET h == HoursOf(axisHeard, s.date) IN s.start = h.start /\ s.end = h.end
  PROVE  Axis!DrawnAs(v, Axis!ReshapeDay(s, v.filter.fullDay, Axis!ResolveSession(v)))
  <1> DEFINE mode == Axis!ResolveSession(v)
             full == v.filter.fullDay
             r == Axis!ReshapeDay(s, full, mode)
             h == HoursOf(axisHeard, s.date)
             midnight == Midnight(s.date)
             late == (s.date + 1) * Axis!MinutesOfDay
             zone == ZoneOf(s.date, h, mode)
             drawn == [from |-> r.start, to |-> r.end]
  <1>1. s.date \in Int
    BY DEF DaySession
  <1>2. late = midnight + 1440
    BY <1>1, NextMidnight
  <1>3. s.start = h.start /\ s.end = h.end
    OBVIOUS
  <1>4. r.date = s.date /\ DrawnIn(r, full, mode, midnight, ZoneOf(s.date, s, mode))
    <2>1. mode \in DrawMode
      BY ResolvedIs
    <2> HIDE DEF mode, full, h
    <2> QED
      BY <2>1, ReshapedIs
  <1>5. Axis!DrawnAs(v, r) =
          LET day == [from |-> midnight, to |-> late]
          IN  IF mode.mode = "none" THEN drawn = day /\ r.inner = {}
              ELSE IF full THEN drawn = day /\ r.inner = {zone}
              ELSE drawn = zone /\ r.inner = {}
    <2> DEFINE says(d) ==
                 LET day == [from |-> d * Axis!MinutesOfDay, to |-> (d + 1) * Axis!MinutesOfDay]
                     usual == IF d \in DOMAIN axisHeard THEN axisHeard[d] ELSE Axis!SessionBounds(d)
                     z == IF mode.mode = "custom" THEN [from |-> day.from + mode.from, to |-> day.from + mode.to]
                          ELSE [from |-> usual.start, to |-> usual.end]
                 IN  IF mode.mode = "none" THEN drawn = day /\ r.inner = {}
                     ELSE IF full THEN drawn = day /\ r.inner = {z}
                     ELSE drawn = z /\ r.inner = {}
    <2> HIDE DEF r
    <2>1. Axis!DrawnAs(v, r) = says(r.date)
      BY Zenon DEF Axis!DrawnAs
    <2>2. r.date = s.date
      BY <1>4
    <2>3. Axis!DrawnAs(v, r) = says(s.date)
      BY <2>1, <2>2, Zenon
    <2>4. [from |-> midnight, to |-> late].from = midnight
      OBVIOUS
    <2> HIDE DEF mode, full, drawn
    <2> QED
      BY <2>3, <2>4, Zenon DEF HoursOf, Midnight, ZoneOf
  <1>6. zone = [from |-> zone.from, to |-> zone.to] /\ zone = ZoneOf(s.date, s, mode)
    BY <1>3 DEF ZoneOf
  <1> HIDE DEF r, mode, full, midnight, late, zone
  <1>7. Axis!DrawnAs(v, r)
    <2>1. CASE mode.mode = "none"
      <3>1. r.start = midnight /\ r.end = late /\ r.inner = {}
        BY <1>2, <1>4, <2>1 DEF DrawnIn
      <3> QED
        BY <1>5, <2>1, <3>1, Zenon
    <2>2. CASE mode.mode # "none" /\ full
      <3>1. r.start = midnight /\ r.end = late /\ r.inner = {zone}
        BY <1>2, <1>4, <1>6, <2>2 DEF DrawnIn
      <3> QED
        BY <1>5, <2>2, <3>1, Zenon
    <2>3. CASE mode.mode # "none" /\ ~full
      <3>1. drawn = zone /\ r.inner = {}
        BY <1>4, <1>6, <2>3 DEF DrawnIn
      <3> QED
        BY <1>5, <2>3, <3>1, Zenon
    <2> QED
      BY <2>1, <2>2, <2>3
  <1> QED
    BY <1>7 DEF r, mode, full

\* The calendar of a horizon, whichever the horizon.
LEMMA CalendarDays ==
  ASSUME NEW v, Axis!IsHorizon(v), today \in Int
  PROVE  LET c == Axis!Calendar(v, today)
         IN  /\ IsCalendar(c) /\ HasHours(c, <<>>)
             /\ v.frame.kind # "all" =>
                  \A d \in Int : (\E i \in 1..Len(c) : c[i].date = d) <=> d \in Axis!HorizonDates(v) /\ Axis!Counts(v, d)
  <1> DEFINE c == Axis!Calendar(v, today)
             D == {d \in Axis!HorizonDates(v) : Axis!Counts(v, d)}
  <1>1. CASE v.frame.kind = "all"
    <2>1. c = <<>>
      BY <1>1 DEF Axis!Calendar, Axis!ByHours
    <2>2. IsCalendar(<<>>) /\ HasHours(<<>>, <<>>)
      BY DEF IsCalendar, HasHours
    <2> QED
      BY <1>1, <2>1, <2>2
  <1>2. CASE v.frame.kind # "all"
    <2>1. PICK days : DaysAre(days, D) /\ c = Axis!SessionsOn(days)
      BY <1>2, CalendarIs DEF HasDays
    <2> HIDE DEF c, D
    <2>2. Ascending(days) /\ \A i \in 1..Len(days) : days[i] \in Int
      BY <2>1 DEF DaysAre, Ascending
    <2>3. IsCalendar(c) /\ Len(c) = Len(days) /\ \A i \in 1..Len(days) : c[i] = Axis!SessionOn(days[i]) /\ c[i].date = days[i]
      BY <2>1, <2>2, CalendarOfDays
    <2>4. HasHours(c, <<>>)
      <3>1. \A d : HoursOf(<<>>, d) = Axis!SessionBounds(d)
        BY DEF HoursOf
      <3>2. \A d : Axis!SessionOn(d).start = Axis!SessionBounds(d).start /\ Axis!SessionOn(d).end = Axis!SessionBounds(d).end
        BY DEF Axis!SessionOn
      <3> QED
        BY <2>3, <3>1, <3>2 DEF HasHours
    <2>5. \A d \in Int : (\E i \in 1..Len(c) : c[i].date = d) <=> d \in D
      BY <2>1, <2>3 DEF DaysAre
    <2> QED
      BY <2>3, <2>4, <2>5 DEF c, D
  <1> QED
    BY <1>1, <1>2

LEMMA HorizonIsInt ==
  ASSUME NEW v, Axis!IsHorizon(v), v.frame.kind # "all", today \in Int, NEW d \in Axis!HorizonDates(v)
  PROVE  d \in Int
  <1>1. \A x, y : \A e \in x..y : e \in Int
    OBVIOUS
  <1> QED
    BY <1>1, Zenon DEF Axis!HorizonDates

\* The axis published of a horizon and of the hours heard since shows just that horizon
\* (OhsStore.publishSessions, timelineFilter.shapeSessions, tradingSession).
THEOREM AxisShows ==
  ASSUME NEW v, Axis!IsHorizon(v), v.frame.kind # "all", today \in Int, HeardOK(axisHeard),
         NEW s, s = Axis!ShapeSessions(v, Axis!MergeSessionHours(Axis!Calendar(v, today), axisHeard))
  PROVE  /\ {s[i].date : i \in DOMAIN s} = Axis!ChosenDates(v)
         /\ \A i \in 1..(Len(s) - 1) : s[i].date < s[i + 1].date
         /\ \A i \in DOMAIN s : Axis!DrawnAs(v, s[i])
  <1> DEFINE c0 == Axis!Calendar(v, today)
             c == Axis!MergeSessionHours(c0, axisHeard)
             W == v.filter.weekdays
             H == Axis!HorizonDates(v)
             places == {i \in 1..Len(c) : Axis!Weekday(c[i].date) \in W}
             R(x) == Axis!ReshapeDay(x, v.filter.fullDay, Axis!ResolveSession(v))
  <1>1. /\ IsCalendar(c0) /\ HasHours(c0, <<>>)
        /\ \A d \in Int : (\E i \in 1..Len(c0) : c0[i].date = d) <=> d \in H /\ Axis!Counts(v, d)
    BY CalendarDays
  <1> HIDE DEF c0
  <1>2. IsCalendar(c) /\ HasHours(c, axisHeard) /\ Len(c) = Len(c0) /\ \A i \in 1..Len(c0) : c[i].date = c0[i].date
    BY <1>1, MergedIs
  <1>3. s = Axis!ShapeSessions(v, c)
    BY DEF c0
  <1> HIDE DEF c
  <1>4. /\ IsCalendar(s)
        /\ \A i \in 1..Len(s) : \E l \in places : s[i] = R(c[l])
        /\ \A l \in places : \E i \in 1..Len(s) : s[i] = R(c[l])
    <2> DEFINE S == Axis!ShapeSessions(v, c)
    <2>1. /\ IsCalendar(S)
          /\ \A i \in 1..Len(S) : \E l \in places : S[i] = R(c[l])
          /\ \A l \in places : \E i \in 1..Len(S) : S[i] = R(c[l])
      BY <1>2, ShapedIs, Zenon
    <2>2. s = S
      BY <1>3
    <2> HIDE DEF S, R, places
    <2> QED
      BY <2>1, <2>2
  <1>5. ASSUME NEW l \in 1..Len(c)
        PROVE  /\ c[l] \in DaySession /\ Within(c[l].start, c[l].date) /\ Within(c[l].end, c[l].date) /\ c[l].date \in Int
               /\ LET h == HoursOf(axisHeard, c[l].date) IN c[l].start = h.start /\ c[l].end = h.end
    <2>1. c[l] \in DaySession
      BY <1>2 DEF IsCalendar
    <2>2. c[l].date \in Int
      BY <2>1 DEF DaySession
    <2> QED
      BY <1>2, <2>1, <2>2 DEF IsCalendar, HasHours
  <1>6. ASSUME NEW l \in 1..Len(c) PROVE R(c[l]).date = c[l].date /\ Axis!DrawnAs(v, R(c[l]))
    <2>1. Axis!DrawnAs(v, R(c[l]))
      BY <1>5, DrawnIs
    <2>2. Axis!ResolveSession(v) \in DrawMode
      BY ResolvedIs
    <2>3. R(c[l]).date = c[l].date
      BY <1>5, <2>2, ReshapedIs
    <2> QED
      BY <2>1, <2>3
  <1> HIDE DEF R
  <1>7. DOMAIN s = 1..Len(s) /\ Len(s) \in Nat
    BY <1>4 DEF IsCalendar
  <1>8. \A i \in 1..(Len(s) - 1) : s[i].date < s[i + 1].date
    <2> TAKE i \in 1..(Len(s) - 1)
    <2>1. i \in 1..Len(s) /\ i + 1 \in 1..Len(s) /\ i < i + 1
      BY <1>7
    <2> QED
      BY <1>4, <2>1 DEF IsCalendar
  <1>9. \A i \in DOMAIN s : Axis!DrawnAs(v, s[i])
    <2> TAKE i \in DOMAIN s
    <2>1. PICK l \in places : s[i] = R(c[l])
      BY <1>4, <1>7
    <2> QED
      BY <1>6, <2>1
  <1>10. ASSUME NEW i \in DOMAIN s PROVE s[i].date \in Axis!ChosenDates(v)
    <2>1. PICK l \in places : s[i] = R(c[l])
      BY <1>4, <1>7
    <2>2. s[i].date = c[l].date /\ c[l].date = c0[l].date /\ c[l].date \in Int /\ l \in 1..Len(c0)
      BY <1>2, <1>5, <1>6, <2>1
    <2>3. c[l].date \in H /\ Axis!Counts(v, c[l].date)
      BY <1>1, <2>2
    <2> QED
      BY <2>1, <2>2, <2>3 DEF Axis!ChosenDates
  <1>11. ASSUME NEW d \in Axis!ChosenDates(v) PROVE \E i \in DOMAIN s : s[i].date = d
    <2>1. d \in H /\ Axis!Counts(v, d) /\ Axis!Weekday(d) \in W
      BY DEF Axis!ChosenDates
    <2>2. d \in Int
      BY <2>1, HorizonIsInt
    <2>3. PICK l \in 1..Len(c0) : c0[l].date = d
      BY <1>1, <2>1, <2>2
    <2>4. l \in places /\ c[l].date = d
      BY <1>2, <2>1, <2>3
    <2>5. PICK i \in 1..Len(s) : s[i] = R(c[l])
      BY <1>4, <2>4
    <2>6. l \in 1..Len(c)
      BY <2>4
    <2> QED
      BY <1>6, <1>7, <2>4, <2>5, <2>6
  <1> QED
    BY <1>8, <1>9, <1>10, <1>11

\* The stretches of an axis of days that run forward are in order, and so is its window alone.
LEMMA PartsAreInOrder ==
  ASSUME NEW s, IsCalendar(s), Axis!Forward(s), NEW w, w.from \in Int, w.to \in Int
  PROVE  LET p == Parts(s, w)
         IN  Len(p) \in Nat \ {0} /\ DOMAIN p = 1..Len(p) /\ IsAxis(p, Len(p))
  <1>1. CASE s = <<>>
    <2>1. Parts(s, w) = <<[start |-> w.from, end |-> w.to]>>
      BY <1>1 DEF Parts
    <2> QED
      BY <2>1 DEF IsAxis
  <1>2. CASE s # <<>>
    <2>1. Parts(s, w) = s /\ s \in Seq(DaySession)
      BY <1>2 DEF Parts, IsCalendar
    <2>2. Len(s) \in Nat \ {0} /\ DOMAIN s = 1..Len(s)
      BY <1>2, <2>1
    <2>3. \A i \in 1..Len(s) : /\ s[i].date \in Int /\ Within(s[i].start, s[i].date) /\ Within(s[i].end, s[i].date)
                               /\ s[i].start < s[i].end
      <3>1. \A i \in 1..Len(s) : s[i] \in DaySession
        BY <2>1
      <3>2. \A i \in 1..Len(s) : s[i].date \in Int
        BY <3>1 DEF DaySession
      <3> QED
        BY <2>2, <3>2 DEF IsCalendar, Axis!Forward
    <2>4. ASSUME NEW i \in 1..Len(s), NEW j \in 1..Len(s), i < j PROVE s[i].end <= s[j].start
      <3>1. s[i].date < s[j].date
        BY <2>4 DEF IsCalendar
      <3>2. Midnight(s[i].date) + 1440 <= Midnight(s[j].date)
        BY <2>3, <3>1, MidnightsGrow
      <3>3. Midnight(s[i].date) \in Int /\ Midnight(s[j].date) \in Int
        BY <2>3, MidnightIs
      <3> QED
        BY <2>3, <3>2, <3>3 DEF Within
    <2>5. \A i \in 1..Len(s) : s[i].start \in Int /\ s[i].end \in Int
      BY <2>3 DEF Within
    <2>6. IsAxis(s, Len(s))
      BY <2>3, <2>4, <2>5 DEF IsAxis
    <2> QED
      BY <2>1, <2>2, <2>6
  <1> QED
    BY <1>1, <1>2

\* The cursor tells the time drawn on every axis of days (LinkBreakRibbon's scale).
LEMMA CursorHolds ==
  ASSUME IsCalendar(axis.sessions), axis.window.from \in Int, axis.window.to \in Int
  PROVE  Axis!CursorIsTrue
  <1> SUFFICES ASSUME Axis!Forward(axis.sessions)
               PROVE  LET scale == Axis!Scale(axis.sessions, axis.window)
                      IN  \A u \in Axis!Places(scale) : Axis!Project(scale, Axis!InvertProject(scale, u)) = u
    BY Zenon DEF Axis!CursorIsTrue
  <1> DEFINE s == axis.sessions
             w == axis.window
             scale == Axis!Scale(s, w)
             n == Len(Parts(s, w))
  <1>1. n \in Nat \ {0} /\ DOMAIN Parts(s, w) = 1..n /\ IsAxis(Parts(s, w), n)
    BY PartsAreInOrder
  <1>2. LaidOut(scale, n)
    <2>1. LET o == scale.offset
          IN  /\ scale.parts = Parts(s, w) /\ scale.length = o[n + 1]
              /\ DOMAIN o = 1..(n + 1) /\ o[1] = 0
              /\ \A i \in 1..n : o[i + 1] = o[i] + Axis!Dur(scale.parts[i])
      <3> HIDE DEF s, w
      <3>1. n \in Nat
        BY <1>1
      <3> QED
        BY <3>1, ScaleIs
    <2> HIDE DEF s, w, scale
    <2> QED
      BY <1>1, <2>1 DEF LaidOut
  <1> HIDE DEF scale, n
  <1>3. ASSUME NEW u \in Axis!Places(scale) PROVE u \in 0..scale.length
    <2>1. \A i \in 1..(n + 1) : scale.offset[i] \in Nat
      BY <1>1, <1>2, OffsetsGrow
    <2>2. DOMAIN scale.offset = 1..(n + 1) /\ scale.length \in Nat
      BY <1>1, <1>2, <2>1 DEF LaidOut
    <2>3. PICK i \in 1..(n + 1) : u \in {scale.offset[i] - 1, scale.offset[i], scale.offset[i] + 1, scale.offset[i] + 200}
      BY <1>3, <2>2 DEF Axis!Places
    <2>4. u \in Int
      BY <2>1, <2>3
    <2> QED
      BY <1>3, <2>2, <2>4 DEF Axis!Places
  <1>4. \A u \in Axis!Places(scale) : Axis!Project(scale, Axis!InvertProject(scale, u)) = u
    BY <1>1, <1>2, <1>3, CursorComesBack
  <1> QED
    BY <1>4 DEF scale

(***************************************************************************)
(* The inductive invariant of the axis.  A choice that is not waiting for  *)
(* its next computation has its own days on the axis, with the hours heard *)
(* since, and the question for hours that is out is about those days.      *)
(***************************************************************************)
DaysOf(v, date, known) == Axis!ShapeSessions(v, Axis!MergeSessionHours(Axis!Calendar(v, date), known))
PickerInOrder ==
  /\ picker \in [start : Int, end : Int]
  /\ picker.end # Axis!NoDate => picker.start <= picker.end
AsksAreSound ==
  /\ \A c \in hoursAsk : IsCalendar(c) /\ HasHours(c, <<>>)
  /\ \A right \in extentAsk : right \in Int
  /\ HeardOK(axisHeard)
IsDrawn(a) ==
  /\ a = [sessions |-> a.sessions, window |-> a.window]
  /\ IsCalendar(a.sessions) /\ a.window.from \in Int /\ a.window.to \in Int
AxisFollows ==
  ~behind =>
    /\ Axis!ByHours(view.frame) => \A c \in hoursAsk : c = Axis!Calendar(view, today)
    /\ view.frame.kind # "all" => axis.sessions = DaysOf(view, today, axisHeard)
HorizonInv ==
  /\ today \in Int /\ Axis!IsHorizon(view)
  /\ PickerInOrder /\ AsksAreSound /\ IsDrawn(axis) /\ AxisFollows

\* What is published of a calendar is drawn (OhsStore.publishSessions).
LEMMA PublishedIs ==
  ASSUME NEW v, Axis!IsHorizon(v), NEW c, IsCalendar(c), today \in Int
  PROVE  LET a == Axis!PublishSessions(v, c) IN IsDrawn(a) /\ a.sessions = Axis!ShapeSessions(v, c)
  <1> DEFINE s == Axis!ShapeSessions(v, c)
             w == IF s = <<>> THEN Axis!DefaultWindow(today)
                  ELSE [from |-> s[1].start, to |-> s[Len(s)].end]
             a == Axis!PublishSessions(v, c)
  <1>1. a = [sessions |-> s, window |-> w]
    BY Zenon DEF Axis!PublishSessions
  <1>2. IsCalendar(s)
    BY ShapedIs, Zenon
  <1> HIDE DEF s
  <1>3. w.from \in Int /\ w.to \in Int
    <2>1. CASE s = <<>>
      <3>1. w.from = Axis!SessionBounds(today).start /\ w.to = Axis!SessionBounds(today).end
        BY <2>1 DEF Axis!DefaultWindow
      <3> QED
        BY <3>1, UsualHours DEF Opening, Closing
    <2>2. CASE s # <<>>
      <3>1. 1 \in 1..Len(s) /\ Len(s) \in 1..Len(s)
        BY <1>2, <2>2 DEF IsCalendar
      <3> QED
        BY <1>2, <2>2, <3>1 DEF IsCalendar, Within
    <2> QED
      BY <2>1, <2>2
  <1> HIDE DEF w, a
  <1>4. a.sessions = s /\ a.window = w
    BY <1>1
  <1>5. IsDrawn(a)
    BY <1>1, <1>2, <1>3, <1>4 DEF IsDrawn
  <1> QED
    BY <1>4, <1>5 DEF a, s

\* The right edge awaiting the extent.
LEMMA AnchoredIs ==
  ASSUME NEW v, today \in Int PROVE Axis!SessionBounds(Axis!Anchor(v, today)).end \in Int
  <1>1. Axis!Anchor(v, today) \in Int
    BY DEF Axis!Anchor
  <1> QED
    BY <1>1, UsualHours DEF Closing

LEMMA NothingHeard == HeardOK(<<>>)
  BY DEF HeardOK
LEMMA NoDays == IsCalendar(<<>>)
  BY DEF IsCalendar

\* The days of a choice that nothing was heard of are those of its calendar.
LEMMA FreshDays ==
  ASSUME NEW v, Axis!IsHorizon(v), today \in Int
  PROVE  DaysOf(v, today, <<>>) = Axis!ShapeSessions(v, Axis!Calendar(v, today))
  <1>1. IsCalendar(Axis!Calendar(v, today))
    BY CalendarDays
  <1>2. Axis!MergeSessionHours(Axis!Calendar(v, today), <<>>) = Axis!Calendar(v, today)
    BY <1>1, UnheardIs DEF IsCalendar
  <1> QED
    BY <1>2 DEF DaysOf

\* The axis computed for a horizon follows it (OhsStore.applyTimeframe).
LEMMA AppliedFollows ==
  ASSUME HorizonInv, NEW v, Axis!IsHorizon(v), Axis!ApplyTimeframe(v), view' = v, today' = today
  PROVE  AsksAreSound' /\ IsDrawn(axis)' /\ AxisFollows'
  <1> DEFINE c == Axis!Calendar(v, today)
             late == Axis!SessionBounds(Axis!Anchor(v, today)).end
             a == Axis!PublishSessions(v, c)
  <1>1. today \in Int /\ AsksAreSound /\ IsDrawn(axis)
    BY DEF HorizonInv
  <1>2. /\ axis' = IF v.frame.kind = "all" THEN [axis EXCEPT !.sessions = <<>>] ELSE a
        /\ hoursAsk' = IF Axis!ByHours(v.frame) THEN {c} ELSE hoursAsk
        /\ extentAsk' = IF v.frame.kind = "all" THEN {late} ELSE extentAsk
        /\ axisHeard' = <<>> /\ behind' = FALSE
    BY Zenon DEF Axis!ApplyTimeframe
  <1>3. IsCalendar(c) /\ HasHours(c, <<>>)
    BY <1>1, CalendarDays
  <1>4. IsDrawn(a) /\ a.sessions = Axis!ShapeSessions(v, c)
    BY <1>1, <1>3, PublishedIs
  <1>5. late \in Int
    BY <1>1, AnchoredIs
  <1>6. DaysOf(v, today, <<>>) = Axis!ShapeSessions(v, c)
    BY <1>1, FreshDays
  <1> HIDE DEF c, late, a
  <1>7. AsksAreSound'
    <2>1. \A x \in hoursAsk' : IsCalendar(x) /\ HasHours(x, <<>>)
      BY <1>1, <1>2, <1>3 DEF AsksAreSound
    <2>2. \A x \in extentAsk' : x \in Int
      BY <1>1, <1>2, <1>5 DEF AsksAreSound
    <2>3. HeardOK(axisHeard')
      BY <1>2, NothingHeard
    <2> QED
      BY <2>1, <2>2, <2>3 DEF AsksAreSound
  <1>8. IsDrawn(axis')
    <2>1. CASE v.frame.kind = "all"
      <3>1. axis' = [axis EXCEPT !.sessions = <<>>]
        BY <1>2, <2>1
      <3>2. axis' = [sessions |-> <<>>, window |-> axis.window]
        BY <1>1, <3>1 DEF IsDrawn
      <3> QED
        BY <1>1, <3>2, NoDays DEF IsDrawn
    <2>2. CASE v.frame.kind # "all"
      BY <1>2, <1>4, <2>2
    <2> QED
      BY <2>1, <2>2
  <1>9. AxisFollows'
    <2>1. Axis!ByHours(v.frame) => \A x \in hoursAsk' : x = Axis!Calendar(v, today)
      BY <1>2 DEF c
    <2>2. v.frame.kind # "all" => axis'.sessions = DaysOf(v, today, axisHeard')
      BY <1>2, <1>4, <1>6
    <2> QED
      BY <2>1, <2>2 DEF AxisFollows
  <1> QED
    BY <1>7, <1>8, <1>9

\* Horizons that differ only in what does not reach the axis have the same days.
LEMMA SameDays ==
  ASSUME NEW u, NEW v, u.frame = v.frame, u.dPlus = v.dPlus, u.filter = v.filter,
         Axis!ResolveSession(u) = Axis!ResolveSession(v), NEW date, NEW known
  PROVE  Axis!Calendar(u, date) = Axis!Calendar(v, date) /\ DaysOf(u, date, known) = DaysOf(v, date, known)
  <1>1. Axis!GenIncludeWeekends(u) = Axis!GenIncludeWeekends(v)
    BY DEF Axis!GenIncludeWeekends
  <1>2. Axis!Anchor(u, date) = Axis!Anchor(v, date)
    BY DEF Axis!Anchor
  <1>3. Axis!Calendar(u, date) = Axis!Calendar(v, date)
    BY <1>1, <1>2, Zenon DEF Axis!Calendar
  <1>4. \A c : Axis!ShapeSessions(u, c) = Axis!ShapeSessions(v, c)
    BY Zenon DEF Axis!ShapeSessions
  <1> QED
    BY <1>3, <1>4 DEF DaysOf

\* A choice leaves the rest of the horizon.
LEMMA PatchedHorizon ==
  ASSUME NEW v, Axis!IsHorizon(v), NEW field \in {"frame", "dPlus", "filter", "exchanges", "flags"}, NEW value,
         field = "frame" => Axis!IsFrame(value), field = "filter" => Axis!IsFilter(value)
  PROVE  LET u == [v EXCEPT ![field] = value]
         IN  /\ Axis!IsHorizon(u)
             /\ \A x \in {"frame", "dPlus", "filter", "exchanges"} : u[x] = IF x = field THEN value ELSE v[x]
  <1> DEFINE u == [v EXCEPT ![field] = value]
  <1>1. {"frame", "dPlus", "filter", "exchanges"} \subseteq DOMAIN v /\ Axis!IsFrame(v.frame) /\ Axis!IsFilter(v.filter)
    BY DEF Axis!IsHorizon
  <1>2. DOMAIN u = DOMAIN v /\ \A x \in {"frame", "dPlus", "filter", "exchanges"} : u[x] = IF x = field THEN value ELSE v[x]
    BY <1>1
  <1> HIDE DEF u
  <1>3. Axis!IsFrame(u.frame)
    BY <1>1, <1>2
  <1>4. Axis!IsFilter(u.filter)
    BY <1>1, <1>2
  <1>5. Axis!IsHorizon(u)
    BY <1>1, <1>2, <1>3, <1>4 DEF Axis!IsHorizon
  <1> QED
    BY <1>2, <1>5 DEF u

\* A choice computed at once.
LEMMA ChosenFollows ==
  ASSUME HorizonInv, NEW field \in {"frame", "dPlus", "filter"}, NEW value,
         field = "frame" => Axis!IsFrame(value), field = "filter" => Axis!IsFilter(value),
         Axis!Chosen([view EXCEPT ![field] = value])
  PROVE  HorizonInv'
  <1> DEFINE v == [view EXCEPT ![field] = value]
  <1>1. view' = v /\ today' = today /\ picker' = picker /\ Axis!ApplyTimeframe(v)
    BY DEF Axis!Chosen, Axis!Choose
  <1>2. Axis!IsHorizon(v)
    BY PatchedHorizon DEF HorizonInv
  <1> HIDE DEF v
  <1>3. AsksAreSound' /\ IsDrawn(axis)' /\ AxisFollows'
    BY <1>1, <1>2, AppliedFollows
  <1> QED
    BY <1>1, <1>2, <1>3 DEF HorizonInv, PickerInOrder

\* A choice that only the ribbon shows, or that waits for the next computation.
LEMMA ShownFollows ==
  ASSUME HorizonInv, NEW field \in {"exchanges", "flags"}, NEW value,
         Axis!Choose([view EXCEPT ![field] = value]),
         UNCHANGED <<axis, hoursAsk, extentAsk, axisHeard>>, behind => behind',
         ~behind' => field = "flags" \/ view.filter.session.mode # "smart"
  PROVE  HorizonInv'
  <1> DEFINE v == [view EXCEPT ![field] = value]
  <1>1. view' = v /\ today' = today /\ picker' = picker
    BY DEF Axis!Choose
  <1>2. Axis!IsHorizon(v) /\ v.frame = view.frame /\ v.dPlus = view.dPlus /\ v.filter = view.filter
        /\ (field = "flags" => v.exchanges = view.exchanges)
    BY PatchedHorizon DEF HorizonInv
  <1> HIDE DEF v
  <1>3. AxisFollows'
    <2> SUFFICES ASSUME ~behind' PROVE AxisFollows'
      BY DEF AxisFollows
    <2>1. Axis!ResolveSession(v) = Axis!ResolveSession(view)
      <3>1. CASE field = "flags"
        BY <1>2, <3>1, Zenon DEF Axis!ResolveSession
      <3>2. CASE view.filter.session.mode # "smart"
        BY <1>2, <3>2, Zenon DEF Axis!ResolveSession
      <3> QED
        BY <3>1, <3>2
    <2>2. /\ Axis!Calendar(v, today) = Axis!Calendar(view, today)
          /\ DaysOf(v, today, axisHeard) = DaysOf(view, today, axisHeard)
      BY <1>2, <2>1, SameDays
    <2>3. ~behind /\ AxisFollows
      BY DEF HorizonInv
    <2> QED
      BY <1>1, <1>2, <2>2, <2>3 DEF AxisFollows
  <1> QED
    BY <1>1, <1>2, <1>3 DEF HorizonInv, PickerInOrder, AsksAreSound

\* The answers: the hours of the calendar asked for, the extent of what is covered.
LEMMA HoursFollow ==
  ASSUME HorizonInv, NEW hours \in Hours, Axis!GetSessionsAnswered(hours)
  PROVE  HorizonInv'
  <1>1. PICK c \in hoursAsk :
          /\ axis' = Axis!PublishSessions(view, Axis!MergeSessionHours(c, Axis!Known(c, hours)))
          /\ axisHeard' = Axis!Known(c, hours)
    BY DEF Axis!GetSessionsAnswered
  <1>2. /\ hoursAsk' = {} /\ behind' = (behind \/ ~Axis!ByHours(view.frame))
        /\ UNCHANGED <<today, view, extentAsk, picker>>
    BY DEF Axis!GetSessionsAnswered
  <1> DEFINE known == Axis!Known(c, hours)
             m == Axis!MergeSessionHours(c, known)
  <1>3. today \in Int /\ Axis!IsHorizon(view) /\ IsCalendar(c) /\ HasHours(c, <<>>)
        /\ \A right \in extentAsk : right \in Int
    BY DEF HorizonInv, AsksAreSound
  <1>4. HeardOK(known)
    BY <1>3, KnownIs
  <1> HIDE DEF known
  <1>5. IsCalendar(m)
    BY <1>3, <1>4, MergedIs
  <1> HIDE DEF m
  <1>6. axis' = Axis!PublishSessions(view, m)
    BY <1>1 DEF m, known
  <1>7. IsDrawn(axis') /\ axis'.sessions = Axis!ShapeSessions(view, m)
    BY <1>3, <1>5, <1>6, PublishedIs
  <1>8. AsksAreSound'
    BY <1>1, <1>2, <1>3, <1>4 DEF AsksAreSound, known
  <1>9. AxisFollows'
    <2> SUFFICES ASSUME ~behind' PROVE AxisFollows'
      BY DEF AxisFollows
    <2>1. c = Axis!Calendar(view, today)
      BY <1>2 DEF HorizonInv, AxisFollows
    <2>2. axis'.sessions = DaysOf(view, today, axisHeard')
      BY <1>1, <1>7, <2>1 DEF DaysOf, m, known
    <2> QED
      BY <1>2, <2>2 DEF AxisFollows
  <1> QED
    BY <1>2, <1>7, <1>8, <1>9 DEF HorizonInv, PickerInOrder

\* The extent moves the window of the axis only.
LEMMA ExtentFollows ==
  ASSUME HorizonInv, NEW extent \in {"failed", "empty"} \cup DOMAIN Extents, Axis!GetExtentAnswered(extent)
  PROVE  HorizonInv'
  <1>1. PICK right \in extentAsk :
          axis' = [axis EXCEPT !.window =
                     CASE extent = "failed" -> Axis!DefaultWindow(today)
                       [] extent = "empty" -> [from |-> Axis!SessionBounds(today).start, to |-> right]
                       [] OTHER -> [from |-> Extents[extent].from,
                                    to |-> IF Extents[extent].to > right THEN Extents[extent].to ELSE right]]
    BY DEF Axis!GetExtentAnswered
  <1>2. /\ extentAsk' = {} /\ behind' = (behind \/ view.frame # Axis!All)
        /\ UNCHANGED <<today, view, hoursAsk, picker, axisHeard>>
    BY DEF Axis!GetExtentAnswered
  <1>3. today \in Int /\ right \in Int /\ IsDrawn(axis)
    BY DEF HorizonInv, AsksAreSound
  <1> DEFINE b == Axis!SessionBounds(today)
             usual == Axis!DefaultWindow(today)
  <1>4. b.start \in Int /\ b.end \in Int
    BY <1>3, UsualHours DEF Opening, Closing
  <1>5. usual = [from |-> b.start, to |-> b.end]
    BY Zenon DEF Axis!DefaultWindow
  <1> HIDE DEF b, usual
  <1>6. PICK w : axis' = [axis EXCEPT !.window = w] /\ w.from \in Int /\ w.to \in Int
    <2>1. extent = "failed" => axis' = [axis EXCEPT !.window = usual]
      BY <1>1 DEF usual
    <2>2. extent = "empty" => axis' = [axis EXCEPT !.window = [from |-> b.start, to |-> right]]
      BY <1>1 DEF b
    <2>3. extent \notin {"failed", "empty"} =>
            axis' = [axis EXCEPT !.window = [from |-> Extents[extent].from,
                       to |-> IF Extents[extent].to > right THEN Extents[extent].to ELSE right]]
      BY <1>1
    <2>4. extent \notin {"failed", "empty"} => Extents[extent].from \in Int /\ Extents[extent].to \in Int
      BY AxisAssumption
    <2> QED
      BY <1>3, <1>4, <1>5, <2>1, <2>2, <2>3, <2>4
  <1>7. axis' = [sessions |-> axis.sessions, window |-> w]
    BY <1>3, <1>6 DEF IsDrawn
  <1>8. IsDrawn(axis') /\ axis'.sessions = axis.sessions
    BY <1>3, <1>6, <1>7 DEF IsDrawn
  <1>9. AsksAreSound'
    BY <1>2 DEF HorizonInv, AsksAreSound
  <1>10. AxisFollows'
    BY <1>2, <1>8 DEF HorizonInv, AxisFollows
  <1> QED
    BY <1>2, <1>8, <1>9, <1>10 DEF HorizonInv, PickerInOrder

FilterModes == [mode : {"none", "session", "smart", "custom"}, from : DayMinutes, to : DayMinutes]

\* A change of one chip leaves a filter a filter.
LEMMA Refiltered ==
  ASSUME NEW f, Axis!IsFilter(f)
  PROVE  /\ \A x : Axis!IsFilter([f EXCEPT !.weekdays = x]) /\ Axis!IsFilter([f EXCEPT !.fullDay = x])
         /\ \A s \in FilterModes : Axis!IsFilter([f EXCEPT !.session = s])
         /\ f.session \in FilterModes
  <1>1. f = [weekdays |-> f.weekdays, fullDay |-> f.fullDay, session |-> f.session] /\ f.session \in FilterModes
    BY Zenon DEF Axis!IsFilter, FilterModes, DayMinutes
  <1>2. \A g : (g = [weekdays |-> g.weekdays, fullDay |-> g.fullDay, session |-> g.session]
                /\ g.session \in FilterModes) => Axis!IsFilter(g)
    BY Zenon DEF Axis!IsFilter, FilterModes, DayMinutes
  <1> HIDE DEF FilterModes
  <1>3. ASSUME NEW x PROVE Axis!IsFilter([f EXCEPT !.weekdays = x]) /\ Axis!IsFilter([f EXCEPT !.fullDay = x])
    <2>1. [f EXCEPT !.weekdays = x] = [weekdays |-> x, fullDay |-> f.fullDay, session |-> f.session]
      BY <1>1
    <2>2. [f EXCEPT !.fullDay = x] = [weekdays |-> f.weekdays, fullDay |-> x, session |-> f.session]
      BY <1>1
    <2> QED
      BY <1>1, <1>2, <2>1, <2>2
  <1>4. ASSUME NEW s \in FilterModes PROVE Axis!IsFilter([f EXCEPT !.session = s])
    <2>1. [f EXCEPT !.session = s] = [weekdays |-> f.weekdays, fullDay |-> f.fullDay, session |-> s]
      BY <1>1
    <2> QED
      BY <1>2, <2>1
  <1> QED
    BY <1>1, <1>3, <1>4

\* A filter, made neutral when it is bare (setTimelineFilter).
LEMMA FilterFollows ==
  ASSUME HorizonInv, NEW filter, Axis!IsFilter(filter), Axis!SetTimelineFilter(filter)
  PROVE  HorizonInv'
  <1> DEFINE f == IF filter.session.mode = "none" /\ ~filter.fullDay THEN [filter EXCEPT !.fullDay = TRUE] ELSE filter
  <1>1. Axis!Chosen([view EXCEPT !.filter = f])
    BY DEF Axis!SetTimelineFilter
  <1>2. Axis!IsFilter(f)
    BY Refiltered
  <1> HIDE DEF f
  <1> QED
    BY <1>1, <1>2, ChosenFollows

\* A time frame.
LEMMA FrameFollows ==
  ASSUME HorizonInv, NEW f, Axis!IsFrame(f), Axis!SetTimeframe(f)
  PROVE  HorizonInv'
  BY ChosenFollows DEF Axis!SetTimeframe

\* What the chips and inputs set is a window of a day.
LEMMA WindowsOfTheDay ==
  /\ \A name \in {"none", "session", "smart"} : Axis!Mode(name) \in FilterModes
  /\ Axis!CustomMode(600, 1140) \in FilterModes
  /\ \A x, y \in DayMinutes : Axis!CustomMode(x, y) \in FilterModes
  /\ Minutes \subseteq DayMinutes
  <1>1. 0 \in DayMinutes /\ 600 \in DayMinutes /\ 1140 \in DayMinutes
    BY DEF DayMinutes, Axis!MinutesOfDay
  <1>2. Minutes \subseteq DayMinutes
    BY AxisAssumption DEF DayMinutes
  <1> QED
    BY <1>1, <1>2 DEF Axis!Mode, Axis!CustomMode, FilterModes

\* Every chip of the filter.
LEMMA EditFilterFollows ==
  ASSUME HorizonInv, Axis!EditFilter PROVE HorizonInv'
  <1> DEFINE f == view.filter
             chip == f.session
  <1>0. Axis!IsFilter(f) /\ chip \in FilterModes /\ Axis!IsHorizon(view)
    BY Refiltered DEF HorizonInv, Axis!IsHorizon
  <1>1. ASSUME NEW x, Axis!SetTimelineFilter([f EXCEPT !.weekdays = x]) PROVE HorizonInv'
    BY <1>0, <1>1, Refiltered, FilterFollows
  <1>2. ASSUME NEW x, Axis!SetTimelineFilter([f EXCEPT !.fullDay = x]) PROVE HorizonInv'
    BY <1>0, <1>2, Refiltered, FilterFollows
  <1>3. ASSUME NEW x \in FilterModes, Axis!SetTimelineFilter([f EXCEPT !.session = x]) PROVE HorizonInv'
    BY <1>0, <1>3, Refiltered, FilterFollows
  <1>4. ASSUME NEW dow, Axis!ToggleDay(dow) PROVE HorizonInv'
    BY <1>1, <1>4 DEF Axis!ToggleDay
  <1>5. ASSUME NEW days, Axis!PickDays(days) PROVE HorizonInv'
    BY <1>1, <1>5 DEF Axis!PickDays
  <1>6. CASE Axis!ToggleFull
    BY <1>2, <1>6 DEF Axis!ToggleFull
  <1>7. ASSUME NEW mode \in FilterModes, Axis!ToggleSession(mode) PROVE HorizonInv'
    <2> DEFINE x == IF chip.mode = mode.mode THEN Axis!Mode("none") ELSE mode
    <2>1. Axis!SetTimelineFilter([f EXCEPT !.session = x])
      BY <1>7 DEF Axis!ToggleSession
    <2>2. x \in FilterModes
      BY WindowsOfTheDay
    <2> HIDE DEF x
    <2> QED
      BY <1>3, <2>1, <2>2
  <1>8. ASSUME NEW mode \in FilterModes, Axis!PatchCustom(mode) PROVE HorizonInv'
    BY <1>3, <1>8 DEF Axis!PatchCustom
  <1>9. CASE Axis!ResetTimelineFilter
    <2>1. Axis!IsFilter(Axis!Neutral)
      <3>1. Axis!Mode("none") \in [mode : {"none", "session", "smart", "custom"},
                                   from : 0..Axis!MinutesOfDay, to : 0..Axis!MinutesOfDay]
        BY WindowsOfTheDay DEF FilterModes, DayMinutes
      <3> QED
        BY <3>1 DEF Axis!IsFilter, Axis!Neutral
    <2> QED
      BY <1>9, <2>1, ChosenFollows DEF Axis!ResetTimelineFilter
  <1>10. chip.from \in DayMinutes /\ chip.to \in DayMinutes
    BY <1>0 DEF FilterModes
  <1>11. /\ Axis!Mode("session") \in FilterModes /\ Axis!Mode("smart") \in FilterModes /\ Axis!CustomMode(600, 1140) \in FilterModes
         /\ \A m \in Minutes : Axis!CustomMode(m, chip.to) \in FilterModes /\ Axis!CustomMode(chip.from, m) \in FilterModes
    BY <1>10, WindowsOfTheDay
  <1> HIDE DEF f
  <1>12. CASE \E m \in Minutes : \/ Axis!PatchCustom(Axis!CustomMode(m, chip.to))
                                 \/ Axis!PatchCustom(Axis!CustomMode(chip.from, m))
    BY <1>8, <1>11, <1>12
  <1>13. CASE \E mode \in {Axis!Mode("session"), Axis!Mode("smart"), Axis!CustomMode(600, 1140)} : Axis!ToggleSession(mode)
    BY <1>7, <1>11, <1>13
  <1> QED
    BY <1>4, <1>5, <1>6, <1>9, <1>12, <1>13 DEF Axis!EditFilter, f

\* A date clicked keeps the picked range in order (DateRangePicker).
LEMMA PickFollows ==
  ASSUME HorizonInv, NEW date \in PickDates, Axis!Pick(date) PROVE HorizonInv'
  <1>1. /\ picker' = IF picker.start = Axis!NoDate \/ picker.end # Axis!NoDate
                     THEN [start |-> date, end |-> Axis!NoDate]
                     ELSE IF date < picker.start THEN [start |-> date, end |-> picker.start]
                     ELSE [picker EXCEPT !.end = date]
        /\ UNCHANGED <<today, view, axis, hoursAsk, extentAsk, axisHeard, behind>>
    BY DEF Axis!Pick
  <1>2. date \in Int /\ Axis!NoDate \in Int
    BY AxisAssumption DEF Axis!NoDate
  <1>3. PickerInOrder'
    BY <1>1, <1>2 DEF HorizonInv, PickerInOrder
  <1> QED
    BY <1>1, <1>3 DEF HorizonInv, AsksAreSound, AxisFollows

\* Every choice of the menu.
LEMMA PickTimeframeFollows ==
  ASSUME HorizonInv, Axis!PickTimeframe PROVE HorizonInv'
  <1>1. ASSUME NEW f \in TimeFrames, Axis!SetTimeframe(Axis!Sessions(f.unit, f.count)) PROVE HorizonInv'
    <2>1. Axis!IsFrame(Axis!Sessions(f.unit, f.count))
      BY AxisAssumption DEF Axis!IsFrame, Axis!Sessions
    <2> QED
      BY <1>1, <2>1, FrameFollows
  <1>2. CASE Axis!SetTimeframe(Axis!All)
    <2>1. Axis!IsFrame(Axis!All)
      BY DEF Axis!IsFrame
    <2> QED
      BY <1>2, <2>1, FrameFollows
  <1>3. CASE Axis!ApplyPicked
    <2> DEFINE to == IF picker.end = Axis!NoDate THEN picker.start ELSE picker.end
    <2>1. Axis!SetTimeframe(Axis!DateRange(picker.start, to))
      BY <1>3 DEF Axis!ApplyPicked
    <2>2. picker.start \in Int /\ to \in Int /\ picker.start <= to
      BY DEF HorizonInv, PickerInOrder
    <2> HIDE DEF to
    <2>3. Axis!IsFrame(Axis!DateRange(picker.start, to))
      BY <2>2 DEF Axis!IsFrame, Axis!DateRange
    <2> QED
      BY <2>1, <2>3, FrameFollows
  <1> QED
    BY <1>1, <1>2, <1>3 DEF Axis!PickTimeframe

\* The axis before anything is computed.
LEMMA EmptyIsDrawn ==
  ASSUME today \in Int PROVE IsDrawn([sessions |-> <<>>, window |-> Axis!DefaultWindow(today)])
  <1> DEFINE b == Axis!SessionBounds(today)
  <1>1. b.start \in Int /\ b.end \in Int
    BY UsualHours DEF Opening, Closing
  <1>2. Axis!DefaultWindow(today) = [from |-> b.start, to |-> b.end]
    BY Zenon DEF Axis!DefaultWindow
  <1> HIDE DEF b
  <1> QED
    BY <1>1, <1>2, NoDays DEF IsDrawn

\* A reload computes the axis of the view the browser kept, which is the page's.
LEMMA ReloadFollows ==
  ASSUME HorizonInv, ViewInv, Axis!Reload PROVE HorizonInv'
  <1> DEFINE c == Axis!Calendar(view, today)
             late == Axis!SessionBounds(Axis!Anchor(view, today)).end
             a == Axis!PublishSessions(view, c)
             nothing == [sessions |-> <<>>, window |-> Axis!DefaultWindow(today)]
  <1>1. Axis!RestoreView(axisStored) = view
    BY DEF ViewInv, Axis!ReloadKeepsView
  <1>2. /\ view' = view /\ today' = today
        /\ axis' = IF view.frame.kind = "all" THEN nothing ELSE a
        /\ hoursAsk' = IF Axis!ByHours(view.frame) THEN {c} ELSE {}
        /\ extentAsk' = IF view.frame.kind = "all" THEN {late} ELSE {}
        /\ picker' = [start |-> Axis!NoDate, end |-> Axis!NoDate]
        /\ axisHeard' = <<>>
    BY <1>1, Zenon DEF Axis!Reload
  <1>3. today \in Int /\ Axis!IsHorizon(view)
    BY DEF HorizonInv
  <1>4. IsCalendar(c) /\ HasHours(c, <<>>)
    BY <1>3, CalendarDays
  <1>5. IsDrawn(a) /\ a.sessions = Axis!ShapeSessions(view, c)
    BY <1>3, <1>4, PublishedIs
  <1>6. late \in Int
    BY <1>3, AnchoredIs
  <1>7. DaysOf(view, today, <<>>) = Axis!ShapeSessions(view, c)
    BY <1>3, FreshDays
  <1>8. IsDrawn(nothing)
    BY <1>3, EmptyIsDrawn
  <1> HIDE DEF a, late, nothing, c
  <1>9. AsksAreSound'
    <2>1. \A x \in hoursAsk' : IsCalendar(x) /\ HasHours(x, <<>>)
      BY <1>2, <1>4
    <2>2. \A x \in extentAsk' : x \in Int
      BY <1>2, <1>6
    <2>3. HeardOK(axisHeard')
      BY <1>2, NothingHeard
    <2> QED
      BY <2>1, <2>2, <2>3 DEF AsksAreSound
  <1>10. IsDrawn(axis')
    BY <1>2, <1>5, <1>8
  <1>11. AxisFollows'
    <2>1. Axis!ByHours(view.frame) => \A x \in hoursAsk' : x = Axis!Calendar(view, today)
      BY <1>2 DEF c
    <2>2. view.frame.kind # "all" => axis'.sessions = DaysOf(view, today, axisHeard')
      BY <1>2, <1>5, <1>7
    <2> QED
      BY <1>2, <2>1, <2>2 DEF AxisFollows
  <1>12. PickerInOrder'
    BY <1>2 DEF PickerInOrder, Axis!NoDate
  <1> QED
    BY <1>2, <1>3, <1>9, <1>10, <1>11, <1>12 DEF HorizonInv

\* The page opens with its axis not yet computed.
LEMMA HorizonBegins == Axis!Init => HorizonInv
  <1> SUFFICES ASSUME Axis!Init PROVE HorizonInv
    OBVIOUS
  <1>1. /\ today = Today /\ axisStored \in OldViews /\ view = Axis!RestoreView(axisStored)
        /\ axis = [sessions |-> <<>>, window |-> Axis!DefaultWindow(Today)]
        /\ hoursAsk = {} /\ extentAsk = {} /\ axisHeard = <<>> /\ behind = TRUE
        /\ picker = [start |-> Axis!NoDate, end |-> Axis!NoDate]
    BY DEF Axis!Init
  <1>2. today \in Int
    BY <1>1, AxisAssumption
  <1>3. Axis!IsHorizon(view)
    <2> DEFINE read == [k \in Flags |-> IF k \in Axis!Incidents /\ axisStored.flags["showWorkGaps"] THEN FALSE
                                        ELSE axisStored.flags[k]]
    <2>1. view = [axisStored EXCEPT !.flags = read]
      BY <1>1 DEF Axis!RestoreView
    <2>2. Axis!IsHorizon(axisStored)
      BY <1>1, ViewsAssumption
    <2> HIDE DEF read
    <2> QED
      BY <2>1, <2>2, PatchedHorizon
  <1>4. IsDrawn(axis)
    BY <1>1, <1>2, EmptyIsDrawn
  <1>5. AsksAreSound
    BY <1>1, NothingHeard DEF AsksAreSound
  <1>6. PickerInOrder
    BY <1>1 DEF PickerInOrder, Axis!NoDate
  <1> QED
    BY <1>1, <1>2, <1>3, <1>4, <1>5, <1>6 DEF HorizonInv, AxisFollows

\* The computation of every minute (refreshTimeframeWindow).
LEMMA RefreshFollows ==
  ASSUME HorizonInv, Axis!RefreshTimeframeWindow PROVE HorizonInv'
  <1>1. Axis!ApplyTimeframe(view) /\ UNCHANGED <<today, view, picker>>
    BY DEF Axis!RefreshTimeframeWindow
  <1>2. Axis!IsHorizon(view)
    BY DEF HorizonInv
  <1>3. AsksAreSound' /\ IsDrawn(axis)' /\ AxisFollows'
    BY <1>1, <1>2, AppliedFollows
  <1> QED
    BY <1>1, <1>3 DEF HorizonInv, PickerInOrder

\* The axis follows the choice: whatever is chosen, answered late or not at all, passed at
\* midnight or reloaded, an axis that is not behind has the days of the choice, with the
\* hours heard since (OhsStore's horizon).
THEOREM HorizonInvariant == Axis!Spec => []HorizonInv
  <1>1. Axis!Init => HorizonInv
    BY HorizonBegins
  <1>2. HorizonInv /\ ViewInv /\ [Axis!Next]_(Axis!axisVars) => HorizonInv'
    <2> SUFFICES ASSUME HorizonInv, ViewInv, [Axis!Next]_(Axis!axisVars) PROVE HorizonInv'
      OBVIOUS
    <2>1. CASE Axis!SetDPlus
      BY <2>1, ChosenFollows DEF Axis!SetDPlus
    <2>2. CASE Axis!PickTimeframe
      BY <2>2, PickTimeframeFollows
    <2>3. CASE Axis!EditFilter
      BY <2>3, EditFilterFollows
    <2>4. ASSUME NEW date \in PickDates, Axis!Pick(date) PROVE HorizonInv'
      BY <2>4, PickFollows
    <2>5. ASSUME NEW chosen, Axis!SetExchanges(chosen) PROVE HorizonInv'
      BY <2>5, ShownFollows DEF Axis!SetExchanges
    <2>6. ASSUME NEW k \in Flags, Axis!SetFlag(k) PROVE HorizonInv'
      BY <2>6, ShownFollows DEF Axis!SetFlag, Axis!Shown
    <2>7. ASSUME NEW hours \in Hours, Axis!GetSessionsAnswered(hours) PROVE HorizonInv'
      BY <2>7, HoursFollow
    <2>8. CASE Axis!GetSessionsFailed
      BY <2>8 DEF Axis!GetSessionsFailed, HorizonInv, PickerInOrder, AsksAreSound, AxisFollows
    <2>9. ASSUME NEW extent \in {"failed", "empty"} \cup DOMAIN Extents, Axis!GetExtentAnswered(extent)
          PROVE HorizonInv'
      BY <2>9, ExtentFollows
    <2>10. CASE Axis!Midnight
      BY <2>10 DEF Axis!Midnight, HorizonInv, PickerInOrder, AsksAreSound, AxisFollows
    <2>11. CASE Axis!RefreshTimeframeWindow
      BY <2>11, RefreshFollows
    <2>12. CASE Axis!Reload
      BY <2>12, ReloadFollows
    <2>13. CASE UNCHANGED Axis!axisVars
      BY <2>13 DEF Axis!axisVars, HorizonInv, PickerInOrder, AsksAreSound, AxisFollows
    <2> QED
      BY <2>1, <2>2, <2>3, <2>4, <2>5, <2>6, <2>7, <2>8, <2>9, <2>10, <2>11, <2>12, <2>13, Zenon DEF Axis!Next
  <1> QED
    BY <1>1, <1>2, ViewInvariant, PTL DEF Axis!Spec

\* An axis that waits for nothing shows, in order, exactly the days of the chosen horizon
\* and filter, each with the hours the filter and the server give it; and the tooltip
\* under the cursor tells the time drawn there.
THEOREM AxisIsShown == Axis!Spec => [](Axis!AxisIsChosen /\ Axis!CursorIsTrue)
  <1>1. HorizonInv => Axis!AxisIsChosen
    <2> SUFFICES ASSUME HorizonInv, ~behind, view.frame.kind # "all"
                 PROVE  LET s == axis.sessions
                        IN  /\ {s[i].date : i \in DOMAIN s} = Axis!ChosenDates(view)
                            /\ \A i \in 1..(Len(s) - 1) : s[i].date < s[i + 1].date
                            /\ \A i \in DOMAIN s : Axis!DrawnAs(view, s[i])
      BY Zenon DEF Axis!AxisIsChosen
    <2>1. axis.sessions = Axis!ShapeSessions(view, Axis!MergeSessionHours(Axis!Calendar(view, today), axisHeard))
      BY DEF HorizonInv, AxisFollows, DaysOf
    <2> QED
      BY <2>1, AxisShows DEF HorizonInv, AsksAreSound
  <1>2. HorizonInv => Axis!CursorIsTrue
    BY CursorHolds DEF HorizonInv, IsDrawn
  <1> QED
    BY <1>1, <1>2, HorizonInvariant, PTL

-----------------------------------------------------------------------------
(* The desk: one screen plays. *)

\* A screen plays, or it rests.
LEMMA SchedulePlays ==
  Spec => \/ screen = "schedule" /\ Schedule!Spec
          \/ [](screen # "schedule")
  <1>1. Init /\ screen = "schedule" => Schedule!Init
    BY DEF Init
  <1>2. screen = "schedule" /\ [Next]_screenVars
          => [Schedule!Next]_(Schedule!editorVars) /\ (screen = "schedule")'
    BY DEF Next, screenVars, scheduleVars, Schedule!editorVars
  <1>3. screen # "schedule" /\ [Next]_screenVars => (screen # "schedule")'
    BY DEF Next, screenVars
  <1>4. screen = "schedule" \/ screen # "schedule"
    OBVIOUS
  <1> QED
    BY <1>1, <1>2, <1>3, <1>4, PTL DEF Spec, Schedule!Spec
LEMMA AxisPlays ==
  Spec => \/ screen = "axis" /\ Axis!Spec
          \/ [](screen # "axis")
  <1>1. Init /\ screen = "axis" => Axis!Init
    BY DEF Init
  <1>2. screen = "axis" /\ [Next]_screenVars
          => [Axis!Next]_(Axis!axisVars) /\ (screen = "axis")'
    BY DEF Next, screenVars, axisVars, Axis!axisVars
  <1>3. screen # "axis" /\ [Next]_screenVars => (screen # "axis")'
    BY DEF Next, screenVars
  <1>4. screen = "axis" \/ screen # "axis"
    OBVIOUS
  <1> QED
    BY <1>1, <1>2, <1>3, <1>4, PTL DEF Spec, Axis!Spec
LEMMA RefreshPlays ==
  Spec => \/ screen = "refresh" /\ Refresh!Spec
          \/ [](screen # "refresh")
  <1>1. Init /\ screen = "refresh" => Refresh!Init
    BY DEF Init
  <1>2. screen = "refresh" /\ [Next]_screenVars
          => [Refresh!Next]_(Refresh!ribbonVars) /\ (screen = "refresh")'
    BY DEF Next, screenVars, refreshVars, Refresh!ribbonVars
  <1>3. screen # "refresh" /\ [Next]_screenVars => (screen # "refresh")'
    BY DEF Next, screenVars
  <1>4. screen = "refresh" \/ screen # "refresh"
    OBVIOUS
  <1> QED
    BY <1>1, <1>2, <1>3, <1>4, PTL DEF Spec, Refresh!Spec
LEMMA RibbonPlays ==
  Spec => \/ screen = "ribbon" /\ Ribbon!Spec
          \/ [](screen # "ribbon")
  <1>1. Init /\ screen = "ribbon" => Ribbon!Init
    BY DEF Init
  <1>2. screen = "ribbon" /\ [Next]_screenVars
          => [Ribbon!Next]_(Ribbon!linkVars) /\ (screen = "ribbon")'
    BY DEF Next, screenVars, ribbonVars, Ribbon!linkVars, Ribbon!server, Ribbon!client
  <1>3. screen # "ribbon" /\ [Next]_screenVars => (screen # "ribbon")'
    BY DEF Next, screenVars
  <1>4. screen = "ribbon" \/ screen # "ribbon"
    OBVIOUS
  <1> QED
    BY <1>1, <1>2, <1>3, <1>4, PTL DEF Spec, Ribbon!Spec
LEMMA PanelPlays ==
  Spec => \/ screen = "desk" /\ Panel!Spec
          \/ [](screen # "desk")
  <1>1. Init /\ screen = "desk" => Panel!Init
    BY DEF Init
  <1>2. screen = "desk" /\ [Next]_screenVars
          => [Panel!Next]_(Panel!deskVars) /\ (screen = "desk")'
    BY DEF Next, screenVars, deskVars, Panel!deskVars
  <1>3. screen # "desk" /\ [Next]_screenVars => (screen # "desk")'
    BY DEF Next, screenVars
  <1>4. screen = "desk" \/ screen # "desk"
    OBVIOUS
  <1> QED
    BY <1>1, <1>2, <1>3, <1>4, PTL DEF Spec, Panel!Spec
LEMMA TreePlays ==
  Spec => \/ screen = "tree" /\ Tree!Spec
          \/ [](screen # "tree")
  <1>1. Init /\ screen = "tree" => Tree!Init
    BY DEF Init
  <1>2. screen = "tree" /\ [Next]_screenVars
          => [Tree!Next]_(Tree!catalogueVars) /\ (screen = "tree")'
    BY DEF Next, screenVars, treeVars, Tree!catalogueVars
  <1>3. screen # "tree" /\ [Next]_screenVars => (screen # "tree")'
    BY DEF Next, screenVars
  <1>4. screen = "tree" \/ screen # "tree"
    OBVIOUS
  <1> QED
    BY <1>1, <1>2, <1>3, <1>4, PTL DEF Spec, Tree!Spec
LEMMA SetsPlay ==
  Spec => \/ screen = "sets" /\ Sets!Spec
          \/ [](screen # "sets")
  <1>1. Init /\ screen = "sets" => Sets!Init
    BY DEF Init
  <1>2. screen = "sets" /\ [Next]_screenVars
          => [Sets!Next]_(Sets!basketVars) /\ (screen = "sets")'
    BY DEF Next, screenVars, setsVars, Sets!basketVars
  <1>3. screen # "sets" /\ [Next]_screenVars => (screen # "sets")'
    BY DEF Next, screenVars
  <1>4. screen = "sets" \/ screen # "sets"
    OBVIOUS
  <1> QED
    BY <1>1, <1>2, <1>3, <1>4, PTL DEF Spec, Sets!Spec

\* The main layer changes only after the operator was asked about it
\* (ConnectionSchedulePopover), whatever he clicks, drags, picks and takes back in
\* whatever order, for all rules, markets, dates and bounds.
THEOREM DeskAsksAboutMain == Spec => []MainChangeIsAsked
  <1>1. Schedule!Spec => []Schedule!MainChangeIsAsked
    BY MainIsAskedFirst
  <1>2. Schedule!MainChangeIsAsked => MainChangeIsAsked
    BY DEF MainChangeIsAsked
  <1>3. screen # "schedule" => MainChangeIsAsked
    BY DEF MainChangeIsAsked
  <1> QED
    BY <1>1, <1>2, <1>3, SchedulePlays, PTL

\* No answer, no list of rules that arrives and no save of another operator takes the
\* unsaved draft from the operator who edits it, or changes what it is compared with,
\* in whatever order they come.
THEOREM DeskKeepsUnsaved == Spec => UnsavedKept
  <1>1. Schedule!Spec => [][Schedule!NetKeepsUnsaved]_(Schedule!editorVars)
    BY NetTakesNothing DEF Schedule!UnsavedKept
  <1>2. [Schedule!NetKeepsUnsaved]_(Schedule!editorVars)
          => [screen = "schedule" => Schedule!NetKeepsUnsaved]_screenVars
    BY DEF Schedule!editorVars, Schedule!netVars, Schedule!NetKeepsUnsaved, screenVars, scheduleVars
  <1>3. screen # "schedule" => [screen = "schedule" => Schedule!NetKeepsUnsaved]_screenVars
    OBVIOUS
  <1> QED
    BY <1>1, <1>2, <1>3, SchedulePlays, PTL DEF UnsavedKept

\* On the desk whatever rules arrive are painted as they are due.
THEOREM DeskPaintsAsDue == Spec => IdleIsNotConnected
  <1>1. Schedule!Spec => [][Schedule!NewRulesPaintedAsDue]_(Schedule!editorVars)
    BY ArrivedIsPaintedAsDue DEF Schedule!IdleIsNotConnected
  <1>2. [Schedule!NewRulesPaintedAsDue]_(Schedule!editorVars)
          => [screen = "schedule" => Schedule!NewRulesPaintedAsDue]_screenVars
    BY DEF Schedule!editorVars, Schedule!NewRulesPaintedAsDue, screenVars, scheduleVars
  <1>3. screen # "schedule" => [screen = "schedule" => Schedule!NewRulesPaintedAsDue]_screenVars
    OBVIOUS
  <1> QED
    BY <1>1, <1>2, <1>3, SchedulePlays, PTL DEF IdleIsNotConnected

\* A view the timeline shows is the one a reload would show.
ViewIsKept == screen = "axis" => Axis!ReloadKeepsView
\* The same of the desk, for all views, frames, flags and clicks.
THEOREM DeskKeepsView == Spec => []ViewIsKept
  <1>1. Axis!Spec => []Axis!ReloadKeepsView
    BY AxisKeepsView
  <1>2. Axis!ReloadKeepsView => ViewIsKept
    BY DEF ViewIsKept
  <1>3. screen # "axis" => ViewIsKept
    BY DEF ViewIsKept
  <1> QED
    BY <1>1, <1>2, <1>3, AxisPlays, PTL

\* The axis shows the choice, the cursor tells its time and a reload keeps the view, for
\* all views, frames, filters, hours, extents and clicks.
THEOREM DeskAxisIsTrue == Spec => []AxisIsTrue
  <1>1. Axis!Spec => [](Axis!AxisIsChosen /\ Axis!CursorIsTrue)
    BY AxisIsShown
  <1>2. Axis!Spec => []Axis!ReloadKeepsView
    BY AxisKeepsView
  <1>3. (Axis!AxisIsChosen /\ Axis!CursorIsTrue) /\ Axis!ReloadKeepsView => AxisIsTrue
    BY DEF AxisIsTrue
  <1>4. screen # "axis" => AxisIsTrue
    BY DEF AxisIsTrue
  <1> QED
    BY <1>1, <1>2, <1>3, <1>4, AxisPlays, PTL

\* At rest every layer of the ribbons is of the context, window and frame that are shown
\* (RibbonSync and the timeline's effects), for all contexts, windows and frames.
THEOREM DeskRestIsCurrent == Spec => []RestIsCurrent
  <1>1. Refresh!Spec => []Refresh!RestIsCurrent
    BY Refresh!LayersAreCurrent
  <1>2. Refresh!RestIsCurrent => RestIsCurrent
    BY DEF RestIsCurrent
  <1>3. screen # "refresh" => RestIsCurrent
    BY DEF RestIsCurrent
  <1> QED
    BY <1>1, <1>2, <1>3, RefreshPlays, PTL

\* The ribbon shows what happened to the link, for all rows, changes, crashes and reports.
THEOREM DeskRibbonIsTrue == Spec => []RibbonIsTrue
  <1>1. Ribbon!Spec => []Ribbon!RibbonIsTrue
    BY RibbonShowsLink
  <1>2. Ribbon!RibbonIsTrue => RibbonIsTrue
    BY DEF RibbonIsTrue
  <1>3. screen # "ribbon" => RibbonIsTrue
    BY DEF RibbonIsTrue
  <1> QED
    BY <1>1, <1>2, <1>3, RibbonPlays, PTL

\* No row of the connections stays busy without a request under way, for all ids and budgets.
THEOREM DeskNothingHangs == Spec => []NothingHangs
  <1>1. Panel!Spec => []Panel!NothingHangs
    BY Panel!RowsGoOn
  <1>2. Panel!NothingHangs => NothingHangs
    BY DEF NothingHangs
  <1>3. screen # "desk" => NothingHangs
    BY DEF NothingHangs
  <1> QED
    BY <1>1, <1>2, <1>3, PanelPlays, PTL

\* Every open node of the catalogue is loaded or being loaded, no series has two
\* operations at a time, and the query is the one its chips stand for, whatever is
\* opened, starred, recorded, reloaded or cut off meanwhile, for all options.
THEOREM DeskTreeIsServed == Spec => []TreeIsServed
  <1>1. Tree!Spec => []Tree!TreeIsServed
    BY TreeGoesOn
  <1>2. Tree!TreeIsServed => TreeIsServed
    BY DEF TreeIsServed
  <1>3. screen # "tree" => TreeIsServed
    BY DEF TreeIsServed
  <1> QED
    BY <1>1, <1>2, <1>3, TreePlays, PTL

\* The editor of sets shows and sends what belongs to the set it edits, for all
\* instruments, sets and budgets.
THEOREM DeskEditorIsTrue == Spec => []EditorIsTrue
  <1>1. Sets!Spec => []Sets!EditorIsTrue
    BY EditorBelongsToSet
  <1>2. Sets!EditorIsTrue => EditorIsTrue
    BY DEF EditorIsTrue
  <1>3. screen # "sets" => EditorIsTrue
    BY DEF EditorIsTrue
  <1> QED
    BY <1>1, <1>2, <1>3, SetsPlay, PTL
=============================================================================
