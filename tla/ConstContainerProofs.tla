------------------------ MODULE ConstContainerProofs ------------------------
(***************************************************************************)
(* What ConstContainer promises for every number of constants and every    *)
(* set of regexes: ContainerInv is inductive, and the properties the TLC   *)
(* runs check follow from it.  The last part shows that it implements      *)
(* Marks, by one lemma per kind of call.                                   *)
(***************************************************************************)
EXTENDS ConstContainer, FiniteSetTheorems, TLAPS

\* Probing the cache yields an outcome, never grows the cache beyond the
\* regexes a caller submitted, and leaves it alone when it fails.
LEMMA ProbeType ==
  ASSUME NEW re \in Regexes, re_cache \subseteq Regexes, ProbeRe(re)
  PROVE  /\ outcome' \in Outcomes
         /\ re_cache' \subseteq Regexes
         /\ outcome' # "ok" => re_cache' = re_cache
BY DEF ProbeRe, BuildRe, Outcomes

\* A set of constants is finite, whatever N is.
LEMMA IdsFinite ==
  ASSUME NEW S \in SUBSET Ids
  PROVE  Cardinality(S) \in Nat
<1>1. IsFiniteSet(Ids)
  BY FS_Interval, ContainerAssumption DEF Ids
<1>2. IsFiniteSet(S)
  BY <1>1, FS_Subset
<1>. QED BY <1>2, FS_CardinalityType

\* A sequence filter() may build: ordered, and made of matched constants.
LEMMA InOrderSeq ==
  ASSUME NEW S \in SUBSET Ids, NEW s \in InOrder(S)
  PROVE  /\ s \in Seq(Ids)
         /\ s \in Seq(Ids \cup {None})
         /\ \A k \in DOMAIN s : s[k] \in S /\ s[k] # None
         /\ \A j, k \in DOMAIN s : j < k => s[j] < s[k]
<1>. DEFINE n == Cardinality(S)
<1>1. n \in Nat
  BY IdsFinite
<1>2. s \in [1..n -> S]
  BY DEF InOrder
<1>3. \A j, k \in DOMAIN s : j < k => s[j] < s[k]
  BY DEF InOrder
<1>4. \A k \in DOMAIN s : s[k] \in S /\ s[k] # None
  BY <1>2, ContainerAssumption DEF Ids, None
<1>. HIDE DEF n
<1>5. s \in [1..n -> Ids] /\ s \in [1..n -> Ids \cup {None}]
  BY <1>2
<1>6. s \in Seq(Ids) /\ s \in Seq(Ids \cup {None})
  BY <1>1, <1>5
<1>. QED BY <1>3, <1>4, <1>6

\* Both shapes of a view keep constants in separate slots.
LEMMA ShapeDistinct ==
  ASSUME TypeOK, ViewShape
  PROVE  SlotsAreDistinct
<1>. SUFFICES ASSUME NEW j \in DOMAIN source, NEW k \in DOMAIN source,
                     source[j] = source[k], source[j] # None
              PROVE  j = k
  BY DEF SlotsAreDistinct
<1>. DOMAIN source = 1..Len(source) /\ Len(source) \in Nat
  BY DEF TypeOK
<1>. \A i \in DOMAIN source : source[i] \in Nat
  BY ContainerAssumption DEF TypeOK, Ids, None
<1>1. CASE Grid
  BY <1>1 DEF Grid
<1>2. CASE Picked
  BY <1>2 DEF Picked
<1>. QED BY <1>1, <1>2 DEF ViewShape

\* A view made by filter() is never longer than the container, and if it is as
\* long it is the view over every constant.
LEMMA PickedFits ==
  ASSUME TypeOK, Picked
  PROVE  Len(source) <= N /\ (Len(source) = N => Grid)
<1>. DEFINE n == Len(source)
<1>1. N \in Nat /\ n \in Nat /\ DOMAIN source = 1..n
  BY ContainerAssumption DEF TypeOK
<1>2. \A k \in 1..n : source[k] \in 1..N
  <2>1. source \in Seq(Ids \cup {None})
    BY DEF TypeOK
  <2>2. \A k \in 1..n : source[k] \in Ids \cup {None}
    BY <1>1, <2>1
  <2>3. \A k \in 1..n : source[k] # None
    BY <1>1 DEF Picked
  <2>. QED BY <2>2, <2>3 DEF Ids
<1>3. \A j, k \in DOMAIN source : j < k => source[j] < source[k]
  BY DEF Picked
<1>. HIDE DEF n
\* Strictly increasing, the view does not squeeze an interval of slots into a
\* smaller interval of constants.
<1>. DEFINE Fits(a, b, c, d) ==
              /\ a <= b /\ a..b \subseteq DOMAIN source
              /\ \A i \in a..b : source[i] \in c..d
              => b - a <= d - c /\ c <= d
<1>0. \A a, b, c, d \in Nat : Fits(a, b, c, d)
  <2>. SUFFICES ASSUME NEW a \in Nat, NEW b \in Nat, NEW c \in Nat, NEW d \in Nat,
                       a <= b, a..b \subseteq DOMAIN source,
                       \A i \in a..b : source[i] \in c..d
                PROVE  b - a <= d - c /\ c <= d
    OBVIOUS
  <2>. SUFFICES ASSUME ~(b - a <= d - c /\ c <= d) PROVE FALSE
    OBVIOUS
  <2>. DEFINE f == [k \in a..b |-> source[k]]
  <2>1. IsFiniteSet(a..b) /\ Cardinality(a..b) = b - a + 1
    BY FS_Interval
  <2>2. IsFiniteSet(c..d) /\ Cardinality(c..d) = IF c > d THEN 0 ELSE d - c + 1
    BY FS_Interval
  <2>3. Cardinality(c..d) < Cardinality(a..b)
    BY <2>1, <2>2
  <2>4. f \in [a..b -> c..d]
    OBVIOUS
  <2>5. PICK x, y \in a..b : x # y /\ f[x] = f[y]
    <3>. HIDE DEF f
    <3>. QED BY <2>1, <2>2, <2>3, <2>4, FS_PigeonHole
  <2>6. /\ source[x] = source[y] /\ source[x] \in Nat /\ source[y] \in Nat
        /\ x \in DOMAIN source /\ y \in DOMAIN source
    BY <2>5
  <2>7. (x < y => source[x] < source[y]) /\ (y < x => source[y] < source[x])
    BY <1>3, <2>6
  <2>. QED BY <2>5, <2>6, <2>7
<1>. HIDE DEF Fits
<1>4. n <= N
  <2>1. CASE n = 0
    BY <1>1, <2>1
  <2>2. CASE n # 0
    <3>1. Fits(1, n, 1, N)
      BY <1>0, <1>1
    <3>. QED BY <1>1, <1>2, <2>2, <3>1 DEF Fits
  <2>. QED BY <2>1, <2>2
<1>5. ASSUME n = N, NEW k \in 1..n
      PROVE  source[k] = k
  <2>1. k \in 1..N /\ source[k] \in 1..N
    BY <1>1, <1>2, <1>5
  <2>2. \A i \in 1..k : source[i] \in 1..source[k]
    <3>. SUFFICES ASSUME NEW i \in 1..k PROVE source[i] \in 1..source[k]
      OBVIOUS
    <3>1. i \in 1..n /\ source[i] \in 1..N /\ (i = k \/ i < k)
      BY <1>1, <1>2, <2>1
    <3>2. i < k => source[i] < source[k]
      BY <1>1, <1>3, <1>5, <3>1
    <3>. QED BY <2>1, <3>1, <3>2
  <2>3. \A i \in k..n : source[i] \in source[k]..N
    <3>. SUFFICES ASSUME NEW i \in k..n PROVE source[i] \in source[k]..N
      OBVIOUS
    <3>1. i \in 1..n /\ source[i] \in 1..N /\ (i = k \/ k < i)
      BY <1>1, <1>2, <2>1
    <3>2. k < i => source[k] < source[i]
      BY <1>1, <1>3, <1>5, <3>1
    <3>. QED BY <2>1, <3>1, <3>2
  <2>4. PICK c \in Nat : c = source[k]
    BY <2>1
  <2>5. 1..k \subseteq DOMAIN source
    BY <1>1, <2>1
  <2>6. k..n \subseteq DOMAIN source
    BY <1>1, <2>1
  <2>7. Fits(1, k, 1, c) /\ Fits(k, n, c, N)
    BY <1>0, <1>1, <2>1
  <2>8. k - 1 <= c - 1
    BY <2>1, <2>2, <2>4, <2>5, <2>7 DEF Fits
  <2>9. n - k <= N - c
    BY <1>1, <1>5, <2>1, <2>3, <2>4, <2>6, <2>7 DEF Fits
  <2>. QED BY <1>1, <1>5, <2>1, <2>4, <2>8, <2>9
<1>. QED BY <1>1, <1>4, <1>5 DEF Grid, n

\* The view borrowed() makes: every constant in its own slot.
LEMMA FullViewShape ==
  /\ FullView \in Seq(Ids) /\ FullView \in Seq(Ids \cup {None})
  /\ Len(FullView) = N /\ DOMAIN FullView = Ids
  /\ \A k \in Ids : FullView[k] = k
<1>1. FullView \in [1..N -> Ids] /\ FullView \in [1..N -> Ids \cup {None}]
  BY DEF FullView, Ids
<1>2. N \in Nat
  BY ContainerAssumption
<1>. QED BY <1>1, <1>2 DEF FullView, Ids

\* Baselines recorded for the slots of a new view are the memory state.
LEMMA BaselineShape ==
  ASSUME NEW s \in Seq(Ids), deprecated \in [Ids -> BOOLEAN]
  PROVE  /\ BaselineOf(s) \in Seq(BOOLEAN)
         /\ Len(BaselineOf(s)) = Len(s)
         /\ \A k \in DOMAIN s : BaselineOf(s)[k] = deprecated[s[k]]
<1>1. DOMAIN s = 1..Len(s) /\ Len(s) \in Nat /\ \A k \in DOMAIN s : s[k] \in Ids
  OBVIOUS
<1>2. BaselineOf(s) \in [1..Len(s) -> BOOLEAN]
  BY <1>1 DEF BaselineOf
<1>3. BaselineOf(s) \in Seq(BOOLEAN) /\ Len(BaselineOf(s)) = Len(s)
  BY <1>1, <1>2
<1>. QED BY <1>1, <1>3 DEF BaselineOf

\* A view of the whole container lists every constant in order.
LEMMA FullBaseline ==
  ASSUME deprecated \in [Ids -> BOOLEAN]
  PROVE  /\ BaselineOf(FullView) \in Seq(BOOLEAN)
         /\ Len(BaselineOf(FullView)) = N
         /\ \A k \in Ids : BaselineOf(FullView)[k] = deprecated[k]
<1>1. FullView \in Seq(Ids)
  BY FullViewShape
<1>2. /\ BaselineOf(FullView) \in Seq(BOOLEAN)
      /\ Len(BaselineOf(FullView)) = Len(FullView)
      /\ \A k \in DOMAIN FullView : BaselineOf(FullView)[k] = deprecated[FullView[k]]
  BY <1>1, BaselineShape
<1>. QED BY <1>2, FullViewShape

\* The container starts out in order.
LEMMA InitInv == Init => ContainerInv
<1>. SUFFICES ASSUME Init PROVE ContainerInv
  OBVIOUS
<1>0. deprecated \in [Ids -> BOOLEAN] /\ init_state = BaselineOf(FullView)
  BY DEF Init
<1>1. /\ init_state \in Seq(BOOLEAN) /\ Len(init_state) = N
      /\ \A k \in Ids : init_state[k] = deprecated[k]
  BY <1>0, FullBaseline
<1>2. TypeOK
  <2>1. Len(init_state) = Len(source) /\ source \in Seq(Ids \cup {None})
    BY <1>1, FullViewShape DEF Init
  <2>2. current \in Regexes
    BY ContainerAssumption DEF Init
  <2>3. modified \in [Ids -> BOOLEAN] /\ covered \in [Ids -> 0..2]
    BY DEF Init
  <2>4. loaded \in [Ids -> BOOLEAN]
    BY DEF Init
  <2>5. re_cache \subseteq Regexes /\ untracked \subseteq Ids /\ regrown \in BOOLEAN
    BY DEF Init
  <2>6. outcome \in Outcomes
    BY DEF Init, Outcomes
  <2>7. entered \in [Ids -> BOOLEAN] /\ moved \subseteq Ids
    BY DEF Init
  <2>. QED BY <1>0, <1>1, <2>1, <2>2, <2>3, <2>4, <2>5, <2>6, <2>7 DEF TypeOK
<1>3. Grid /\ Len(source) = N
  BY FullViewShape DEF Init, Grid
<1>4. ShownIsMatched
  BY FullViewShape, ContainerAssumption DEF Init, ShownIsMatched, Shown
<1>5. BaselineTracksMemory
  BY <1>1, FullViewShape DEF Init, BaselineTracksMemory
<1>6. HiddenBaselines
  BY <1>1 DEF HiddenBaselines
<1>7. UncoveredIsLoaded /\ FlagExactWhenCoveredOnce
  BY DEF Init, UncoveredIsLoaded, FlagExactWhenCoveredOnce
<1>8. EntryBaselines
  BY <1>1, FullViewShape DEF Init, EntryBaselines
<1>. QED BY <1>2, <1>3, <1>4, <1>5, <1>6, <1>7, <1>8 DEF ContainerInv, ViewShape

-----------------------------------------------------------------------------
(* One lemma per operation. *)

\* Making a view of all constants keeps ContainerInv.
LEMMA BorrowedStep == ContainerInv /\ Borrowed => ContainerInv'
<1>. SUFFICES ASSUME ContainerInv, Borrowed PROVE ContainerInv'
  OBVIOUS
<1>. USE DEF Borrowed, Entering
<1>0. TypeOK
  BY DEF ContainerInv
<1>1. /\ init_state' \in Seq(BOOLEAN) /\ Len(init_state') = N
      /\ \A k \in Ids : init_state'[k] = deprecated[k]
  BY <1>0, FullBaseline DEF TypeOK
<1>2. TypeOK'
  <2>1. Len(init_state') = Len(source') /\ source' \in Seq(Ids \cup {None})
    BY <1>1, FullViewShape
  <2>2. current' \in Regexes
    BY ContainerAssumption
  <2>. QED BY <1>0, <1>1, <2>1, <2>2 DEF TypeOK, Outcomes
<1>3. (Grid /\ Len(source) = N)'
  BY FullViewShape DEF Grid
<1>4. ShownIsMatched'
  BY FullViewShape, ContainerAssumption DEF ShownIsMatched, Shown
<1>5. BaselineTracksMemory'
  BY <1>1, FullViewShape DEF BaselineTracksMemory
<1>6. HiddenBaselines'
  BY <1>1 DEF HiddenBaselines
<1>7. (UncoveredIsLoaded /\ FlagExactWhenCoveredOnce)'
  BY DEF ContainerInv, UncoveredIsLoaded, FlagExactWhenCoveredOnce
<1>8. EntryBaselines'
  BY <1>1, FullViewShape DEF EntryBaselines
<1>. QED BY <1>2, <1>3, <1>4, <1>5, <1>6, <1>7, <1>8 DEF ContainerInv, ViewShape

\* A filter() keeps ContainerInv.
LEMMA FilterStep ==
  ASSUME ContainerInv, NEW re \in Regexes, Filter(re)
  PROVE  ContainerInv'
<1>. USE DEF Filter, Entering
<1>0. TypeOK
  BY DEF ContainerInv
<1>1. outcome' \in Outcomes /\ re_cache' \subseteq Regexes
  BY <1>0, ProbeType DEF TypeOK
<1>7. (UncoveredIsLoaded /\ FlagExactWhenCoveredOnce)'
  BY DEF ContainerInv, UncoveredIsLoaded, FlagExactWhenCoveredOnce
<1>8. CASE outcome' = "ok"
  <2>0. Match[re] \in SUBSET Ids
    BY ContainerAssumption
  <2>1. source' \in InOrder(Match[re])
    BY <1>8
  <2>2. /\ source' \in Seq(Ids) /\ source' \in Seq(Ids \cup {None})
        /\ \A k \in DOMAIN source' : source'[k] \in Match[re] /\ source'[k] # None
        /\ \A j, k \in DOMAIN source' : j < k => source'[j] < source'[k]
    BY <2>0, <2>1, InOrderSeq
  <2>3. /\ init_state' \in Seq(BOOLEAN) /\ Len(init_state') = Len(source')
        /\ \A k \in DOMAIN source' : init_state'[k] = deprecated[source'[k]]
    BY <1>0, <1>8, <2>2, BaselineShape DEF TypeOK
  <2>4. TypeOK'
    BY <1>0, <1>1, <1>8, <2>2, <2>3 DEF TypeOK
  <2>5. Picked' /\ ~regrown'
    BY <1>8, <2>2 DEF Picked
  <2>6. ShownIsMatched'
    BY <1>8, <2>2 DEF ShownIsMatched, Shown
  <2>7. BaselineTracksMemory'
    BY <2>3 DEF BaselineTracksMemory
  <2>8. HiddenBaselines'
    \* The view filter() makes is on the grid only when it is the full view.
    <3>. SUFFICES ASSUME Grid', Len(source') = N, NEW k \in Ids
                  PROVE  init_state'[k] = deprecated'[k]
      BY DEF HiddenBaselines
    <3>1. k \in DOMAIN source'
      BY <2>2 DEF Ids
    <3>2. source'[k] = k
      BY <2>2, <3>1 DEF Grid
    <3>. QED BY <2>3, <3>1, <3>2
  <2>9. EntryBaselines'
    <3>1. \A k \in DOMAIN source' : init_state'[k] = entered'[source'[k]]
      BY <1>8, <2>3
    <3>2. ASSUME Grid', Len(source') = N, NEW k \in Ids
          PROVE  k \in DOMAIN source' /\ source'[k] = k
      <4>1. k \in DOMAIN source'
        BY <2>2, <3>2 DEF Ids
      <4>. QED BY <2>2, <3>2, <4>1 DEF Grid
    <3>. QED BY <3>1, <3>2 DEF EntryBaselines
  <2>. QED BY <1>7, <2>4, <2>5, <2>6, <2>7, <2>8, <2>9 DEF ContainerInv, ViewShape
<1>9. CASE outcome' # "ok"
  <2>1. UNCHANGED <<source, init_state, current, regrown, deprecated, untracked, entered, moved>>
    BY <1>9
  <2>2. TypeOK'
    BY <1>0, <1>1, <2>1 DEF TypeOK
  <2>3. ViewShape' /\ ShownIsMatched' /\ BaselineTracksMemory'
    BY <2>1 DEF ContainerInv, ViewShape, Grid, Picked, ShownIsMatched, Shown,
                BaselineTracksMemory
  <2>4. HiddenBaselines' /\ EntryBaselines'
    BY <2>1 DEF ContainerInv, Grid, HiddenBaselines, EntryBaselines
  <2>. QED BY <1>7, <2>2, <2>3, <2>4 DEF ContainerInv
<1>. QED BY <1>8, <1>9

\* A filter_with() keeps ContainerInv.
LEMMA FilterWithStep ==
  ASSUME ContainerInv, NEW re \in Regexes, FilterWith(re)
  PROVE  ContainerInv'
<1>. USE DEF FilterWith, RefillSlots
<1>0. TypeOK
  BY DEF ContainerInv
<1>1. outcome' \in Outcomes /\ re_cache' \subseteq Regexes
  BY <1>0, ProbeType DEF TypeOK
<1>7. (UncoveredIsLoaded /\ FlagExactWhenCoveredOnce)'
  BY DEF ContainerInv, UncoveredIsLoaded, FlagExactWhenCoveredOnce
<1>8. CASE outcome' = "ok"
  <2>0. Match[re] \in SUBSET Ids
    BY ContainerAssumption
  <2>1. DOMAIN source = 1..Len(source) /\ Len(source) \in Nat
    BY <1>0 DEF TypeOK
  <2>2. source' = [k \in 1..Len(source) |-> IF k \in Match[re] THEN k ELSE None]
    BY <1>8, <2>1
  <2>3. source' \in [1..Len(source) -> Ids \cup {None}]
    BY <2>0, <2>2
  <2>4. source' \in Seq(Ids \cup {None}) /\ Len(source') = Len(source)
        /\ DOMAIN source' = DOMAIN source
    BY <2>1, <2>2, <2>3
  <2>5. TypeOK'
    BY <1>0, <1>1, <1>8, <2>4 DEF TypeOK
  <2>6. Grid'
    BY <2>1, <2>2 DEF Grid
  <2>7. \A k \in DOMAIN source' : source'[k] # None => k \in Match[re] /\ source'[k] = k
    BY <2>1, <2>2
  <2>8. ShownIsMatched'
    BY <1>8, <2>7 DEF ShownIsMatched, Shown
  <2>9. ~regrown => Len(source) <= N /\ (Len(source) = N => Grid)
    BY <1>0, PickedFits, ContainerAssumption DEF ContainerInv, ViewShape
  <2>11. ViewShape'
    <3>1. CASE regrown'
      BY <2>6, <3>1 DEF ViewShape
    <3>2. CASE ~regrown'
      <4>1. ~regrown /\ ~(Len(source) < N)
        BY <1>8, <3>2, Zenon
      <4>2. Len(source') = N
        BY <2>1, <2>4, <2>9, <4>1, ContainerAssumption
      <4>. QED BY <2>6, <4>2 DEF ViewShape
    <3>. QED BY <3>1, <3>2
  <2>12. ~regrown' => ~regrown /\ Len(source) = N
    <3>1. ~regrown' => ~regrown /\ ~(Len(source) < N)
      BY <1>8, Zenon
    <3>. QED BY <2>1, <2>9, <3>1, ContainerAssumption
  <2>13. ASSUME ~regrown', NEW k \in Ids, k \notin untracked
         PROVE  init_state[k] = deprecated[k]
    <3>1. ~regrown /\ Len(source) = N
      BY <2>12, <2>13
    <3>2. Grid
      BY <2>9, <3>1
    <3>. QED BY <2>13, <3>1, <3>2 DEF ContainerInv, HiddenBaselines
  <2>14. BaselineTracksMemory'
    BY <2>0, <2>7, <2>13 DEF BaselineTracksMemory
  <2>15. HiddenBaselines'
    BY <2>13 DEF HiddenBaselines
  <2>16. ASSUME ~regrown', NEW k \in Ids, k \notin moved
         PROVE  init_state[k] = entered[k]
    <3>1. ~regrown /\ Len(source) = N
      BY <2>12, <2>16
    <3>2. Grid
      BY <2>9, <3>1
    <3>. QED BY <2>16, <3>1, <3>2 DEF ContainerInv, EntryBaselines
  <2>17. EntryBaselines'
    BY <2>0, <2>7, <2>16 DEF EntryBaselines
  <2>. QED BY <1>7, <2>5, <2>8, <2>11, <2>14, <2>15, <2>17 DEF ContainerInv
<1>9. CASE outcome' # "ok"
  <2>1. UNCHANGED <<source, init_state, current, regrown, deprecated, untracked, entered, moved>>
    BY <1>9
  <2>2. TypeOK'
    BY <1>0, <1>1, <2>1 DEF TypeOK
  <2>3. ViewShape' /\ ShownIsMatched' /\ BaselineTracksMemory'
    BY <2>1 DEF ContainerInv, ViewShape, Grid, Picked, ShownIsMatched, Shown,
                BaselineTracksMemory
  <2>4. HiddenBaselines' /\ EntryBaselines'
    BY <2>1 DEF ContainerInv, Grid, HiddenBaselines, EntryBaselines
  <2>. QED BY <1>7, <2>2, <2>3, <2>4 DEF ContainerInv
<1>. QED BY <1>8, <1>9

\* A bulk change of a view, or of some of its slots, keeps ContainerInv.
LEMMA BulkStep ==
  ASSUME ContainerInv, NEW P \in SUBSET (DOMAIN source), NEW yes \in BOOLEAN,
         BulkSet(P, yes)
  PROVE  ContainerInv'
<1>. DEFINE hit == {k \in P : source[k] # None}
            ids == {source[k] : k \in hit}
<1>0. TypeOK /\ ViewShape
  BY DEF ContainerInv
<1>a. ids = {source[k] : k \in P} \ {None}
  OBVIOUS
<1>b. \A i \in ids : Differs(P, yes, i) <=> \E k \in hit : source[k] = i /\ init_state[k] # yes
  BY DEF Differs
<1>c. Rebased(P, yes) = [k \in DOMAIN init_state |-> IF k \in hit THEN yes ELSE init_state[k]]
  BY DEF Rebased
<1>. HIDE DEF ids, hit
<1>1. /\ deprecated' = [i \in Ids |-> IF i \in ids THEN yes ELSE deprecated[i]]
      /\ modified' = [i \in Ids |-> IF i \in ids THEN Differs(P, yes, i) ELSE modified[i]]
      /\ init_state' = [k \in DOMAIN init_state |-> IF k \in hit THEN yes ELSE init_state[k]]
      /\ covered' = [i \in Ids |-> IF i \in ids /\ covered[i] < 2
                                   THEN covered[i] + 1 ELSE covered[i]]
      /\ outcome' = "ok"
      /\ untracked' = IF regrown THEN untracked \cup ids ELSE untracked
      /\ moved' = moved \cup ids
      /\ UNCHANGED <<re_cache, source, loaded, current, regrown, entered>>
  BY <1>a, <1>c DEF BulkSet
<1>. USE DEF ids, hit
<1>2. /\ DOMAIN source = 1..Len(source) /\ Len(source) \in Nat
      /\ DOMAIN init_state = DOMAIN source
      /\ \A k \in DOMAIN source : source[k] \in Ids \cup {None}
      /\ None \notin Ids
  BY <1>0 DEF TypeOK, Ids, None
<1>3. ids \subseteq Ids
  BY <1>2
<1>4. \A k \in DOMAIN source : source[k] \in ids => k \in hit
  BY <1>0, <1>2, ShapeDistinct DEF SlotsAreDistinct
<1>. HIDE DEF ids
<1>5. \A i \in ids : \E k \in hit : source[k] = i
  BY DEF ids
<1>6. \A k \in hit : source[k] \in ids
  BY DEF ids
<1>7. TypeOK'
  <2>1. init_state' \in [1..Len(source) -> BOOLEAN]
    BY <1>0, <1>1, <1>2 DEF TypeOK
  <2>2. init_state' \in Seq(BOOLEAN) /\ Len(init_state') = Len(source)
    BY <1>2, <2>1
  <2>3. deprecated' \in [Ids -> BOOLEAN] /\ modified' \in [Ids -> BOOLEAN]
    BY <1>0, <1>1 DEF TypeOK, Differs
  <2>4. covered' \in [Ids -> 0..2]
    BY <1>0, <1>1 DEF TypeOK
  <2>5. untracked' \subseteq Ids /\ moved' \subseteq Ids
    BY <1>0, <1>1, <1>3 DEF TypeOK
  <2>. QED BY <1>0, <1>1, <2>2, <2>3, <2>4, <2>5 DEF TypeOK, Outcomes
<1>8. ShownIsMatched' /\ ViewShape'
  BY <1>1 DEF ContainerInv, ShownIsMatched, Shown, ViewShape, Grid, Picked
<1>9. BaselineTracksMemory'
  <2>. SUFFICES ASSUME ~regrown, NEW k \in DOMAIN source,
                       source[k] # None, source[k] \notin untracked
                PROVE  init_state'[k] = deprecated'[source[k]]
    BY <1>1 DEF BaselineTracksMemory
  <2>1. init_state[k] = deprecated[source[k]] /\ source[k] \in Ids
    BY <1>2 DEF ContainerInv, BaselineTracksMemory
  <2>2. CASE k \in hit
    BY <1>1, <1>2, <1>6, <2>1, <2>2
  <2>3. CASE k \notin hit
    BY <1>1, <1>2, <1>4, <2>1, <2>3
  <2>. QED BY <2>2, <2>3
<1>10. HiddenBaselines'
  <2>. SUFFICES ASSUME Grid, ~regrown, Len(source) = N,
                       NEW k \in Ids, k \notin untracked
                PROVE  init_state'[k] = deprecated'[k]
    BY <1>1 DEF HiddenBaselines, Grid
  <2>1. k \in DOMAIN source /\ init_state[k] = deprecated[k]
    BY <1>2 DEF Ids, ContainerInv, HiddenBaselines
  <2>2. CASE k \in hit
    BY <1>1, <1>2, <1>6, <2>1, <2>2 DEF Grid
  <2>3. CASE k \notin hit
    <3>1. k \notin ids
      BY <1>2, <1>5, <2>3 DEF Grid
    <3>. QED BY <1>1, <1>2, <2>1, <2>3, <3>1
  <2>. QED BY <2>2, <2>3
<1>11. \A i \in ids : covered'[i] # 0 /\ (covered'[i] <= 1 => covered[i] = 0)
  BY <1>0, <1>1, <1>3 DEF TypeOK
<1>12. UncoveredIsLoaded'
  <2>. SUFFICES ASSUME NEW i \in Ids, covered'[i] = 0, i \notin untracked'
                PROVE  deprecated'[i] = loaded[i] /\ ~modified'[i]
    BY <1>1 DEF UncoveredIsLoaded
  <2>1. i \notin ids /\ i \notin untracked
    BY <1>1, <1>11
  <2>2. covered[i] = 0
    BY <1>1, <2>1
  <2>3. deprecated[i] = loaded[i] /\ ~modified[i]
    BY <2>1, <2>2 DEF ContainerInv, UncoveredIsLoaded
  <2>. QED BY <1>1, <2>1, <2>3
<1>13. FlagExactWhenCoveredOnce'
  <2>. SUFFICES ASSUME NEW i \in Ids, covered'[i] <= 1, i \notin untracked'
                PROVE  modified'[i] <=> deprecated'[i] # loaded[i]
    BY <1>1 DEF FlagExactWhenCoveredOnce
  <2>1. i \notin untracked
    BY <1>1
  <2>2. CASE i \notin ids
    <3>1. covered[i] <= 1
      BY <1>1, <2>2
    <3>2. modified[i] <=> deprecated[i] # loaded[i]
      BY <2>1, <3>1 DEF ContainerInv, FlagExactWhenCoveredOnce
    <3>. QED BY <1>1, <2>2, <3>2
  <2>3. CASE i \in ids
    <3>1. ~regrown
      BY <1>1, <2>3
    <3>2. PICK k \in hit : source[k] = i
      BY <1>5, <2>3
    <3>3. init_state[k] = deprecated[i]
      BY <2>1, <3>1, <3>2 DEF ContainerInv, BaselineTracksMemory
    <3>4. deprecated[i] = loaded[i]
      BY <1>11, <2>1, <2>3 DEF ContainerInv, UncoveredIsLoaded
    <3>5. \A j \in hit : source[j] = i => j = k
      BY <1>0, <3>2, ShapeDistinct DEF SlotsAreDistinct
    <3>6. modified'[i] <=> init_state[k] # yes
      <4>1. modified'[i] = Differs(P, yes, i)
        BY <1>1, <2>3
      <4>. QED BY <1>b, <2>3, <3>2, <3>5, <4>1
    <3>7. deprecated'[i] = yes
      BY <1>1, <2>3
    <3>8. deprecated[i] \in BOOLEAN
      BY <1>0 DEF TypeOK
    <3>. QED BY <3>3, <3>4, <3>6, <3>7, <3>8
  <2>. QED BY <2>2, <2>3
<1>14. EntryBaselines'
  <2>1. ASSUME ~regrown, NEW k \in DOMAIN source, source[k] # None, source[k] \notin moved'
        PROVE  init_state'[k] = entered[source[k]]
    <3>1. source[k] \notin moved /\ k \notin hit
      BY <1>1, <1>6, <2>1
    <3>. QED BY <1>1, <1>2, <2>1, <3>1 DEF ContainerInv, EntryBaselines
  <2>2. ASSUME Grid, ~regrown, Len(source) = N, NEW k \in Ids, k \notin moved'
        PROVE  init_state'[k] = entered[k]
    <3>1. k \in DOMAIN source /\ k \notin moved
      BY <1>1, <1>2, <2>2 DEF Ids
    <3>2. k \notin hit
      BY <1>1, <1>2, <1>6, <2>2, <3>1 DEF Grid
    <3>. QED BY <1>1, <1>2, <2>2, <3>1, <3>2 DEF ContainerInv, EntryBaselines
  <2>. QED BY <1>1, <2>1, <2>2 DEF EntryBaselines, Grid
<1>. QED BY <1>7, <1>8, <1>9, <1>10, <1>12, <1>13, <1>14 DEF ContainerInv

\* A change by a visitor keeps ContainerInv.
LEMMA SelectMutStep ==
  ASSUME ContainerInv, NEW start, NEW end, NEW yes \in BOOLEAN,
         SelectMut(start, end, yes)
  PROVE  ContainerInv'
<1>. USE DEF SelectMut
<1>0. TypeOK
  BY DEF ContainerInv
<1>1. Reached(start, end) \subseteq Ids
  BY <1>0 DEF TypeOK, Reached
<1>2. TypeOK'
  BY <1>0, <1>1 DEF TypeOK, Outcomes
<1>3. ShownIsMatched' /\ ViewShape'
  BY DEF ContainerInv, ShownIsMatched, Shown, ViewShape, Grid, Picked
<1>4. \A i \in Ids : i \notin untracked' => deprecated'[i] = deprecated[i] /\ i \notin untracked
  OBVIOUS
<1>5. BaselineTracksMemory'
  BY <1>0, <1>4 DEF ContainerInv, BaselineTracksMemory, TypeOK
<1>6. HiddenBaselines'
  BY <1>4 DEF ContainerInv, HiddenBaselines, Grid
<1>7. UncoveredIsLoaded' /\ FlagExactWhenCoveredOnce'
  BY <1>4 DEF ContainerInv, UncoveredIsLoaded, FlagExactWhenCoveredOnce
<1>8. EntryBaselines'
  BY DEF ContainerInv, EntryBaselines, Grid
<1>. QED BY <1>2, <1>3, <1>5, <1>6, <1>7, <1>8 DEF ContainerInv

-----------------------------------------------------------------------------
(* The theorems *)

\* ContainerInv is inductive.
LEMMA NextInv == ContainerInv /\ [Next]_vars => ContainerInv'
<1>. SUFFICES ASSUME ContainerInv, [Next]_vars PROVE ContainerInv'
  OBVIOUS
<1>1. CASE Borrowed
  BY <1>1, BorrowedStep
<1>2. ASSUME NEW re \in Regexes, Filter(re) PROVE ContainerInv'
  BY <1>2, FilterStep
<1>3. ASSUME NEW re \in Regexes, FilterWith(re) PROVE ContainerInv'
  BY <1>3, FilterWithStep
<1>4. ASSUME NEW yes \in BOOLEAN, DeprecateView(yes) PROVE ContainerInv'
  BY <1>4, BulkStep DEF DeprecateView
<1>5. ASSUME NEW yes \in BOOLEAN, NEW start \in 0..Len(source), NEW end \in 0..Len(source),
             DeprecateSubset(start, end, yes)
      PROVE  ContainerInv'
  <2>1. (start + 1)..end \in SUBSET (DOMAIN source)
    BY DEF ContainerInv, TypeOK
  <2>. QED BY <1>5, <2>1, BulkStep DEF DeprecateSubset
<1>6. ASSUME NEW yes \in BOOLEAN, NEW start \in 0..Len(source), NEW end \in 0..Len(source),
             SelectMut(start, end, yes)
      PROVE  ContainerInv'
  BY <1>6, SelectMutStep
<1>7. CASE UNCHANGED vars
  BY <1>7 DEF vars, ContainerInv, TypeOK, ShownIsMatched, Shown, ViewShape, Grid, Picked,
              BaselineTracksMemory, HiddenBaselines, EntryBaselines, UncoveredIsLoaded,
              FlagExactWhenCoveredOnce
<1>. QED BY <1>1, <1>2, <1>3, <1>4, <1>5, <1>6, <1>7 DEF Next

\* ContainerInv holds throughout: what every session of calls relies on.
THEOREM ContainerInvariant == Spec => []ContainerInv
BY InitInv, NextInv, PTL DEF Spec

\* A flag decides rightly whether a constant is written to disk, for a constant
\* set by at most one bulk call and by no visitor, whatever the filters were.
THEOREM FlagIsExact == Spec => []FlagExactWhenCoveredOnce
<1>1. ContainerInv => FlagExactWhenCoveredOnce
  BY DEF ContainerInv
<1>. QED BY <1>1, ContainerInvariant, PTL

\* Every call leaves views and flags well formed: baselines stay parallel to
\* slots whatever the view is filled with.
THEOREM ContainerTypes == Spec => []TypeOK
<1>1. ContainerInv => TypeOK
  BY DEF ContainerInv
<1>. QED BY <1>1, ContainerInvariant, PTL

\* A view in use never refers to a constant outside the last regex.
THEOREM ViewShowsMatches == Spec => []ShownIsMatched
<1>1. ContainerInv => ShownIsMatched
  BY DEF ContainerInv
<1>. QED BY <1>1, ContainerInvariant, PTL

\* However a view was made and refilled, no constant sits in it twice.
THEOREM ViewHasNoTwins == Spec => []SlotsAreDistinct
<1>1. ContainerInv => SlotsAreDistinct
  BY ShapeDistinct DEF ContainerInv
<1>. QED BY <1>1, ContainerInvariant, PTL

\* The baselines of a view that was never outgrown follow the memory state.
THEOREM BaselinesFollowMemory == Spec => []BaselineTracksMemory
<1>1. ContainerInv => BaselineTracksMemory
  BY DEF ContainerInv
<1>. QED BY <1>1, ContainerInvariant, PTL

\* No call touches a constant the user has filtered out.
THEOREM HiddenConstantsAreSafe == Spec => OnlyShownChange
<1>. DEFINE A == \A i \in Ids : (deprecated'[i] # deprecated[i] \/ modified'[i] # modified[i])
                                  => i \in Shown
<1>1. ContainerInv /\ [Next]_vars => [A]_vars
  <2>. SUFFICES ASSUME ContainerInv, Next, NEW i \in Ids,
                       deprecated'[i] # deprecated[i] \/ modified'[i] # modified[i]
                PROVE  i \in Shown
    OBVIOUS
  <2>0. TypeOK /\ DOMAIN source = 1..Len(source) /\ Len(source) \in Nat
    BY DEF ContainerInv, TypeOK
  <2>1. ASSUME NEW P \in SUBSET (DOMAIN source), NEW yes, BulkSet(P, yes)
        PROVE  i \in Shown
    BY <2>1 DEF BulkSet, Shown
  <2>2. ASSUME NEW start, NEW end, NEW yes, SelectMut(start, end, yes)
        PROVE  i \in Shown
    BY <2>2 DEF SelectMut, Reached, Shown
  <2>3. ASSUME NEW yes, NEW start \in 0..Len(source), NEW end \in 0..Len(source),
               DeprecateSubset(start, end, yes)
        PROVE  i \in Shown
    <3>1. (start + 1)..end \in SUBSET (DOMAIN source)
      BY <2>0
    <3>. QED BY <2>1, <2>3, <3>1 DEF DeprecateSubset
  <2>4. ASSUME NEW yes, DeprecateView(yes)
        PROVE  i \in Shown
    BY <2>1, <2>4 DEF DeprecateView
  <2>5. ~Borrowed /\ \A re \in Regexes : ~Filter(re) /\ ~FilterWith(re)
    BY DEF Borrowed, Filter, FilterWith, RefillSlots
  <2>. QED BY <2>2, <2>3, <2>4, <2>5 DEF Next
<1>. QED BY <1>1, ContainerInvariant, PTL DEF Spec, OnlyShownChange

\* A failed filtering leaves view, cache and constants alone, so the caller may
\* go on with the view it has.
THEOREM FailureIsHarmless == Spec => FailedFilterIsNoOp
<1>. DEFINE A == outcome' # "ok"
                   => UNCHANGED <<re_cache, source, init_state, deprecated, modified>>
<1>1. ContainerInv /\ [Next]_vars => [A]_vars
  <2>. SUFFICES ASSUME ContainerInv, Next, outcome' # "ok"
                PROVE  UNCHANGED <<re_cache, source, init_state, deprecated, modified>>
    OBVIOUS
  <2>1. re_cache \subseteq Regexes
    BY DEF ContainerInv, TypeOK
  <2>2. ASSUME NEW re \in Regexes, Filter(re) \/ FilterWith(re)
        PROVE  UNCHANGED <<re_cache, source, init_state, deprecated, modified>>
    <3>1. ProbeRe(re)
      BY <2>2 DEF Filter, FilterWith, RefillSlots
    <3>2. re_cache' = re_cache
      BY <2>1, <3>1, ProbeType
    <3>. QED BY <2>2, <3>2 DEF Filter, FilterWith, RefillSlots
  <2>3. ~Borrowed
    BY DEF Borrowed
  <2>4. ASSUME NEW P, NEW yes PROVE ~BulkSet(P, yes)
    BY DEF BulkSet
  <2>5. ASSUME NEW start, NEW end, NEW yes PROVE ~SelectMut(start, end, yes)
    BY DEF SelectMut
  <2>. QED BY <2>2, <2>3, <2>4, <2>5 DEF Next, DeprecateView, DeprecateSubset
<1>. QED BY <1>1, ContainerInvariant, PTL DEF Spec, FailedFilterIsNoOp

-----------------------------------------------------------------------------
(* ConstContainer implements Marks *)

\* The first state is one of Marks.
LEMMA InitMarks == Init => M!Init
<1>. SUFFICES ASSUME Init PROVE M!Init
  OBVIOUS
<1>1. deprecated \in [Ids -> BOOLEAN] /\ modified = [i \in Ids |-> FALSE]
  BY DEF Init
<1>2. entered = deprecated /\ Unsure = {}
  BY DEF Init, Unsure
<1>3. Shown = Ids
  BY FullViewShape, ContainerAssumption DEF Init, Shown, Ids, None
<1>. QED BY <1>1, <1>2, <1>3 DEF M!Init

\* A view shows constants of the container.
LEMMA ShownType == TypeOK => Shown \subseteq Ids
BY DEF TypeOK, Shown

\* So it does after a call.
LEMMA ShownTypeNext == TypeOK' => Shown' \subseteq Ids
BY DEF TypeOK, Shown

-----------------------------------------------------------------------------
(* The steps *)

\* borrowed() and a filter() that succeeds make a new view.
LEMMA NewViewStep ==
  ASSUME ContainerInv', Entering, UNCHANGED <<deprecated, modified>>
  PROVE  M!NewView
<1>1. Shown' \in SUBSET Ids
  BY ShownTypeNext DEF ContainerInv
<1>2. Unsure' = {}
  BY DEF Entering, Unsure
<1>. QED BY <1>1, <1>2 DEF Entering, M!NewView

\* filter_with() refills the view; a view too short for it loses track.
LEMMA RefillStep ==
  ASSUME ContainerInv, ContainerInv', NEW re \in Regexes, FilterWith(re), outcome' = "ok"
  PROVE  M!Refill
<1>. USE DEF FilterWith, RefillSlots
<1>1. Shown' \in SUBSET Ids
  BY ShownTypeNext DEF ContainerInv
<1>2. regrown' = (regrown \/ Len(source) < N) /\ regrown \in BOOLEAN /\ moved' = moved
  BY DEF ContainerInv, TypeOK
<1>3. Unsure' \in {Unsure, Ids}
  BY <1>2 DEF Unsure
<1>. QED BY <1>1, <1>3 DEF M!Refill

\* A bulk call over slots P is a Set of the constants in them.
LEMMA SetStep ==
  ASSUME ContainerInv, NEW P \in SUBSET (DOMAIN source), NEW yes \in BOOLEAN,
         BulkSet(P, yes)
  PROVE  \E S \in SUBSET Ids : M!Set(S, yes)
<1>. DEFINE S == {source[k] : k \in P} \ {None}
<1>. USE DEF BulkSet
<1>0. TypeOK /\ SlotsAreDistinct
  BY ShapeDistinct DEF ContainerInv
<1>1. S \subseteq Shown /\ S \subseteq Ids /\ Shown' = Shown
  BY <1>0, ShownType DEF Shown
<1>2. deprecated' = M!Over(deprecated, S, yes)
  BY DEF M!Over
<1>3. modified' \in [Ids -> BOOLEAN]
  BY <1>0 DEF TypeOK, Differs
<1>4. \A i \in Ids \ S : modified'[i] = modified[i]
  OBVIOUS
<1>5. ASSUME NEW i \in S, i \notin Unsure
      PROVE  modified'[i] <=> entered[i] # yes
  <2>1. ~regrown /\ i \notin moved
    BY <1>1, <1>5 DEF Unsure
  <2>2. PICK k \in P : source[k] = i /\ source[k] # None
    OBVIOUS
  <2>3. \A j \in P : source[j] = i => j = k
    BY <1>0, <2>2 DEF SlotsAreDistinct
  <2>4. Differs(P, yes, i) <=> init_state[k] # yes
    BY <2>2, <2>3 DEF Differs
  <2>5. modified'[i] = Differs(P, yes, i)
    BY <1>1
  <2>6. init_state[k] = entered[i]
    BY <2>1, <2>2 DEF ContainerInv, EntryBaselines
  <2>. QED BY <2>4, <2>5, <2>6
<1>6. Unsure' = Unsure \cup S
  BY <1>1 DEF Unsure
<1>. HIDE DEF S
<1>7. M!Set(S, yes)
  BY <1>1, <1>2, <1>3, <1>4, <1>5, <1>6 DEF M!Set
<1>. QED BY <1>1, <1>7

\* A visitor pokes the constants it reaches.
LEMMA PokeStep ==
  ASSUME ContainerInv, NEW start, NEW end, NEW yes \in BOOLEAN,
         SelectMut(start, end, yes)
  PROVE  \E S \in SUBSET Ids : M!Poke(S, yes)
<1>. DEFINE S == Reached(start, end)
<1>. USE DEF SelectMut
<1>1. S \subseteq Shown /\ Shown \subseteq Ids /\ Shown' = Shown
  BY ShownType DEF ContainerInv, Shown, Reached
<1>2. deprecated' = M!Over(deprecated, S, yes)
  BY DEF M!Over
<1>3. Unsure' = Unsure
  BY DEF Unsure
<1>. HIDE DEF S
<1>4. M!Poke(S, yes)
  BY <1>1, <1>2, <1>3 DEF M!Poke
<1>. QED BY <1>1, <1>4

-----------------------------------------------------------------------------
\* Every step is one of Marks or leaves its state alone.
LEMMA NextMarks ==
  ASSUME ContainerInv, ContainerInv', [Next]_vars
  PROVE  [M!Next]_M!marks
<1>. USE DEF M!Next
<1>1. CASE Borrowed
  BY <1>1, NewViewStep DEF Borrowed
<1>2. ASSUME NEW re \in Regexes, Filter(re) PROVE [M!Next]_M!marks
  <2>1. CASE outcome' = "ok"
    BY <1>2, <2>1, NewViewStep DEF Filter
  <2>2. CASE outcome' # "ok"
    BY <1>2, <2>2 DEF Filter, M!marks, Unsure, Shown
  <2>. QED BY <2>1, <2>2
<1>3. ASSUME NEW re \in Regexes, FilterWith(re) PROVE [M!Next]_M!marks
  <2>1. CASE outcome' = "ok"
    BY <1>3, <2>1, RefillStep
  <2>2. CASE outcome' # "ok"
    BY <1>3, <2>2 DEF FilterWith, RefillSlots, M!marks, Unsure, Shown
  <2>. QED BY <2>1, <2>2
<1>4. ASSUME NEW yes \in BOOLEAN, DeprecateView(yes) PROVE [M!Next]_M!marks
  BY <1>4, SetStep DEF DeprecateView
<1>5. ASSUME NEW yes \in BOOLEAN, NEW start \in 0..Len(source), NEW end \in 0..Len(source),
             DeprecateSubset(start, end, yes)
      PROVE  [M!Next]_M!marks
  <2>1. (start + 1)..end \in SUBSET (DOMAIN source)
    BY DEF ContainerInv, TypeOK
  <2>. QED BY <1>5, <2>1, SetStep DEF DeprecateSubset
<1>6. ASSUME NEW yes \in BOOLEAN, NEW start \in 0..Len(source), NEW end \in 0..Len(source),
             SelectMut(start, end, yes)
      PROVE  [M!Next]_M!marks
  BY <1>6, PokeStep
<1>7. CASE UNCHANGED vars
  BY <1>7 DEF vars, M!marks, Unsure, Shown
<1>. QED BY <1>1, <1>2, <1>3, <1>4, <1>5, <1>6, <1>7 DEF Next

\* The container and its views, whatever is called in whatever order, are Marks.
THEOREM ContainerImplementsMarks == Spec => ImplementsMarks
BY InitMarks, NextMarks, ContainerInvariant, PTL DEF Spec, M!Spec, ImplementsMarks
=============================================================================
