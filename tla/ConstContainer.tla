--------------------------- MODULE ConstContainer ---------------------------
(***************************************************************************)
(* The in-memory half of the deprecator: the owning `ConstContainer`, one  *)
(* `BorrowedContainer` view of it, and the operations through which the    *)
(* binary changes the deprecation state of constants.                      *)
(*                                                                         *)
(* A constant is its index in ConstContainer::inner.  A view is a vector   *)
(* of slots, each empty (None) or weakly referring to one constant, and a  *)
(* parallel vector `init_state` of baselines.  The `modified` flag beside  *)
(* each constant decides whether `effect_changes` will write it to disk.   *)
(***************************************************************************)
EXTENDS Integers, Sequences, FiniteSets

CONSTANTS
  N,            \* number of constants found by the scan
  Regexes,      \* the regexes a caller may submit
  Match,        \* Match[re]: the constants whose identifier re matches
  ReSize,       \* ReSize[re]: the power of two of bytes re compiles to
  SyntaxErrors, \* the regexes that do not parse
  Wild          \* the regex ".*"

Ids  == 1..N
None == 0       \* an empty slot of a view

MinRePower == 11
MaxRePower == 20

ASSUME ContainerAssumption ==
  /\ N \in Nat
  /\ Match \in [Regexes -> SUBSET Ids]
  /\ ReSize \in [Regexes -> Nat]
  /\ SyntaxErrors \subseteq Regexes
  /\ Wild \in Regexes \ SyntaxErrors
  /\ Match[Wild] = Ids
  /\ ReSize[Wild] <= MinRePower

VARIABLES
  deprecated,   \* Const::deprecated of every constant
  modified,     \* the flag paired with every constant
  re_cache,     \* keys of ConstContainer::re_cache
  source,       \* BorrowedContainer::source
  init_state,   \* BorrowedContainer::init_state
  outcome,      \* what the last call returned
  (* History, read by the properties only. *)
  loaded,       \* the deprecation state found by the scan
  current,      \* the regex the view was last filled with
  covered,      \* how often (0, 1 or 2 for "more") a bulk call set a constant
  untracked,    \* the constants set behind their baseline: through VisitMut, or
                \* by a bulk call on a regrown view
  regrown,      \* whether the view was made by filter() and then refilled
  entered,      \* the state with which each constant entered the view
  moved         \* the constants whose baseline a bulk call on the view has moved

vars == <<deprecated, modified, re_cache, source, init_state, outcome,
          loaded, current, covered, untracked, regrown, entered, moved>>

Outcomes == {"ok", "syntax", "too_big"}

TypeOK ==
  /\ deprecated \in [Ids -> BOOLEAN]
  /\ modified \in [Ids -> BOOLEAN]
  /\ re_cache \subseteq Regexes
  /\ source \in Seq(Ids \cup {None})
  /\ init_state \in Seq(BOOLEAN)
  /\ Len(init_state) = Len(source)
  /\ outcome \in Outcomes
  /\ loaded \in [Ids -> BOOLEAN]
  /\ current \in Regexes
  /\ covered \in [Ids -> 0..2]
  /\ untracked \subseteq Ids
  /\ regrown \in BOOLEAN
  /\ entered \in [Ids -> BOOLEAN]
  /\ moved \subseteq Ids

-----------------------------------------------------------------------------
(* Views *)

\* BorrowedContainer::from_container over every constant, in order.
FullView == [i \in Ids |-> i]

\* The constants of S in container order: what `filter` collects.  The set
\* holds that one sequence.
InOrder(S) ==
  {s \in [1..Cardinality(S) -> S] : \A j, k \in DOMAIN s : j < k => s[j] < s[k]}

\* The baselines from_container records for the slots of a new view.
BaselineOf(slots) == [k \in DOMAIN slots |-> deprecated[slots[k]]]

\* The constants a view currently refers to.
Shown == {source[k] : k \in DOMAIN source} \ {None}

\* The place of slot k in a traversal, which passes over the empty slots.
Rank(k) == Cardinality({j \in 1..k : source[j] # None})

\* Mutant of Reached: the visitor counts empty slots, and resolves them too.
ReachedByPosition(start, end) == {k \in DOMAIN source : k > start /\ k <= end}

\* The constants `select`/`select_mut` reach for the 0-based range start..end:
\* elements are skipped below start, and the walk stops only when its counter
\* equals end, so a range whose end lies below its start never stops.
Reached(start, end) ==
  {source[k] : k \in {j \in DOMAIN source :
                        /\ source[j] # None
                        /\ Rank(j) > start
                        /\ end < start \/ Rank(j) <= end}}

-----------------------------------------------------------------------------
(* Compiling a regex: the size limit doubles from 2^11 while compilation   *)
(* reports CompiledTooBig, up to and including 2^20.                       *)

BuildRe(re) ==
  CASE re \in SyntaxErrors     -> "syntax"
    [] re \notin SyntaxErrors /\ (\E p \in MinRePower..MaxRePower : ReSize[re] <= p) -> "ok"
    [] OTHER                   -> "too_big"

\* Mutant of ProbeRe: the cache takes a regex before it is known to build.
ProbeReEagerly(re) ==
  /\ outcome' = IF re \in re_cache THEN "ok" ELSE BuildRe(re)
  /\ re_cache' = re_cache \cup {re}

\* A cached regex is returned as it is; a new one is cached only if it built.
ProbeRe(re) ==
  LET built == IF re \in re_cache THEN "ok" ELSE BuildRe(re)
  IN  /\ outcome' = built
      /\ re_cache' = IF built = "ok" THEN re_cache \cup {re} ELSE re_cache

-----------------------------------------------------------------------------
Init ==
  /\ loaded \in [Ids -> BOOLEAN]
  /\ deprecated = loaded
  /\ modified = [i \in Ids |-> FALSE]
  /\ re_cache = {}
  /\ source = FullView
  /\ init_state = BaselineOf(FullView)
  /\ outcome = "ok"
  /\ current = Wild
  /\ covered = [i \in Ids |-> 0]
  /\ untracked = {}
  /\ regrown = FALSE
  /\ entered = loaded
  /\ moved = {}

\* A new view: the constants enter it as they are.
Entering ==
  /\ regrown' = FALSE
  /\ entered' = deprecated
  /\ moved' = {}

\* ConstContainer::borrowed(): a new view over every constant.
Borrowed ==
  /\ source' = FullView
  /\ init_state' = BaselineOf(FullView)
  /\ current' = Wild
  /\ Entering
  /\ outcome' = "ok"
  /\ UNCHANGED <<deprecated, modified, re_cache, loaded, covered, untracked>>

\* ConstContainer::filter(): a new view over the matched constants only.
Filter(re) ==
  /\ ProbeRe(re)
  /\ IF outcome' = "ok"
     THEN /\ source' \in InOrder(Match[re])
          /\ init_state' = BaselineOf(source')
          /\ current' = re
          /\ Entering
     ELSE UNCHANGED <<source, init_state, current, regrown, entered, moved>>
  /\ UNCHANGED <<deprecated, modified, loaded, covered, untracked>>

\* Filtering in place writes the slots of the view, and leaves init_state as it
\* was; if the regex does not compile it leaves the slots too.
RefillSlots(re, slots) ==
  /\ ProbeRe(re)
  /\ IF outcome' = "ok"
     THEN /\ source' = slots
          /\ current' = re
          /\ regrown' = (regrown \/ Len(source) < N)
     ELSE UNCHANGED <<source, current, regrown>>
  /\ UNCHANGED <<deprecated, modified, init_state, loaded, covered, untracked, entered, moved>>

\* Mutant of FilterWith: the view grows to every constant, its baselines do not.
FilterWithGrowing(re) ==
  RefillSlots(re, [k \in Ids |-> IF k \in Match[re] THEN k ELSE None])

\* Mutant of FilterWith: slots are filled, but never emptied.
FilterWithKeeping(re) ==
  RefillSlots(re, [k \in DOMAIN source |-> IF k \in Match[re] THEN k ELSE source[k]])

\* Mutant of FilterWith: the matches are written over the first slots of the view.
FilterWithPacking(re) ==
  \E s \in InOrder(Match[re]) :
    RefillSlots(re, [k \in DOMAIN source |-> IF k \in DOMAIN s THEN s[k] ELSE source[k]])

\* ConstContainer::filter_with(): the constants are zipped with the slots the
\* view already has.
FilterWith(re) ==
  RefillSlots(re, [k \in DOMAIN source |-> IF k \in Match[re] THEN k ELSE None])

\* Mutant of Differs: whatever a bulk call reaches is marked.
Reaches(P, yes, i) == \E k \in P : source[k] = i

\* Mutant of Differs: the flag compares with the memory state.
DiffersFromMemory(P, yes, i) == \E k \in P : source[k] = i /\ deprecated[i] # yes

\* Whether a bulk call sets a constant to other than its baseline: the new flag.
Differs(P, yes, i) == \E k \in P : source[k] = i /\ init_state[k] # yes

\* Mutant of Rebased: baselines stay what they were when the view was made.
Unbased(P, yes) == init_state

\* A bulk call makes the state it sets the baseline of the next one.
Rebased(P, yes) ==
  [k \in DOMAIN init_state |-> IF k \in P /\ source[k] # None THEN yes ELSE init_state[k]]

\* deprecate()/undeprecate() over the slots at positions P.
BulkSet(P, yes) ==
  LET ids == {source[k] : k \in P} \ {None}
  IN  /\ deprecated' = [i \in Ids |-> IF i \in ids THEN yes ELSE deprecated[i]]
      /\ modified' = [i \in Ids |-> IF i \in ids THEN Differs(P, yes, i) ELSE modified[i]]
      /\ init_state' = Rebased(P, yes)
      /\ covered' = [i \in Ids |-> IF i \in ids /\ covered[i] < 2
                                   THEN covered[i] + 1 ELSE covered[i]]
      /\ outcome' = "ok"
      /\ untracked' = IF regrown THEN untracked \cup ids ELSE untracked
      /\ moved' = moved \cup ids
      /\ UNCHANGED <<re_cache, source, loaded, current, regrown, entered>>

\* BorrowedContainer::{deprecate, undeprecate}
DeprecateView(yes) == BulkSet(DOMAIN source, yes)

\* BorrowedSubset::{deprecate, undeprecate} over select(start..end).
DeprecateSubset(start, end, yes) == BulkSet((start + 1)..end, yes)

\* VisitMut::select_mut with a visitor that calls Const::deprecate: the visitor
\* is handed the constant but not its flag, nor the baseline of its slot.
SelectMut(start, end, yes) ==
  /\ deprecated' = [i \in Ids |-> IF i \in Reached(start, end) THEN yes ELSE deprecated[i]]
  /\ untracked' = untracked \cup Reached(start, end)
  /\ outcome' = "ok"
  /\ UNCHANGED <<modified, re_cache, source, init_state, loaded, current, covered,
                 regrown, entered, moved>>

Next ==
  \/ Borrowed
  \/ \E re \in Regexes : Filter(re) \/ FilterWith(re)
  \/ \E yes \in BOOLEAN :
       \/ DeprecateView(yes)
       \/ \E start, end \in 0..Len(source) :
            \/ start <= end /\ DeprecateSubset(start, end, yes)
            \/ SelectMut(start, end, yes)

Spec == Init /\ [][Next]_vars

-----------------------------------------------------------------------------
(* Properties *)

\* A slot never refers to a constant the last regex did not match, whatever
\* sequence of borrowed/filter/filter_with filled the view.
ShownIsMatched == Shown \subseteq Match[current]

\* No constant sits in two slots: a bulk call would otherwise judge it against
\* two baselines and leave the flag to the last of them.
SlotsAreDistinct ==
  \A j, k \in DOMAIN source : source[j] = source[k] /\ source[j] # None => j = k

\* While a view is only refilled in place from borrowed(), every baseline of a
\* shown constant equals the memory state, unless VisitMut went behind its back.
BaselineTracksMemory ==
  ~regrown => \A k \in DOMAIN source :
                source[k] # None /\ source[k] \notin untracked
                  => init_state[k] = deprecated[source[k]]

\* The flag says "differs from what was loaded" for a constant set by at most
\* one bulk call, and by no visitor: this is the usage the save path is right for.
FlagExactWhenCoveredOnce ==
  \A i \in Ids : covered[i] <= 1 /\ i \notin untracked
                   => (modified[i] <=> deprecated[i] # loaded[i])

\* A step changes the state or the flag of a constant only if the view shows it:
\* constants the user filtered out are never touched.
OnlyShownChange ==
  [][\A i \in Ids : (deprecated'[i] # deprecated[i] \/ modified'[i] # modified[i])
                      => i \in Shown]_vars

\* A filtering call that fails leaves the view and the cache as they were, so
\* the caller may go on using both.
FailedFilterIsNoOp ==
  [][outcome' # "ok"
       => UNCHANGED <<re_cache, source, init_state, deprecated, modified>>]_vars

\* Claim of the documentation (borrowed.rs:555-558), which the code breaks: while a
\* view is in use, a constant that bulk calls have left in another state than it
\* entered the view with is flagged, however many calls that took.
FlagsFollowEntry ==
  \A i \in moved \ untracked : deprecated[i] # entered[i] => modified[i]

-----------------------------------------------------------------------------
(* The inductive invariant behind the properties above: what keeps them true   *)
(* from one call to the next (proved in ConstContainerProofs).                 *)

\* A view from borrowed() holds constant k at slot k, or nothing there; a view
\* from filter() holds the matched constants only, in container order.
Grid   == \A k \in DOMAIN source : source[k] \in {None, k}
Picked == /\ \A k \in DOMAIN source : source[k] # None
          /\ \A j, k \in DOMAIN source : j < k => source[j] < source[k]

ViewShape == \/ Grid /\ (regrown \/ Len(source) = N)
             \/ Picked /\ ~regrown

\* The baselines of hidden slots are kept too: the next filtering shows them.
HiddenBaselines ==
  Grid /\ ~regrown /\ Len(source) = N
    => \A k \in Ids : k \notin untracked => init_state[k] = deprecated[k]

\* Until a bulk call on the view moves it, a baseline is the state with which the
\* constant entered the view, whatever visitors do; so for hidden slots too.
EntryBaselines ==
  /\ ~regrown => \A k \in DOMAIN source :
                   source[k] # None /\ source[k] \notin moved
                     => init_state[k] = entered[source[k]]
  /\ Grid /\ ~regrown /\ Len(source) = N
       => \A k \in Ids : k \notin moved => init_state[k] = entered[k]

UncoveredIsLoaded ==
  \A i \in Ids : covered[i] = 0 /\ i \notin untracked
                   => deprecated[i] = loaded[i] /\ ~modified[i]

ContainerInv ==
  /\ TypeOK
  /\ ShownIsMatched
  /\ ViewShape
  /\ BaselineTracksMemory
  /\ HiddenBaselines
  /\ EntryBaselines
  /\ UncoveredIsLoaded
  /\ FlagExactWhenCoveredOnce

-----------------------------------------------------------------------------
(* The promise this container keeps: Marks. *)

\* The constants whose flag the state they entered the view with no longer decides.
Unsure == IF regrown THEN Ids ELSE moved

M == INSTANCE Marks WITH visible <- Shown, moved <- Unsure

\* Slots, ranges and baselines come to this: a bulk call changes the shown
\* constants it ranges over and no others, and flags each it has not set before iff
\* that leaves it in another state than it entered the view with, whatever was
\* hidden and shown again, or changed by a visitor, in between.
ImplementsMarks == M!Spec
=============================================================================
