-------------------------------- MODULE Marks --------------------------------
(***************************************************************************)
(* What ConstContainer and its views keep, without slots, ranges or        *)
(* regexes: a set of constants is visible, a call changes visible          *)
(* constants only, and a bulk call that sets a constant for the first time *)
(* in a view flags it iff it leaves it in another state than it entered    *)
(* the view with.                                                          *)
(*                                                                         *)
(* This is as much of borrowed.rs:555-558 as the code keeps.  Those lines  *)
(* promise the same of the state in which the view is dropped, that is     *)
(* after any number of calls.  From its second call on the flag of a       *)
(* constant is left open here; ConstContainer states the full promise as   *)
(* FlagsFollowEntry, which does not hold.                                  *)
(***************************************************************************)
EXTENDS Integers

CONSTANT Ids

VARIABLES
  deprecated,  \* the state of every constant in memory
  modified,    \* whether a save would write it
  entered,     \* the state with which it entered the view
  moved,       \* the constants that state no longer decides anything for
  visible      \* the constants on show

marks == <<deprecated, modified, entered, moved, visible>>

Init ==
  /\ deprecated \in [Ids -> BOOLEAN]
  /\ modified = [i \in Ids |-> FALSE]
  /\ entered = deprecated
  /\ moved = {}
  /\ visible = Ids

\* f with the members of S mapped to v.
Over(f, S, v) == [i \in Ids |-> IF i \in S THEN v ELSE f[i]]

\* Constants enter a new view as they are.
NewView ==
  /\ visible' \in SUBSET Ids
  /\ entered' = deprecated
  /\ moved' = {}
  /\ UNCHANGED <<deprecated, modified>>

\* Refilling a view shows other constants.  A view that was made for fewer than it
\* is filled with has lost track of them all.
Refill ==
  /\ visible' \in SUBSET Ids
  /\ moved' \in {moved, Ids}
  /\ UNCHANGED <<deprecated, modified, entered>>

\* A bulk call sets visible constants.
Set(S, yes) ==
  /\ S \subseteq visible
  /\ deprecated' = Over(deprecated, S, yes)
  /\ modified' \in [Ids -> BOOLEAN]
  /\ \A i \in Ids \ S : modified'[i] = modified[i]
  /\ \A i \in S \ moved : modified'[i] <=> entered[i] # yes
  /\ moved' = moved \cup S
  /\ UNCHANGED <<entered, visible>>

\* A visitor sets visible constants without anybody noticing.
Poke(S, yes) ==
  /\ S \subseteq visible
  /\ deprecated' = Over(deprecated, S, yes)
  /\ UNCHANGED <<modified, entered, moved, visible>>

Next ==
  \/ NewView
  \/ Refill
  \/ \E S \in SUBSET Ids, yes \in BOOLEAN : Set(S, yes) \/ Poke(S, yes)

Spec == Init /\ [][Next]_marks
=============================================================================
