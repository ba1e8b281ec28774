-------------------------- MODULE MCEffectChanges --------------------------
(* Two constants in one file and one in another. *)
EXTENDS EffectChanges

TwoFiles  == [c \in {"a", "b", "z"} |-> IF c = "z" THEN "other.rs" ELSE "unix.rs"]
Named     == [c \in {"a", "b", "z"} |-> c]
Lines     == [c \in {"a", "b", "z"} |-> IF c = "b" THEN 2 ELSE 1]
Steady    == [c \in {"a", "b", "z"} |-> 0]
=============================================================================
