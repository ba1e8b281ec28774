------------------------------ MODULE MCSession ------------------------------
(* Two constants of one file.  Rewriting the file leaves them where they    *)
(* are, but an attribute on the first pushes the second down.               *)
EXTENDS Session

Neighbours == [c \in {"a", "b"} |-> "unix.rs"]
Named      == [c \in {"a", "b"} |-> c]
Lines      == [c \in {"a", "b"} |-> IF c = "b" THEN 2 ELSE 1]
Steady     == [c \in {"a", "b"} |-> 0]
=============================================================================
