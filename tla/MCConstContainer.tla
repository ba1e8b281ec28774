-------------------------- MODULE MCConstContainer --------------------------
(* Two constants, and a regex for every outcome of compiling one.          *)
EXTENDS ConstContainer

MCRegexes == {"wild", "second", "huge", "broken"}
MCMatch   == [re \in MCRegexes |-> IF re = "second" THEN {2} ELSE Ids]
MCReSize  == [re \in MCRegexes |-> CASE re = "second" -> MaxRePower
                                     [] re = "huge"   -> MaxRePower + 1
                                     [] OTHER         -> MinRePower]
=============================================================================
