--------------------------- MODULE MCCallPlanning ---------------------------
(* CallPlanning for TLC. *)
EXTENDS CallPlanning, TLC

(* The two hours of a day a window may be set to. *)
BothHours == {0, 1}

(* Minutes: a window of the least width, one a call and two retries just   *)
(* fit into, and one that ends with the day.                               *)
Windows == {[start |-> 480, end |-> 500], [start |-> 480, end |-> 508],
            [start |-> 1412, end |-> 1439]}

(* After two cleanups have overtaken each other nothing is claimed. *)
Uncrossed == ~crossed

(* A user who is yet to be onboarded starts without windows, any other with *)
(* them; what is left out comes about by edits.                            *)
UserInit ==
    /\ PlanInit
    /\ part = "calendar" =>
         (onboarded <=> \A ty \in Type : windows[ty].state = "active")

UserSpec == UserInit /\ [][PlanNext]_planVars

PlanSymmetry == Permutations(Editor)
=============================================================================
