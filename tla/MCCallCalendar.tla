--------------------------- MODULE MCCallCalendar ---------------------------
(* Instances of CallCalendar for TLC. *)
EXTENDS CallCalendar

(* The two hours of a day a window may be set to. *)
BothHours == {0, 1}

(* A user who has yet to finish onboarding. *)
NewUser == Spec /\ ~onboarded
=============================================================================
