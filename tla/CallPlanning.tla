---------------------------- MODULE CallPlanning ----------------------------
(***************************************************************************)
(* What surrounds the calls of a day: the planned rows (CallCalendar), the *)
(* timing of one call and its retries (CallTiming), and the habits of      *)
(* several (CallHabits).  None reads what another writes, so a behaviour   *)
(* is one of each side by side, and here one of them: `part` says whose,   *)
(* the others stay as they begin.                                          *)
(***************************************************************************)
EXTENDS CallTiming

CONSTANTS
    Type, Hours, Time, Zone, Editor, LastTick, MaxEdits, MaxFails,  \* of CallCalendar
    Phone, Job, Opener, Needy, LastDay                              \* of CallHabits

VARIABLES part,
    windows, zone, onboarded, log, txn, hour, edits, fails, dropped, dialled,
    counted, talk, stored, prefetch, today, active, heard, crossed

calendarVars == <<windows, zone, onboarded, log, txn, hour, edits, fails, dropped, dialled>>
habitVars    == <<counted, talk, stored, prefetch, today, active, heard, crossed>>
planVars     == <<part, vars, calendarVars, habitVars>>

Calendar == INSTANCE CallCalendar WITH now <- hour
Habits == INSTANCE CallHabits WITH
    Call <- Phone, user <- counted, call <- talk, cache <- stored, job <- prefetch

ASSUME PlanAssumption == Calendar!CalendarAssumption /\ Habits!HabitsAssumption

PlanInit ==
    /\ part \in {"calendar", "timing", "habits"}
    /\ Calendar!Init /\ Init /\ Habits!Init
    /\ part # "calendar" =>
          ~onboarded /\ \A ty \in Type : windows[ty] = Calendar!SomeWindow
    /\ part # "timing" => type = "morning" /\ window = CHOOSE w \in Window : TRUE
    /\ part # "habits" => counted = Habits!None

PlanNext ==
    /\ UNCHANGED part
    /\ \/ part = "calendar" /\ Calendar!Next
       \/ part # "calendar" /\ UNCHANGED calendarVars
    /\ \/ part = "timing" /\ Next
       \/ part # "timing" /\ UNCHANGED vars
    /\ \/ part = "habits" /\ Habits!Next
       \/ part # "habits" /\ UNCHANGED habitVars

PlanSpec == PlanInit /\ [][PlanNext]_planVars

PlanTypeOK == Calendar!TypeOK /\ TypeOK /\ Habits!TypeOK

StalePlanHasCause  == Calendar!StalePlanHasCause
CallsPerDay        == Calendar!CallsPerDay
DroppedStaysDropped == Calendar!DroppedStaysDropped
StreakEarned       == Habits!StreakEarned
NoRepeat           == Habits!NoRepeat
=============================================================================
