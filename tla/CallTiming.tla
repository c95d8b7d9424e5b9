----------------------------- MODULE CallTiming -----------------------------
(***************************************************************************)
(* The arithmetic of a call and its retries against the window they belong *)
(* to: the first call's time, the retry budget, and the check that a retry *)
(* still fits.  Windows are minutes of a local day, all else is seconds    *)
(* since the midnight the day of the call began with; a day on which the   *)
(* offset of the zone changes is left to resolve_local_time.               *)
(***************************************************************************)
EXTENDS Integers

CONSTANTS
    Window,     \* the windows a user may set
    Minute,     \* the minutes of a day a call may be moved to
    Lag         \* how late the dispatcher, or a callback, may be

RING_TIMEOUT == 30
RETRY_DELAY  == 600
MAX_RETRIES  == 2
MAX_TALK     == [morning |-> 300, evening |-> 180]
MIN_WIDTH    == 20
DayMinutes   == 1440
DaySeconds   == 60 * DayMinutes
CallType     == DOMAIN MAX_TALK

(* validate_call_window. *)
Valid(w) == w.start + MIN_WIDTH <= w.end

ASSUME TimingAssumption ==
    /\ Window \subseteq {w \in [start : 0..(DayMinutes - 1), end : 0..(DayMinutes - 1)] : Valid(w)}
    /\ Minute \subseteq 0..(DayMinutes - 1) /\ Lag \subseteq Nat

VARIABLES
    window,     \* the window, as it is now
    type,       \* the type of the call, that says how long it may last
    call,       \* where the current attempt is, its number, when it is due
    now,        \* when the last thing happened
    late,       \* by how much calls and callbacks have been late together
    edited      \* the window was changed or removed since the call was planned

vars == <<window, type, call, now, late, edited>>

TypeOK ==
    /\ window \in Window /\ type \in CallType
    /\ call \in [pc : {"none", "scheduled", "ringing", "talking", "short", "exhausted"},
                 attempt : 1..(MAX_RETRIES + 1), at : Nat]
    /\ now \in Nat /\ late \in Nat /\ edited \in BOOLEAN

-----------------------------------------------------------------------------
Talk == MAX_TALK[type]

(* Mutant: room for one retry only. *)
BufferForOne == (RING_TIMEOUT + RETRY_DELAY + Talk + 59) \div 60

(* The minutes a first call leaves to the retries and to the last talk.    *)
Buffer == (MAX_RETRIES * (RING_TIMEOUT + RETRY_DELAY) + Talk + 59) \div 60

(* compute_latest_first_call. *)
LatestFirst == IF window.end < Buffer THEN 0 ELSE window.end - Buffer

(* Wide enough for a call and all its retries. *)
Wide == window.start < LatestFirst

(* compute_jittered_call_time. *)
FirstCall == IF Wide THEN window.start..LatestFirst ELSE {window.start}

(* Mutant: the retry is compared with the end of the window's hour. *)
FitsHour(t) == t % DaySeconds < 60 * (window.end + 60)

(* _retry_fits_in_window: the end of the window on the retry's own day.    *)
Fits(t) == t % DaySeconds < 60 * window.end

-----------------------------------------------------------------------------
Plan == /\ call.pc = "none"
        /\ \E t \in FirstCall : call' = [call EXCEPT !.pc = "scheduled", !.at = 60 * t]
        /\ UNCHANGED <<window, type, now, late, edited>>

(* reschedule_call: any attempt that is not due yet. *)
Move == /\ call.pc = "scheduled"
        /\ \E t \in Minute :
              /\ 60 * t > now /\ (t <= LatestFirst \/ edited)
              /\ call' = [call EXCEPT !.at = 60 * t]
        /\ UNCHANGED <<window, type, now, late, edited>>

(* The user edits the window while an attempt rings or a retry is due.     *)
Edit == /\ call.pc \in {"scheduled", "ringing"}
        /\ \E w \in Window : window' = w
        /\ edited' = TRUE
        /\ UNCHANGED <<type, call, now, late>>

Dial == /\ call.pc = "scheduled"
        /\ \E l \in Lag : now' = call.at + l /\ late' = late + l
        /\ call' = [call EXCEPT !.pc = "ringing"]
        /\ UNCHANGED <<window, type, edited>>

Answer == /\ call.pc = "ringing" /\ call' = [call EXCEPT !.pc = "talking"]
          /\ UNCHANGED <<window, type, now, late, edited>>

(* A busy line, or a phone that rang in vain.                              *)
Ring == {0, RING_TIMEOUT}

(* handle_missed_call: a retry, if one is left and fits.                   *)
Miss ==
    /\ call.pc = "ringing"
    /\ \E s \in Ring, l \in Lag : now' = now + s + l /\ late' = late + l
    /\ call' = IF call.attempt > MAX_RETRIES THEN [call EXCEPT !.pc = "exhausted"]
               ELSE IF ~Fits(now' + RETRY_DELAY) THEN [call EXCEPT !.pc = "short"]
               ELSE [pc |-> "scheduled", attempt |-> call.attempt + 1,
                     at |-> now' + RETRY_DELAY]
    /\ UNCHANGED <<window, type, edited>>

Init == /\ window \in Window /\ type \in CallType
        /\ call = [pc |-> "none", attempt |-> 1, at |-> 0]
        /\ now = 0 /\ late = 0 /\ edited = FALSE

Next == Plan \/ Move \/ Edit \/ Dial \/ Answer \/ Miss

Spec == Init /\ [][Next]_vars

-----------------------------------------------------------------------------
(* Properties.                                                             *)

(* An attempt is due within the day's window, unless the window was edited *)
(* under it or the retry falls on the day after: then it was compared with *)
(* the window of that day.                                                 *)
DueInWindow ==
    call.pc # "none" /\ ~edited => call.at < 60 * window.end \/ call.at >= DaySeconds

(* A chain is cut short of its retries only in a window too narrow, after  *)
(* an edit, or when calls and callbacks were later, together, than the     *)
(* longest talk; up to then, and on time, the last talk ends in the window.*)
BudgetHolds ==
    Wide /\ ~edited =>
        /\ call.pc = "short" => late >= Talk
        /\ call.pc = "talking" => call.at + Talk <= 60 * window.end + late
=============================================================================
