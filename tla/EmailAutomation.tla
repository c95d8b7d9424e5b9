-------------------------- MODULE EmailAutomation --------------------------
(***************************************************************************)
(* The sweep over one user's mail (email_automation_service.py): a thread  *)
(* becomes a task, and an urgent one a call to the user.  A row of         *)
(* email_automation_events, unique per kind and thread, is committed       *)
(* first, then the action, then the row's final status; sweeps overlap     *)
(* when Gmail is slow, and a worker may die between any two commits.       *)
(***************************************************************************)
EXTENDS Naturals, FiniteSets

CONSTANTS
    Thread,     \* Gmail threads
    Run,        \* sweeps in progress
    DailyCap    \* urgent_call_max_per_day

(* To be assumed of the constants. *)
AutomationAssumption == Thread # {} /\ DailyCap \in Nat

VARIABLES
    event,      \* event[k][t]: status of the thread's event of a kind
    calls,      \* threads with an urgent call in call_logs today
    ringing,    \* the user has an on-demand call that is not over
    cooling,    \* an event was CREATED within the cooldown
    run,        \* run[w]: the email a sweep works on
    acts,       \* history: tasks and calls made of a thread
    unseen      \* history: calls made though a check had not counted another

vars == <<event, calls, ringing, cooling, run, acts, unseen>>

Kind == {"task", "call"}

TypeOK ==
    /\ event \in [Kind -> [Thread -> {"none", "processing", "created", "failed"}]]
    /\ calls \subseteq Thread /\ unseen \subseteq calls
    /\ ringing \in BOOLEAN /\ cooling \in BOOLEAN
    /\ run \in [Run -> [pc : {"idle", "checked", "claimed", "acted"}, kind : Kind,
                        thread : Thread, counted : SUBSET Thread]]
    /\ acts \in [Kind -> [Thread -> Nat]]

Idle == [pc |-> "idle", kind |-> "task", thread |-> CHOOSE t \in Thread : TRUE,
         counted |-> {}]

Created == {t \in Thread : event["call"][t] = "created"}

Marks(w, status) ==
    event' = [event EXCEPT ![run[w].kind][run[w].thread] = status]

Rests(w) == run' = [run EXCEPT ![w] = Idle]
At(w, pc) == run[w].pc = pc

(* Mutant: the day's last call is not counted. *)
LimitedLate == cooling \/ Cardinality(Created) > DailyCap \/ DailyCap = 0

(* _urgent_call_rate_limited: only CREATED events count. *)
Limited == cooling \/ Cardinality(Created) >= DailyCap

(* An email of the thread scored as a task, or as urgent out of quiet      *)
(* hours, with no limit in force and no on-demand call under way.          *)
Checks(w, k, t) ==
    /\ At(w, "idle")
    /\ k = "call" => ~Limited /\ ~ringing
    /\ run' = [run EXCEPT ![w] = [pc |-> "checked", kind |-> k, thread |-> t,
                                  counted |-> Created]]
    /\ UNCHANGED <<event, calls, ringing, cooling, acts, unseen>>

(* Mutant: a failed event may be claimed again, and one whose worker died. *)
ClaimsAgain(w) ==
    /\ At(w, "checked")
    /\ IF event[run[w].kind][run[w].thread] # "created"
       THEN Marks(w, "processing") /\ run' = [run EXCEPT ![w].pc = "claimed"]
       ELSE Rests(w) /\ UNCHANGED event
    /\ UNCHANGED <<calls, ringing, cooling, acts, unseen>>

(* _claim_event: the first of all sweeps, whatever came of it. *)
Claims(w) ==
    /\ At(w, "checked")
    /\ IF event[run[w].kind][run[w].thread] = "none"
       THEN Marks(w, "processing") /\ run' = [run EXCEPT ![w].pc = "claimed"]
       ELSE Rests(w) /\ UNCHANGED event
    /\ UNCHANGED <<calls, ringing, cooling, acts, unseen>>

Acts(w) == /\ acts' = [acts EXCEPT ![run[w].kind][run[w].thread] = @ + 1]
           /\ run' = [run EXCEPT ![w].pc = "acted"]

SavesTask(w) ==
    /\ At(w, "claimed") /\ run[w].kind = "task"
    /\ Acts(w)
    /\ UNCHANGED <<event, calls, ringing, cooling, unseen>>

CreatesCall(w) ==
    LET t == run[w].thread IN
    /\ At(w, "claimed") /\ run[w].kind = "call" /\ ~ringing
    /\ calls' = calls \cup {t} /\ ringing' = TRUE
    /\ unseen' = IF calls = run[w].counted THEN unseen ELSE unseen \cup {t}
    /\ Acts(w)
    /\ UNCHANGED <<event, cooling>>

(* A second active on-demand call fails in its unique index.  The session  *)
(* is not rolled back, so marking the event FAILED raises as well: the     *)
(* sweep ends, the event stays `processing`.                               *)
CallConflicts(w) ==
    /\ At(w, "claimed") /\ run[w].kind = "call" /\ ringing
    /\ Rests(w)
    /\ UNCHANGED <<event, calls, ringing, cooling, acts, unseen>>

Completes(w) ==
    /\ At(w, "acted")
    /\ Marks(w, "created")
    /\ cooling' = (cooling \/ run[w].kind = "call")
    /\ Rests(w)
    /\ UNCHANGED <<calls, ringing, acts, unseen>>

(* An exception other than the database's. *)
Fails(w) ==
    /\ At(w, "claimed") /\ Marks(w, "failed") /\ Rests(w)
    /\ UNCHANGED <<calls, ringing, cooling, acts, unseen>>

Dies(w) ==
    /\ ~At(w, "idle") /\ Rests(w)
    /\ UNCHANGED <<event, calls, ringing, cooling, acts, unseen>>

(* The call is over; the cooldown is. *)
Hangup == ringing /\ ringing' = FALSE /\ UNCHANGED <<event, calls, cooling, run, acts, unseen>>
Cools  == cooling /\ cooling' = FALSE /\ UNCHANGED <<event, calls, ringing, run, acts, unseen>>

Init ==
    /\ event = [k \in Kind |-> [t \in Thread |-> "none"]]
    /\ calls = {} /\ ringing \in BOOLEAN /\ cooling = FALSE
    /\ run = [w \in Run |-> Idle]
    /\ acts = [k \in Kind |-> [t \in Thread |-> 0]] /\ unseen = {}

Next == \/ \E w \in Run :
              \/ \E k \in Kind, t \in Thread : Checks(w, k, t)
              \/ Claims(w) \/ SavesTask(w) \/ CreatesCall(w) \/ CallConflicts(w)
              \/ Completes(w) \/ Fails(w) \/ Dies(w)
        \/ Hangup \/ Cools

Spec == Init /\ [][Next]_vars

-----------------------------------------------------------------------------
(* Properties.                                                             *)

(* A thread makes at most one task and one call, however many sweeps meet  *)
(* it and wherever a worker dies.                                          *)
ActedOnce == \A k \in Kind, t \in Thread : acts[k][t] <= 1

(* The user gets no more urgent calls a day than DailyCap, other than      *)
(* those of a sweep that did not count a call: one made since its check,   *)
(* or one whose event was not CREATED because its worker died.             *)
UrgentCallsCapped == Cardinality(calls \ unseen) <= DailyCap
=============================================================================
