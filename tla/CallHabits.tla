----------------------------- MODULE CallHabits -----------------------------
(***************************************************************************)
(* How a call is kept from opening like the one before it and how the days *)
(* in a row are counted.  The context of a call (app/voice/context.py) is  *)
(* prepared from the user's row ahead of time, by a prefetch task and again *)
(* by the task that dials, and waits in Redis under the call and its time; *)
(* the stream takes it from there, and only its cleanup writes opener and  *)
(* streak back to the row (app/voice/cleanup.py).  Other calls of the user *)
(* do the same in between.                                                 *)
(*                                                                         *)
(* The approach is rotated like the opener and left out, and so is a       *)
(* change of time zone while a context is waiting.                         *)
(***************************************************************************)
EXTENDS Integers

CONSTANTS
    Call,       \* calls of one user under way at a time, retries included
    Job,        \* prefetch tasks that run at a time
    Opener,     \* openers of a pool
    Needy,      \* those that need tasks, events or a call of yesterday
    LastDay     \* bound: the last day

(* To be assumed of the constants. *)
HabitsAssumption == /\ Needy \subseteq Opener /\ \E o, p \in Opener : o # p
                    /\ LastDay \in Nat \ {0, 1}

VARIABLES
    user,       \* users: last_opener_id, consecutive_active_days, last_active_date
    call,       \* where a call is, its context, what its cleanup loaded
    cache,      \* cache[c]: the context in Redis under c and its time
    job,        \* job[j]: a prefetch that has read and not stored
    today,      \* the user's date
    active,     \* history: the days some call counted
    heard,      \* history: the opener of the last call that counted
    crossed     \* history: the cleanups of two calls overtook each other

vars == <<user, call, cache, job, today, active, heard, crossed>>
days == <<today, active>>
history == <<heard, crossed>>

Never     == 0
None      == [opener |-> "none", streak |-> 0, last |-> Never]
Row       == [opener : Opener \cup {"none"}, streak : Nat, last : Nat]
Context   == [opener : Opener, streak : Nat, last : 1..LastDay] \cup {None}
NoJob     == [call |-> "none", ctx |-> None, old |-> FALSE]
Scheduled == [pc |-> "scheduled", ctx |-> None, row |-> None, excused |-> FALSE]

(* History: an `old` job has read what has been written anew since, and a  *)
(* call is `excused` that may open like the last one.                      *)
TypeOK ==
    /\ user \in Row /\ heard \in Opener \cup {"none"} /\ crossed \in BOOLEAN
    /\ call \in [Call -> [pc : {"scheduled", "warming", "ringing", "talking", "hungup",
                                "cleaning"},
                          ctx : Context, row : Row, excused : BOOLEAN]]
    /\ cache \in [Call -> Context]
    /\ job \in [Job -> [call : Call \cup {"none"}, ctx : Context, old : BOOLEAN]]
    /\ today \in 1..LastDay /\ active \subseteq 1..LastDay

-----------------------------------------------------------------------------
(* select_opener: without what is not available and without the last one,  *)
(* or at least without the last one.                                       *)
Eligible(have) == (IF have THEN Opener ELSE Opener \ Needy) \ {user.opener}

Selected(have) == IF Eligible(have) # {} THEN Eligible(have)
                  ELSE IF Opener \ {user.opener} # {} THEN Opener \ {user.opener}
                  ELSE Opener

(* Mutant: a second call on the same day counts once more. *)
StreakOfCalls == IF user.last \in {today, today - 1} THEN user.streak + 1 ELSE 1

(* update_streak. *)
Streak == CASE user.last = today                           -> user.streak
            [] user.last = today - 1 /\ user.last # Never -> user.streak + 1
            [] OTHER -> 1       \* the first day, or one after a gap

(* What prepare_call_context may come to. *)
Prepared == {[opener |-> o, streak |-> Streak, last |-> today] :
             o \in UNION {Selected(have) : have \in BOOLEAN}}

-----------------------------------------------------------------------------
(* Prefetch.  A task may come late or twice; one for a time the call no    *)
(* longer has does nothing.                                                *)

PrefetchReads(j, c) ==
    /\ job[j] = NoJob
    /\ call[c].pc \in {"scheduled", "warming", "ringing"}
    /\ \E x \in Prepared : job' = [job EXCEPT ![j] = [call |-> c, ctx |-> x, old |-> FALSE]]
    /\ UNCHANGED <<user, call, cache, days, history>>

(* The last to store wins, however old what it has read. *)
PrefetchStores(j) ==
    LET c == job[j].call IN
    /\ job[j] # NoJob
    /\ cache' = [cache EXCEPT ![c] = job[j].ctx]
    /\ call' = IF call[c].pc = "ringing" THEN [call EXCEPT ![c].excused = @ \/ job[j].old]
               ELSE call
    /\ job' = [job EXCEPT ![j] = NoJob]
    /\ UNCHANGED <<user, days, history>>

PrefetchFails(j) ==
    /\ job[j] # NoJob
    /\ job' = [job EXCEPT ![j] = NoJob]
    /\ UNCHANGED <<user, call, cache, days, history>>

(* What is stored under the old time is not looked for any more. *)
Forgotten(c) ==
    /\ cache' = [cache EXCEPT ![c] = None]
    /\ job' = [j \in Job |-> IF job[j].call = c THEN NoJob ELSE job[j]]

Reschedule(c) ==
    /\ call[c].pc = "scheduled" /\ Forgotten(c)
    /\ UNCHANGED <<user, call, days, history>>

-----------------------------------------------------------------------------
(* A call, from its dispatch to the end of its stream, when another takes  *)
(* its place.                                                              *)

Goes(c, r) == call' = [call EXCEPT ![c] = r]

(* Mutant: a context that is there is not prepared again. *)
WarmReadsIfMissing(c) ==
    /\ call[c].pc = "scheduled"
    /\ \E x \in IF cache[c] # None THEN {cache[c]} ELSE Prepared :
          Goes(c, [call[c] EXCEPT !.pc = "warming", !.ctx = x])
    /\ UNCHANGED <<user, cache, job, days, history>>

(* trigger_call_task prepares the context once more before it dials. *)
WarmReads(c) ==
    /\ call[c].pc = "scheduled"
    /\ \E x \in Prepared : Goes(c, [call[c] EXCEPT !.pc = "warming", !.ctx = x])
    /\ UNCHANGED <<user, cache, job, days, history>>

WarmStores(c) ==
    /\ call[c].pc = "warming"
    /\ cache' = [cache EXCEPT ![c] = call[c].ctx]
    /\ Goes(c, [call[c] EXCEPT !.pc = "ringing", !.ctx = None])
    /\ UNCHANGED <<user, job, days, history>>

(* It dials all the same when the context could not be prepared or stored. *)
WarmFails(c) ==
    /\ call[c].pc \in {"scheduled", "warming"}
    /\ Goes(c, [call[c] EXCEPT !.pc = "ringing", !.ctx = None, !.excused = TRUE])
    /\ UNCHANGED <<user, cache, job, days, history>>

Unanswered(c) ==
    /\ call[c].pc = "ringing" /\ Goes(c, Scheduled) /\ Forgotten(c)
    /\ UNCHANGED <<user, days, history>>

(* The stream takes the context from the cache; when it has expired, it is *)
(* prepared; when that fails too, the call talks without.  The user has    *)
(* one phone.                                                              *)
PickUp(c) ==
    /\ call[c].pc = "ringing" /\ \A d \in Call : call[d].pc # "talking"
    /\ \E x \in {cache[c]} \cup Prepared \cup {None} :
          Goes(c, [Scheduled EXCEPT !.pc = "talking", !.ctx = x])
    /\ UNCHANGED <<user, cache, job, days, history>>

HangUp(c) ==
    /\ call[c].pc = "talking" /\ Goes(c, [call[c] EXCEPT !.pc = "hungup"])
    /\ UNCHANGED <<user, cache, job, days, history>>

(* _update_anti_habituation loads the user. *)
CleanupLoads(c) ==
    /\ call[c].pc = "hungup" /\ call[c].ctx # None
    /\ Goes(c, [call[c] EXCEPT !.pc = "cleaning", !.row = user])
    /\ UNCHANGED <<user, cache, job, days, history>>

(* It commits the columns that differ from what it loaded. *)
CleanupWrites(c) ==
    LET x == call[c].ctx
        written(f) == IF x[f] # call[c].row[f] THEN x[f] ELSE user[f] IN
    /\ call[c].pc = "cleaning"
    /\ user' = [f \in DOMAIN user |-> written(f)]
    /\ call' = [d \in Call |->
                 IF d = c THEN Scheduled
                 ELSE [call[d] EXCEPT !.excused = @ \/ call[d].pc \in {"warming", "ringing"}]]
    /\ cache' = [cache EXCEPT ![c] = None]
    /\ job' = [j \in Job |-> IF job[j].call = c THEN NoJob
                              ELSE [job[j] EXCEPT !.old = job[j] # NoJob]]
    /\ active' = active \cup {x.last} /\ heard' = x.opener
    /\ crossed' = (crossed \/ user # call[c].row)
    /\ UNCHANGED today

(* An early disconnect, a pipeline error, a failing update, a dead worker. *)
EndsUncounted(c) ==
    /\ call[c].pc \in {"hungup", "cleaning"}
    /\ Goes(c, Scheduled) /\ Forgotten(c)
    /\ UNCHANGED <<user, days, history>>

(* A context waits for thirty minutes and a call lasts for five: nothing   *)
(* is older than the last midnight.                                        *)
Midnight ==
    /\ today < LastDay /\ today' = today + 1
    /\ \A c \in Call : call[c].ctx.last \in {Never, today}
    /\ \A j \in Job : job[j].ctx.last \in {Never, today}
    /\ cache' = [c \in Call |-> IF cache[c].last = today THEN cache[c] ELSE None]
    /\ UNCHANGED <<user, call, job, active, history>>

-----------------------------------------------------------------------------
(* The user is new, or has had one call, on day one. *)
FirstCall == [opener |-> CHOOSE o \in Opener : TRUE, streak |-> 1, last |-> 1]

Init == /\ user \in {None, FirstCall}
        /\ today = LastDay - 1
        /\ call = [c \in Call |-> Scheduled]
        /\ cache = [c \in Call |-> None] /\ job = [j \in Job |-> NoJob]
        /\ active = {user.last} \ {Never} /\ heard = user.opener
        /\ crossed = FALSE

Next == \/ \E j \in Job : \/ PrefetchStores(j) \/ PrefetchFails(j)
                          \/ \E c \in Call : PrefetchReads(j, c)
        \/ \E c \in Call : \/ Reschedule(c) \/ WarmReads(c) \/ WarmStores(c) \/ WarmFails(c)
                           \/ Unanswered(c) \/ PickUp(c) \/ HangUp(c) \/ CleanupLoads(c)
                           \/ CleanupWrites(c) \/ EndsUncounted(c)
        \/ Midnight

Spec == Init /\ [][Next]_vars

-----------------------------------------------------------------------------
(* Properties.                                                             *)

(* However old the context that was written back, and whatever the calls   *)
(* around it wrote, a streak is never longer than the days in a row that   *)
(* had a call, unless two cleanups overtook each other and the row has     *)
(* columns of both.                                                        *)
StreakEarned == crossed \/ \A d \in (user.last - user.streak + 1)..user.last : d \in active

(* No two calls in a row open alike, although contexts are prepared ahead: *)
(* unless the second was dialled before the first had counted, was dialled *)
(* without preparing its context again, or had an older context stored     *)
(* over the new one, or two cleanups overtook each other.                  *)
NoRepeat ==
    [][\A c \in Call :
         /\ call[c].pc = "ringing" /\ call'[c].pc = "talking" /\ ~call[c].excused
         /\ heard # "none" /\ ~crossed
         => call'[c].ctx.opener # heard]_vars
=============================================================================
