------------------------------ MODULE TaskList ------------------------------
(***************************************************************************)
(* Tasks and goals of one user (task_service.py, goal_service.py), edited  *)
(* from WhatsApp, from calls and on the dashboard.  Every operation reads  *)
(* a row, by the likeness of its title or by its id, changes the object    *)
(* and commits; the UPDATE has the columns that differ from what was read  *)
(* and no version, so edits of one row overtake each other.                *)
(***************************************************************************)
EXTENDS Naturals

CONSTANTS
    Title,      \* titles no two of which are similar
    Session,    \* database sessions at work
    MaxRows     \* bound: rows ever created

(* To be assumed of the constants. *)
TaskAssumption == Title # {} /\ MaxRows \in Nat

VARIABLES
    rows,       \* tasks and goals, by id
    used,       \* ids given out
    work,       \* work[p]: what p read of a row, and what it made of it
    crossed,    \* history: rows written over a change nobody had read
    reopened    \* history: completed rows that an id brought back to pending

vars == <<rows, used, work, crossed, reopened>>

Id == 1..MaxRows

(* snoozed: snoozed_until is set; done: completed_at is. *)
Row == [kind : {"task", "goal"}, title : Title,
        status : {"gone", "pending", "snoozed", "completed", "active", "abandoned"},
        snoozed : BOOLEAN, done : BOOLEAN]
Gone == [kind |-> "task", title |-> CHOOSE x \in Title : TRUE, status |-> "gone",
         snoozed |-> FALSE, done |-> FALSE]

TypeOK ==
    /\ rows \in [Id -> Row] /\ used \in 0..MaxRows
    /\ work \in [Session -> [pc : {"idle", "insert", "write", "delete"}, id : 0..MaxRows,
                             seen : Row, new : Row]]
    /\ crossed \subseteq Id /\ reopened \subseteq Id

NoWork == [pc |-> "idle", id |-> 0, seen |-> Gone, new |-> Gone]

-----------------------------------------------------------------------------
(* What an operation makes of the row it found.                            *)

Completed(r)     == [r EXCEPT !.status = "completed", !.done = TRUE]
CompletedById(r) == [Completed(r) EXCEPT !.snoozed = FALSE]
Snoozed(r)       == [r EXCEPT !.status = "snoozed", !.snoozed = TRUE]

(* Mutant: the completion's time is left. *)
SnoozedKeepsDone(r) == Snoozed(r)

SnoozedById(r)   == [Snoozed(r) EXCEPT !.done = FALSE]
Reactivated(r)   == [r EXCEPT !.status = "pending", !.snoozed = FALSE]
Abandoned(r)     == [r EXCEPT !.status = "abandoned", !.done = FALSE]
Renamed(r, x)    == [r EXCEPT !.title = x]

-----------------------------------------------------------------------------
Begins(p, w) == /\ work[p].pc = "idle" /\ work' = [work EXCEPT ![p] = w]
                /\ UNCHANGED <<rows, used, crossed, reopened>>
Ends(p) == work' = [work EXCEPT ![p] = NoWork]

(* What p finds by the likeness of a title has a status it asks for; an id *)
(* finds a task or a goal of any.                                          *)
Like(d, status) == rows[d].kind = "task" /\ rows[d].status = status
IsTask(d) == rows[d].kind = "task" /\ rows[d].status # "gone"
IsGoal(d) == rows[d].kind = "goal" /\ rows[d].status # "gone"

Changes(p, d, new) ==
    Begins(p, [pc |-> "write", id |-> d, seen |-> rows[d], new |-> new])
Drops(p, d) ==
    Begins(p, [pc |-> "delete", id |-> d, seen |-> rows[d], new |-> Gone])

-----------------------------------------------------------------------------
(* New rows.                                                               *)

(* save_task: a similar pending task is merged with, at most by priority;  *)
(* otherwise a row is inserted.                                            *)
SaveReads(p, x) ==
    /\ ~\E d \in Id : Like(d, "pending") /\ rows[d].title = x
    /\ Begins(p, [NoWork EXCEPT !.pc = "insert",
                                !.new = [Gone EXCEPT !.title = x, !.status = "pending"]])

(* create_goal: always. *)
GoalReads(p, x) ==
    Begins(p, [NoWork EXCEPT !.pc = "insert",
                             !.new = [Gone EXCEPT !.kind = "goal", !.title = x,
                                                  !.status = "active"]])

Inserts(p) ==
    /\ work[p].pc = "insert" /\ used < MaxRows
    /\ used' = used + 1
    /\ rows' = [rows EXCEPT ![used + 1] = work[p].new]
    /\ Ends(p) /\ UNCHANGED <<crossed, reopened>>

-----------------------------------------------------------------------------
(* Tasks, by title: from WhatsApp and from calls.                          *)

(* _reactivate_due_snoozed_tasks commits before every look at pending      *)
(* tasks; the time of any snoozed one may have come.                       *)
ReactivateReads(p, d) == Like(d, "snoozed") /\ Changes(p, d, Reactivated(rows[d]))

CompleteByTitle(p, d)  == Like(d, "pending") /\ Changes(p, d, Completed(rows[d]))
UpdateByTitle(p, d, x) == Like(d, "pending") /\ Changes(p, d, Renamed(rows[d], x))
SnoozeByTitle(p, d)    == Like(d, "pending") /\ Changes(p, d, Snoozed(rows[d]))
UnsnoozeByTitle(p, d)  == Like(d, "snoozed") /\ Changes(p, d, Reactivated(rows[d]))
DeleteByTitle(p, d)    == Like(d, "pending") /\ Drops(p, d)

(* Tasks, by id: on the dashboard. *)
CompleteTask(p, d) == /\ IsTask(d) /\ rows[d].status # "completed"
                      /\ Changes(p, d, CompletedById(rows[d]))
UpdateTask(p, d, x) == IsTask(d) /\ Changes(p, d, Renamed(rows[d], x))
SnoozeTask(p, d)    == IsTask(d) /\ Changes(p, d, SnoozedById(rows[d]))
UnsnoozeTask(p, d)  == IsTask(d) /\ Changes(p, d, Reactivated(rows[d]))
DeleteTask(p, d)    == IsTask(d) /\ Drops(p, d)

(* Goals, by id: everywhere. *)
CompleteGoal(p, d) == /\ IsGoal(d) /\ rows[d].status # "completed"
                      /\ Changes(p, d, Completed(rows[d]))
UpdateGoal(p, d, x) == IsGoal(d) /\ Changes(p, d, Renamed(rows[d], x))
AbandonGoal(p, d)   == IsGoal(d) /\ Changes(p, d, Abandoned(rows[d]))
DeleteGoal(p, d)    == IsGoal(d) /\ Drops(p, d)

-----------------------------------------------------------------------------
(* The columns that differ are written; a deleted row is an error.         *)
Merged(row, seen, new) ==
    [f \in DOMAIN row |-> IF new[f] # seen[f] THEN new[f] ELSE row[f]]

Writes(p) ==
    LET w == work[p]
        row == rows[w.id] IN
    /\ w.pc = "write"
    /\ IF row.status = "gone"
       THEN UNCHANGED <<rows, crossed, reopened>>
       ELSE /\ rows' = [rows EXCEPT ![w.id] = Merged(row, w.seen, w.new)]
            /\ crossed' = IF row = w.seen THEN crossed ELSE crossed \cup {w.id}
            /\ reopened' = IF w.seen.status = "completed" /\ w.new.status = "pending"
                           THEN reopened \cup {w.id} ELSE reopened
    /\ Ends(p) /\ UNCHANGED used

Deletes(p) ==
    /\ work[p].pc = "delete"
    /\ rows' = [rows EXCEPT ![work[p].id] = Gone]
    /\ Ends(p) /\ UNCHANGED <<used, crossed, reopened>>

Init == /\ rows = [d \in Id |-> Gone] /\ used = 0
        /\ work = [p \in Session |-> NoWork] /\ crossed = {} /\ reopened = {}

ByTitle(p, d) ==
    \/ ReactivateReads(p, d) \/ CompleteByTitle(p, d) \/ SnoozeByTitle(p, d)
    \/ UnsnoozeByTitle(p, d) \/ DeleteByTitle(p, d)
    \/ \E x \in Title : UpdateByTitle(p, d, x)

ById(p, d) ==
    \/ CompleteTask(p, d) \/ SnoozeTask(p, d) \/ UnsnoozeTask(p, d) \/ DeleteTask(p, d)
    \/ \E x \in Title : UpdateTask(p, d, x)

GoalById(p, d) ==
    \/ CompleteGoal(p, d) \/ AbandonGoal(p, d) \/ DeleteGoal(p, d)
    \/ \E x \in Title : UpdateGoal(p, d, x)

Next == \E p \in Session :
              \/ \E x \in Title : SaveReads(p, x) \/ GoalReads(p, x)
              \/ \E d \in Id : ByTitle(p, d) \/ ById(p, d) \/ GoalById(p, d)
              \/ Inserts(p) \/ Writes(p) \/ Deletes(p)

Spec == Init /\ [][Next]_vars

-----------------------------------------------------------------------------
(* Properties.                                                             *)

(* A row has a time of completion exactly when it is completed, and one of *)
(* return exactly when it is snoozed.  The exceptions are rows on which    *)
(* two edits overtook each other, and a completed task brought back by its *)
(* id, whose time of completion stays.                                     *)
StampsMatchStatus ==
    \A d \in Id \ crossed :
        /\ rows[d].snoozed <=> rows[d].status = "snoozed"
        /\ rows[d].status = "completed" => rows[d].done
        /\ rows[d].done => rows[d].status = "completed" \/ d \in reopened
=============================================================================
