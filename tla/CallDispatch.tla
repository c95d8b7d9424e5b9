---------------------------- MODULE CallDispatch ----------------------------
(***************************************************************************)
(* From a scheduled call_logs row to a placed Twilio call:                 *)
(*   - due_row_dispatcher (Celery Beat, every minute; runs may overlap),   *)
(*   - trigger_call_task, handed out at least once by the Redis broker,    *)
(*   - stale_dispatching_sweep (every five minutes),                       *)
(*   - the user's skip / reschedule / cancel / replace operations of       *)
(*     CallManagementService, which run in other processes meanwhile.      *)
(* (app/tasks/calls.py, app/services/call_management_service.py)           *)
(*                                                                         *)
(* Every step ends at a commit, an external call or a crash, so any two    *)
(* actors interleave where the code lets go of the database.  What goes    *)
(* wrong around the code is the constant Faults, so that what the protocol *)
(* gives under which faults is stated exactly.                             *)
(***************************************************************************)
EXTENDS CallLog

CONSTANTS
    Dispatcher,     \* overlapping runs of due_row_dispatcher
    User,           \* management operations (one each)
    Ops,            \* the operations users may ask for
    Faults,         \* the faults that happen
    MaxFaults       \* bound: faults in a behaviour

(* Harmless faults lose work but never knowledge about a call: a           *)
(* dispatcher or a task dies without a call in its hands, a publish or a   *)
(* Twilio request fails for good, a compensation fails.                    *)
HarmlessFault == {"dispatcher_crash", "publish_lost", "db_error",
                  "twilio_error", "task_lost"}
(* Costly ones: a publish or a Twilio request that fails after taking      *)
(* effect, a task that dies between placing the call and recording it, a   *)
(* redelivery by the broker, work slower than STALE_DISPATCHING_SECONDS.   *)
CostlyFault == {"publish_ambiguous", "twilio_ambiguous", "call_lost",
                "task_redelivered", "slow"}
UserOp == {"skip", "reschedule", "cancel_today", "replace"}

ASSUME DispatchAssumption ==
    /\ MaxFaults \in Nat
    /\ Faults \subseteq HarmlessFault \cup CostlyFault
    /\ Ops \subseteq UserOp

VARIABLES
    disp,       \* disp[d]: a dispatcher run
    task,       \* task[t]: a trigger_call_task message or its execution
    user,       \* user[u]: a management operation
    budget      \* faults left (bound)

vars == <<rows, calls, disp, task, user, budget>>

DispRec == [pc : {"idle", "loop", "claim", "publish", "revert", "store"},
            todo : SUBSET RowId, row : RowId \cup {NoRow}, ver : Nat,
            task : TaskId \cup {NoTask}]
TaskRec == [pc : {"unused", "queued", "calling", "placed", "revert", "reject", "done"},
            row : RowId \cup {NoRow}, ver : Nat, sid : Sid \cup {NoSid}]
UserRec == [pc : {"idle", "cancel", "write", "done"}, op : UserOp \cup {"none"},
            row : RowId \cup {NoRow}, snap : Row]

DispOK == /\ disp \in [Dispatcher -> DispRec]
          /\ \A d \in Dispatcher : disp[d].pc \notin {"idle", "loop"} => disp[d].row \in RowId
TaskOK == /\ task \in [TaskId -> TaskRec]
          /\ \A t \in TaskId : task[t].pc # "unused" => task[t].row \in RowId
UserOK == /\ user \in [User -> UserRec]
          /\ \A u \in User : user[u].pc \in {"cancel", "write"} =>
                user[u].row \in RowId /\ user[u].op # "none"

TypeOK == RowsOK /\ CallsOK /\ DispOK /\ TaskOK /\ UserOK /\ budget \in Nat

IdleDisp   == [pc |-> "idle", todo |-> {}, row |-> NoRow, ver |-> 0, task |-> NoTask]
UnusedTask == [pc |-> "unused", row |-> NoRow, ver |-> 0, sid |-> NoSid]
IdleUser   == [pc |-> "idle", op |-> "none", row |-> NoRow, snap |-> NoneRow]

Init ==
    /\ rows = [r \in RowId |-> NoneRow]
    /\ calls = [s \in Sid |-> NoCall]
    /\ disp = [d \in Dispatcher |-> IdleDisp]
    /\ task = [t \in TaskId |-> UnusedTask]
    /\ user = [u \in User |-> IdleUser]
    /\ budget = MaxFaults

(* A fault of kind f happens. *)
Fault(f) == f \in Faults /\ budget > 0 /\ budget' = budget - 1

(* The planner, a callback or a retry inserts a row for a later time. *)
Insert(r) ==
    /\ rows[r].status = "none"
    /\ rows' = [rows EXCEPT ![r] = FreshRow]
    /\ UNCHANGED <<calls, disp, task, user, budget>>

BecomeDue(r) ==
    /\ rows[r].status # "none"
    /\ ~rows[r].due
    /\ rows' = [rows EXCEPT ![r].due = TRUE]
    /\ UNCHANGED <<calls, disp, task, user, budget>>

-----------------------------------------------------------------------------
(* due_row_dispatcher.                                                     *)

(* The loop goes on: nothing is kept of the row just handled. *)
NextRow(d) == disp' = [disp EXCEPT ![d] = [IdleDisp EXCEPT !.pc = "loop", !.todo = disp[d].todo]]

(* Step 1: the bulk SELECT of due rows. *)
SelectDue(d) ==
    LET due == {r \in RowId : rows[r].status = "scheduled" /\ rows[r].due} IN
    /\ disp[d].pc = "idle"
    /\ due # {}
    /\ disp' = [disp EXCEPT ![d] = [IdleDisp EXCEPT !.pc = "loop", !.todo = due]]
    /\ UNCHANGED <<rows, calls, task, user, budget>>

(* Step 2: one row of the list is read again in a new session.  Only its   *)
(* status is looked at, not its scheduled_time.                            *)
ReadFresh(d, r) ==
    /\ disp[d].pc = "loop"
    /\ r \in disp[d].todo
    /\ disp' = IF rows[r].status = "scheduled"
               THEN [disp EXCEPT ![d].pc = "claim", ![d].todo = @ \ {r},
                                 ![d].row = r, ![d].ver = rows[r].version]
               ELSE [disp EXCEPT ![d].todo = @ \ {r}]
    /\ UNCHANGED <<rows, calls, task, user, budget>>

(* Mutant: the row is claimed by its id. *)
ClaimableById(d) == TRUE

(* UPDATE ... WHERE id AND status='scheduled' AND version; commit. *)
Claimable(d) == /\ rows[disp[d].row].status = "scheduled"
                /\ rows[disp[d].row].version = disp[d].ver

Claim(d) ==
    /\ disp[d].pc = "claim"
    /\ rows' = IF Claimable(d)
               THEN [rows EXCEPT ![disp[d].row] = Moved(disp[d].row, "dispatching")]
               ELSE rows
    /\ IF Claimable(d) THEN disp' = [disp EXCEPT ![d].pc = "publish"] ELSE NextRow(d)
    /\ UNCHANGED <<calls, task, user, budget>>

(* Step 3: send_task. *)
Enqueue(d, t) ==
    /\ task[t].pc = "unused"
    /\ task' = [task EXCEPT ![t] = [UnusedTask EXCEPT !.pc = "queued", !.row = disp[d].row]]

Publish(d, t) ==
    /\ disp[d].pc = "publish"
    /\ Enqueue(d, t)
    /\ disp' = [disp EXCEPT ![d].pc = "store", ![d].task = t]
    /\ UNCHANGED <<rows, calls, user, budget>>

(* send_task raises; the reply of the broker may be what got lost. *)
PublishFails(d) ==
    /\ disp[d].pc = "publish"
    /\ \/ Fault("publish_lost") /\ UNCHANGED task
       \/ Fault("publish_ambiguous") /\ \E t \in TaskId : Enqueue(d, t)
    /\ disp' = [disp EXCEPT ![d].pc = "revert"]
    /\ UNCHANGED <<rows, calls, user>>

(* Compensation: UPDATE ... WHERE status='dispatching' AND version.        *)
Revert(d) ==
    /\ disp[d].pc = "revert"
    /\ rows' = IF /\ rows[disp[d].row].status = "dispatching"
                  /\ rows[disp[d].row].version = disp[d].ver + 1
               THEN [rows EXCEPT ![disp[d].row] = Moved(disp[d].row, "scheduled")]
               ELSE rows
    /\ NextRow(d)
    /\ UNCHANGED <<calls, task, user, budget>>

(* Step 4: celery_task_id is stored by id alone; the BEFORE UPDATE trigger *)
(* on call_logs refreshes updated_at.                                      *)
StoreTaskId(d) ==
    /\ disp[d].pc = "store"
    /\ rows' = [rows EXCEPT ![disp[d].row].task = disp[d].task,
                            ![disp[d].row].aged = FALSE]
    /\ NextRow(d)
    /\ UNCHANGED <<calls, task, user, budget>>

(* A database error in the claim, the compensation or the store is caught  *)
(* and logged; the run goes on to its next row.                            *)
DispatcherDbError(d) ==
    /\ disp[d].pc \in {"claim", "revert", "store"}
    /\ Fault("db_error")
    /\ NextRow(d)
    /\ UNCHANGED <<rows, calls, task, user>>

DispatcherReturns(d) ==
    /\ disp[d].pc = "loop"
    /\ disp[d].todo = {}
    /\ disp' = [disp EXCEPT ![d] = IdleDisp]
    /\ UNCHANGED <<rows, calls, task, user, budget>>

(* The worker running the dispatcher dies; Beat starts another run. *)
DispatcherCrash(d) ==
    /\ disp[d].pc # "idle"
    /\ Fault("dispatcher_crash")
    /\ disp' = [disp EXCEPT ![d] = IdleDisp]
    /\ UNCHANGED <<rows, calls, task, user>>

DispatcherStep(d) ==
    \/ SelectDue(d) \/ Claim(d) \/ PublishFails(d) \/ Revert(d)
    \/ StoreTaskId(d) \/ DispatcherDbError(d) \/ DispatcherReturns(d)
    \/ \E r \in RowId : ReadFresh(d, r)
    \/ \E t \in TaskId : Publish(d, t)

-----------------------------------------------------------------------------
(* trigger_call_task.                                                      *)

(* An execution that knows nothing but its row any more. *)
Forget(t, p) == task' = [task EXCEPT ![t] = [UnusedTask EXCEPT !.pc = p, !.row = task[t].row]]
Finished(t) == Forget(t, "done")

(* Verify that the row is still `dispatching` and remember its version. *)
TaskBegin(t) ==
    /\ task[t].pc = "queued"
    /\ IF rows[task[t].row].status = "dispatching"
       THEN task' = [task EXCEPT ![t].pc = "calling", ![t].ver = rows[task[t].row].version]
       ELSE Finished(t)
    /\ UNCHANGED <<rows, calls, disp, user, budget>>

(* calls.create returns. *)
CallPlaced(t, s) ==
    /\ task[t].pc = "calling"
    /\ PlaceCall(task[t].row, s)
    /\ task' = [task EXCEPT ![t].pc = "placed", ![t].sid = s]
    /\ UNCHANGED <<rows, disp, user, budget>>

(* calls.create raises a 5xx, a timeout or anything else that is not a     *)
(* 4xx: back to scheduled, whether or not Twilio took the call.            *)
TwilioError(t) ==
    /\ task[t].pc = "calling"
    /\ \/ Fault("twilio_error") /\ UNCHANGED calls
       \/ Fault("twilio_ambiguous") /\ \E s \in Sid : PlaceCall(task[t].row, s)
    /\ task' = [task EXCEPT ![t].pc = "revert"]
    /\ UNCHANGED <<rows, disp, user>>

(* A 4xx: the number cannot be called. *)
CallRefused(t) ==
    /\ task[t].pc = "calling"
    /\ task' = [task EXCEPT ![t].pc = "reject"]
    /\ UNCHANGED <<rows, calls, disp, user, budget>>

(* Mutant: the SID is not stored. *)
MarkRingingWithoutSid(t) ==
    /\ task[t].pc = "placed"
    /\ TryMove(task[t].row, task[t].ver, "ringing")
    /\ Finished(t)
    /\ UNCHANGED <<calls, disp, user, budget>>

(* update_status with the remembered version: ringing with the SID, ... *)
MarkRinging(t) ==
    LET r == task[t].row IN
    /\ task[t].pc = "placed"
    /\ rows' = IF CanMove(r, task[t].ver, "ringing")
               THEN [rows EXCEPT ![r] = [Moved(r, "ringing") EXCEPT !.sid = task[t].sid]]
               ELSE rows
    /\ Finished(t)
    /\ UNCHANGED <<calls, disp, user, budget>>

(* ... scheduled after a transport error, missed after a refusal. *)
SettleError(t) ==
    /\ task[t].pc \in {"revert", "reject"}
    /\ TryMove(task[t].row, task[t].ver,
               IF task[t].pc = "revert" THEN "scheduled" ELSE "missed")
    /\ Finished(t)
    /\ UNCHANGED <<calls, disp, user, budget>>

(* The task dies or raises: its message is gone, or (task_acks_late) the   *)
(* broker hands it out again.                                              *)
TaskDies(t) ==
    /\ \/ /\ task[t].pc \in {"calling", "revert", "reject"}
          /\ Fault("task_lost")
          /\ Finished(t)
       \/ /\ task[t].pc = "placed"
          /\ Fault("call_lost")
          /\ Finished(t)
       \/ /\ task[t].pc \in {"calling", "placed", "revert", "reject"}
          /\ Fault("task_redelivered")
          /\ Forget(t, "queued")
    /\ UNCHANGED <<rows, calls, disp, user>>

TaskStep(t) ==
    \/ TaskBegin(t) \/ TwilioError(t) \/ CallRefused(t) \/ MarkRinging(t) \/ SettleError(t)
    \/ \E s \in Sid : CallPlaced(t, s)

-----------------------------------------------------------------------------
(* stale_dispatching_sweep.                                                *)

(* A message or an execution for r is under way, or about to be published. *)
Engaged(r) ==
    \/ \E t \in TaskId : task[t].row = r /\ task[t].pc \notin {"unused", "done"}
    \/ \E d \in Dispatcher : disp[d].row = r /\ disp[d].pc = "publish"

(* A dispatching row's updated_at falls behind the cutoff: always possible *)
(* when nobody works on it any more, a fault when somebody does.           *)
Age(r) ==
    /\ rows[r].status = "dispatching"
    /\ ~rows[r].aged
    /\ IF Engaged(r) THEN Fault("slow") ELSE UNCHANGED budget
    /\ rows' = [rows EXCEPT ![r].aged = TRUE]
    /\ UNCHANGED <<calls, disp, task, user>>

(* Mutants: fresh dispatching rows are swept; rows without a task id are   *)
(* left alone.                                                             *)
StuckAtAnyAge(r) == rows[r].status = "dispatching"
StuckWithTask(r) == rows[r].status = "dispatching" /\ rows[r].aged /\ rows[r].task # NoTask

(* One UPDATE for all stuck rows. *)
Stuck(r) == rows[r].status = "dispatching" /\ rows[r].aged

Sweep ==
    /\ \E r \in RowId : Stuck(r)
    /\ rows' = [r \in RowId |-> IF Stuck(r) THEN Moved(r, "scheduled") ELSE rows[r]]
    /\ UNCHANGED <<calls, disp, task, user, budget>>

-----------------------------------------------------------------------------
(* CallManagementService.  skip_call and reschedule_call pick a scheduled  *)
(* row, cancel_all_calls_today a scheduled or ringing one, and             *)
(* schedule_callback replaces an active on-demand row, whatever its state. *)

Eligible(op) ==
    CASE op \in {"skip", "reschedule"} -> {"scheduled"}
      [] op = "cancel_today" -> {"scheduled", "ringing"}
      [] op = "replace" -> Status \ Terminal

(* The row is read; the session keeps the snapshot. *)
UserRead(u, op, r) ==
    /\ user[u].pc = "idle"
    /\ op \in Ops
    /\ rows[r].status \in Eligible(op)
    /\ user' = [user EXCEPT ![u] = [pc |-> "cancel", op |-> op, row |-> r, snap |-> rows[r]]]
    /\ UNCHANGED <<rows, calls, disp, task, budget>>

(* _two_layer_cancel: revoke the task and cancel the call the snapshot     *)
(* names, best effort, before the row is touched.  A revoked message is    *)
(* discarded by the worker that receives it; a running task goes on.       *)
TwoLayerCancel(u) ==
    LET snap == user[u].snap IN
    /\ user[u].pc = "cancel"
    /\ \/ UNCHANGED task
       \/ /\ snap.task # NoTask
          /\ task[snap.task].pc = "queued"
          /\ Finished(snap.task)
    /\ \/ UNCHANGED calls
       \/ snap.sid # NoSid /\ calls' = HangUp(snap.sid)
    /\ user' = [user EXCEPT ![u].pc = "write"]
    /\ UNCHANGED <<rows, disp, budget>>

(* update_scheduled_time: only a scheduled row, no status change. *)
Rescheduled(r) == [rows[r] EXCEPT !.version = @ + 1, !.due = FALSE,
                                  !.aged = FALSE, !.sid = NoSid]

UserWrite(u) ==
    LET r == user[u].row
        v == user[u].snap.version
    IN
    /\ user[u].pc = "write"
    /\ CASE user[u].op = "reschedule" ->
              rows' = IF rows[r].status = "scheduled" /\ rows[r].version = v
                      THEN [rows EXCEPT ![r] = Rescheduled(r)] ELSE rows
         [] user[u].op = "skip" -> TryMove(r, v, "skipped")
         [] user[u].op \in {"cancel_today", "replace"} -> TryMove(r, v, "cancelled")
    /\ user' = [user EXCEPT ![u] = [IdleUser EXCEPT !.pc = "done"]]
    /\ UNCHANGED <<calls, disp, task, budget>>

UserStep(u) == \/ TwoLayerCancel(u) \/ UserWrite(u)
               \/ \E op \in UserOp, r \in RowId : UserRead(u, op, r)

-----------------------------------------------------------------------------
Next == \/ \E r \in RowId : Insert(r) \/ BecomeDue(r) \/ Age(r)
        \/ \E d \in Dispatcher : DispatcherStep(d) \/ DispatcherCrash(d)
        \/ \E t \in TaskId : TaskStep(t) \/ TaskDies(t)
        \/ \E u \in User : UserStep(u)
        \/ Sweep

Spec == Init /\ [][Next]_vars

(* Beat keeps starting runs, live workers take their next step, time       *)
(* passes.  Nobody is obliged to ask for anything.                         *)
Fairness == /\ \A d \in Dispatcher : WF_vars(DispatcherStep(d))
            /\ \A t \in TaskId : WF_vars(TaskStep(t))
            /\ \A r \in RowId : WF_vars(Age(r))
            /\ WF_vars(Sweep)

LiveSpec == Spec /\ Fairness

-----------------------------------------------------------------------------
(* Properties.                                                             *)

(* "For any CallLog entry, at most one Twilio outbound call is placed,     *)
(* even if the Celery trigger task executes more than once"                *)
(* (tests/properties/test_dispatch_at_most_once.py:3).  The protocol gives *)
(* this when every fault is harmless.                                      *)
AtMostOneCall ==
    \A s, q \in Sid : /\ calls[s].phase # "none"
                      /\ calls[q].phase # "none"
                      /\ calls[s].row = calls[q].row
                      => s = q

(* A placed call is known to the row, or about to be, unless the row was   *)
(* cancelled while the call was being placed: otherwise nobody can ever    *)
(* hang it up and its callbacks find no row.                               *)
CallIsRecorded ==
    \A s \in Sid : calls[s].phase # "none" =>
        \/ rows[calls[s].row].sid = s
        \/ rows[calls[s].row].status = "cancelled"
        \/ \E t \in TaskId : task[t].pc = "placed" /\ task[t].sid = s

(* "no new outbound Twilio call may be placed" for an entry that has been  *)
(* "successfully cancelled or skipped" (the same file, line 8).            *)
NoCallAfterCancel ==
    [][\A s \in Sid : calls'[s].row # calls[s].row
          => rows[calls'[s].row].status \notin {"cancelled", "skipped"}]_vars

(* A due row does not stay behind: whatever fails on the way, it is        *)
(* eventually dialled, settled, or moved to another time by the user.      *)
DueIsDialled ==
    \A r \in RowId : (rows[r].status = "scheduled" /\ rows[r].due)
        ~> (rows[r].status \notin {"scheduled", "dispatching"} \/ ~rows[r].due)
=============================================================================
