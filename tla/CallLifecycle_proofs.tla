------------------------- MODULE CallLifecycle_proofs -------------------------
(***************************************************************************)
(* Proofs about CallDispatch and CallLifecycle, for any number of rows,    *)
(* overlapping dispatcher runs, task messages, user operations, calls and  *)
(* callbacks:                                                              *)
(*   - the type invariant,                                                 *)
(*   - the version fence: every status change follows VALID_TRANSITIONS    *)
(*     and bumps the version, whatever faults happen,                      *)
(*   - at most one Twilio call per row, recorded on the row, when every    *)
(*     fault of dispatching is harmless,                                   *)
(*   - no call for a row after its cancellation,                           *)
(*   - the same and more of dispatching and live calls over one table:     *)
(*     the promises of either side, at most 1 + MAX_RETRIES calls for a    *)
(*     scheduled one, no conversation on a cancelled call.                 *)
(* What is proved of dispatching alone speaks of CallDispatch's Spec, the  *)
(* second half of the module of LifecycleSpec.                             *)
(***************************************************************************)
EXTENDS CallLifecycle, CallLog_proofs, FiniteSetTheorems

-----------------------------------------------------------------------------
(* The inductive invariant behind AtMostOneCall.                           *)

(* The right to call r is held by at most one of: the row itself while it  *)
(* can still be claimed, a dispatcher about to publish, a message or an    *)
(* execution that may still call, a call already placed.                   *)
PendingTask(t, r) == task[t].row = r /\ task[t].pc \in {"queued", "calling"}
Publishing(d, r)  == disp[d].row = r /\ disp[d].pc = "publish"
CallFor(s, r)     == calls[s].row = r /\ calls[s].phase # "none"

(* Nobody holds the right to call r. *)
Free(r) == /\ \A t \in TaskId : ~PendingTask(t, r)
           /\ \A d \in Dispatcher : ~Publishing(d, r)
           /\ \A s \in Sid : ~CallFor(s, r)

(* Those who work on a row work on one that exists, and a version they     *)
(* remember is not ahead of it.                                            *)
KnownRows ==
    /\ \A d \in Dispatcher : disp[d].pc \in {"claim", "publish", "revert", "store"} =>
          /\ rows[disp[d].row].status # "none"
          /\ disp[d].ver <= rows[disp[d].row].version
          /\ disp[d].pc \in {"publish", "revert"} =>
                disp[d].ver + 1 <= rows[disp[d].row].version
    /\ \A t \in TaskId : task[t].pc # "unused" =>
          /\ rows[task[t].row].status # "none"
          /\ task[t].ver <= rows[task[t].row].version

(* Holders exclude each other. *)
OneHolder ==
    \A r \in RowId :
       /\ \A t, o \in TaskId : PendingTask(t, r) /\ PendingTask(o, r) => t = o
       /\ \A d, e \in Dispatcher : Publishing(d, r) /\ Publishing(e, r) => d = e
       /\ \A t \in TaskId, d \in Dispatcher : ~(PendingTask(t, r) /\ Publishing(d, r))
       /\ \A t \in TaskId, s \in Sid : ~(PendingTask(t, r) /\ CallFor(s, r))
       /\ \A d \in Dispatcher, s \in Sid : ~(Publishing(d, r) /\ CallFor(s, r))
       /\ \A s, q \in Sid : CallFor(s, r) /\ CallFor(q, r) => s = q

(* A row that can be claimed, or that the sweep or a compensation can make *)
(* claimable again, has no holder.                                         *)
ClaimableIsFree ==
    /\ \A r \in RowId : (rows[r].status \in {"none", "scheduled"} \/ Stuck(r)) => Free(r)
    /\ \A d \in Dispatcher :
          /\ disp[d].pc = "revert"
          /\ rows[disp[d].row].status = "dispatching"
          /\ rows[disp[d].row].version = disp[d].ver + 1
          => Free(disp[d].row)
    /\ \A t \in TaskId :
          /\ task[t].pc \in {"revert", "reject"}
          /\ rows[task[t].row].status = "dispatching"
          /\ rows[task[t].row].version = task[t].ver
          => Free(task[t].row)

(* An execution that calls or has called holds the current version of a    *)
(* row that is still dispatching.                                          *)
HolderIsCurrent ==
    \A t \in TaskId :
       /\ task[t].pc \in {"calling", "placed"}
       /\ rows[task[t].row].status = "dispatching"
       => task[t].ver = rows[task[t].row].version

(* A message or a dispatcher for a row finds it dispatching, or cancelled  *)
(* in the meantime.                                                        *)
HeldRowStatus ==
    \A r \in RowId :
       rows[r].status \in {"dispatching", "cancelled"} \/
       (/\ \A t \in TaskId : ~PendingTask(t, r)
        /\ \A d \in Dispatcher : ~Publishing(d, r))

(* While the version an execution remembers is current, so is the status   *)
(* it saw.                                                                 *)
VersionFixesStatus ==
    \A t \in TaskId :
       /\ task[t].pc \in {"calling", "placed", "revert", "reject"}
       /\ task[t].ver = rows[task[t].row].version
       => rows[task[t].row].status = "dispatching"

PlacedHasCall ==
    \A t \in TaskId : task[t].pc = "placed" =>
        task[t].sid \in Sid /\ CallFor(task[t].sid, task[t].row)

(* Where the SID of a call is known. *)
SidIsKnown ==
    \A s \in Sid : calls[s].phase # "none" =>
        \/ rows[calls[s].row].status = "cancelled"
        \/ rows[calls[s].row].status # "dispatching" /\ rows[calls[s].row].sid = s
        \/ /\ rows[calls[s].row].status = "dispatching"
           /\ \E t \in TaskId : task[t].pc = "placed" /\ task[t].sid = s

IInv == /\ TypeOK
        /\ KnownRows
        /\ OneHolder
        /\ ClaimableIsFree
        /\ HolderIsCurrent
        /\ HeldRowStatus
        /\ VersionFixesStatus
        /\ PlacedHasCall
        /\ SidIsKnown

HarmlessOnly == Faults \subseteq HarmlessFault

-----------------------------------------------------------------------------
(* The type invariant.                                                     *)

LEMMA InitType == Init => TypeOK
  <1> SUFFICES ASSUME Init PROVE TypeOK
      OBVIOUS
  <1>1. RowsOK
      BY FreshRowIsRow DEF Init, RowsOK
  <1>2. CallsOK
      BY DEF Init, CallsOK, Call, NoCall, Phase
  <1>3. DispOK /\ TaskOK
      BY DEF Init, DispOK, TaskOK, DispRec, TaskRec, IdleDisp, UnusedTask
  <1>4. UserOK /\ budget \in Nat
      BY FreshRowIsRow, DispatchAssumption DEF Init, UserOK, UserRec, IdleUser
  <1>5. QED
      BY <1>1, <1>2, <1>3, <1>4 DEF TypeOK

(* The helpers the actions share keep the types. *)
LEMMA FaultType == \A f : Fault(f) /\ budget \in Nat => budget' \in Nat
  BY DEF Fault

LEMMA NextRowType == ASSUME DispOK, NEW d \in Dispatcher, NextRow(d) PROVE DispOK'
  BY DEF DispOK, NextRow, DispRec, IdleDisp

LEMMA FinishedType ==
    ASSUME TaskOK, NEW t \in TaskId, task[t].pc # "unused",
           Finished(t) \/ Forget(t, "queued")
    PROVE  TaskOK'
  <1>1. ASSUME NEW p \in {"queued", "done"}, Forget(t, p) PROVE TaskOK'
    <2>1. task[t].row \in RowId
        BY DEF TaskOK
    <2>2. [UnusedTask EXCEPT !.pc = p, !.row = task[t].row] \in TaskRec
        BY <2>1 DEF UnusedTask, TaskRec
    <2>3. QED
        BY <1>1, <2>1, <2>2 DEF TaskOK, Forget, UnusedTask
  <1>2. QED
      BY <1>1 DEF Finished

LEMMA EnqueueType ==
    ASSUME TaskOK, NEW t \in TaskId, NEW d \in Dispatcher, disp[d].row \in RowId,
           Enqueue(d, t)
    PROVE  TaskOK'
  <1>1. [UnusedTask EXCEPT !.pc = "queued", !.row = disp[d].row] \in TaskRec
      BY DEF UnusedTask, TaskRec
  <1>2. QED
      BY <1>1 DEF TaskOK, Enqueue, UnusedTask

LEMMA TypeStep == TypeOK /\ [Next]_vars => TypeOK'
  <1> SUFFICES ASSUME TypeOK, [Next]_vars PROVE TypeOK'
      OBVIOUS
  <1> USE DEF TypeOK
  <1>1. ASSUME NEW r \in RowId, Insert(r) PROVE TypeOK'
    <2>1. RowsOK'
        BY <1>1, FreshRowIsRow, RowsUpdate DEF Insert, RowsOK
    <2>2. QED
        BY <1>1, <2>1 DEF Insert, CallsOK, DispOK, TaskOK, UserOK
  <1>2. ASSUME NEW r \in RowId, BecomeDue(r) PROVE TypeOK'
    <2>1. RowsOK'
        BY <1>2, ColumnUpdate DEF BecomeDue, RowsOK
    <2>2. QED
        BY <1>2, <2>1 DEF BecomeDue, CallsOK, DispOK, TaskOK, UserOK
  <1>3. ASSUME NEW r \in RowId, Age(r) PROVE TypeOK'
    <2>1. RowsOK'
        BY <1>3, ColumnUpdate DEF Age, RowsOK
    <2>2. budget' \in Nat
        BY <1>3, FaultType DEF Age
    <2>3. QED
        BY <1>3, <2>1, <2>2 DEF Age, CallsOK, DispOK, TaskOK, UserOK
  <1>4. ASSUME Sweep PROVE TypeOK'
    <2>1. RowsOK'
        BY <1>4, MovedRow, StatusSet DEF Sweep, RowsOK
    <2>2. QED
        BY <1>4, <2>1 DEF Sweep, CallsOK, DispOK, TaskOK, UserOK
  <1>5. ASSUME NEW d \in Dispatcher, DispatcherStep(d) \/ DispatcherCrash(d) PROVE TypeOK'
    <2> USE DEF RowsOK, CallsOK, TaskOK, UserOK
    <2>1. CASE SelectDue(d)
      <3>1. DispOK'
          BY <2>1 DEF SelectDue, DispOK, DispRec, IdleDisp
      <3>2. QED
          BY <2>1, <3>1 DEF SelectDue
    <2>2. ASSUME NEW r \in RowId, ReadFresh(d, r) PROVE TypeOK'
      <3>1. rows[r].version \in Nat
          BY ColumnUpdate
      <3>2. DispOK'
          BY <2>2, <3>1 DEF ReadFresh, DispOK, DispRec
      <3>3. QED
          BY <2>2, <3>2 DEF ReadFresh
    <2>3. CASE Claim(d)
      <3>1. disp[d].row \in RowId
          BY <2>3 DEF Claim, DispOK
      <3>2. RowsOK'
          BY <2>3, <3>1, MovedRow, RowsUpdate, StatusSet DEF Claim
      <3>3. DispOK'
          BY <2>3, NextRowType DEF Claim, DispOK, DispRec
      <3>4. QED
          BY <2>3, <3>2, <3>3 DEF Claim
    <2>4. ASSUME NEW t \in TaskId, Publish(d, t) PROVE TypeOK'
      <3>1. disp[d].row \in RowId
          BY <2>4 DEF Publish, DispOK
      <3>2. TaskOK'
          BY <2>4, <3>1, EnqueueType DEF Publish
      <3>3. DispOK'
          BY <2>4 DEF Publish, DispOK, DispRec
      <3>4. QED
          BY <2>4, <3>2, <3>3 DEF Publish
    <2>5. CASE PublishFails(d)
      <3>1. disp[d].row \in RowId
          BY <2>5 DEF PublishFails, DispOK
      <3>2. TaskOK'
          BY <2>5, <3>1, EnqueueType DEF PublishFails
      <3>3. DispOK'
          BY <2>5 DEF PublishFails, DispOK, DispRec
      <3>4. QED
          BY <2>5, <3>2, <3>3, FaultType DEF PublishFails
    <2>6. CASE Revert(d)
      <3>1. disp[d].row \in RowId
          BY <2>6 DEF Revert, DispOK
      <3>2. RowsOK'
          BY <2>6, <3>1, MovedRow, RowsUpdate, StatusSet DEF Revert
      <3>3. QED
          BY <2>6, <3>2, NextRowType DEF Revert
    <2>7. CASE StoreTaskId(d)
      <3>1. disp[d].row \in RowId /\ disp[d].task \in TaskId \cup {NoTask}
          BY <2>7 DEF StoreTaskId, DispOK, DispRec
      <3>2. rows[disp[d].row] \in Row
          BY <3>1
      <3>3. [[rows[disp[d].row] EXCEPT !.task = disp[d].task] EXCEPT !.aged = FALSE] \in Row
          BY <3>1, <3>2, ColumnUpdate
      <3>4. RowsOK'
          BY <2>7, <3>1, <3>3 DEF StoreTaskId
      <3>5. QED
          BY <2>7, <3>4, NextRowType DEF StoreTaskId
    <2>8. CASE DispatcherDbError(d)
        BY <2>8, NextRowType, FaultType DEF DispatcherDbError
    <2>9. CASE DispatcherReturns(d)
        BY <2>9 DEF DispatcherReturns, DispOK, DispRec, IdleDisp
    <2>10. CASE DispatcherCrash(d)
      <3>1. DispOK'
          BY <2>10 DEF DispatcherCrash, DispOK, DispRec, IdleDisp
      <3>2. QED
          BY <2>10, <3>1, FaultType DEF DispatcherCrash
    <2>11. QED
        BY <1>5, <2>1, <2>2, <2>3, <2>4, <2>5, <2>6, <2>7, <2>8, <2>9, <2>10 DEF DispatcherStep
  <1>6. ASSUME NEW t \in TaskId, TaskStep(t) \/ TaskDies(t) PROVE TypeOK'
    <2> USE DEF CallsOK, DispOK, UserOK
    <2>1. CASE TaskBegin(t)
      <3>1. task[t].row \in RowId /\ rows[task[t].row].version \in Nat
          BY <2>1, ColumnUpdate DEF TaskBegin, TaskOK, RowsOK
      <3>2. TaskOK'
          BY <2>1, <3>1, FinishedType DEF TaskBegin, TaskOK, TaskRec
      <3>3. QED
          BY <2>1, <3>2 DEF TaskBegin, RowsOK
    <2>2. ASSUME NEW s \in Sid, CallPlaced(t, s) PROVE TypeOK'
      <3>1. task[t].row \in RowId
          BY <2>2 DEF CallPlaced, TaskOK
      <3>2. CallsOK'
          BY <2>2, <3>1, PlaceCallType DEF CallPlaced
      <3>3. TaskOK'
          BY <2>2 DEF CallPlaced, TaskOK, TaskRec
      <3>4. QED
          BY <2>2, <3>2, <3>3 DEF CallPlaced, RowsOK
    <2>3. CASE TwilioError(t)
      <3>1. task[t].row \in RowId
          BY <2>3 DEF TwilioError, TaskOK
      <3>2. CallsOK'
          BY <2>3, <3>1, PlaceCallType DEF TwilioError
      <3>3. TaskOK'
          BY <2>3 DEF TwilioError, TaskOK, TaskRec
      <3>4. QED
          BY <2>3, <3>2, <3>3, FaultType DEF TwilioError, RowsOK
    <2>4. CASE CallRefused(t)
      <3>1. TaskOK'
          BY <2>4 DEF CallRefused, TaskOK, TaskRec
      <3>2. QED
          BY <2>4, <3>1 DEF CallRefused, RowsOK
    <2>5. CASE MarkRinging(t)
      <3>1. task[t].row \in RowId /\ task[t].sid \in Sid \cup {NoSid}
          BY <2>5 DEF MarkRinging, TaskOK, TaskRec
      <3>2. [Moved(task[t].row, "ringing") EXCEPT !.sid = task[t].sid] \in Row
          BY <3>1, MovedRow, ColumnUpdate, StatusSet
      <3>3. RowsOK'
          BY <2>5, <3>1, <3>2, RowsUpdate DEF MarkRinging, RowsOK
      <3>4. TaskOK'
          BY <2>5, FinishedType DEF MarkRinging
      <3>5. QED
          BY <2>5, <3>3, <3>4 DEF MarkRinging
    <2>6. CASE SettleError(t)
      <3>1. task[t].row \in RowId
          BY <2>6 DEF SettleError, TaskOK
      <3>2. RowsOK'
          BY <2>6, <3>1, TryMoveType, StatusSet DEF SettleError
      <3>3. TaskOK'
          BY <2>6, FinishedType DEF SettleError
      <3>4. QED
          BY <2>6, <3>2, <3>3 DEF SettleError
    <2>7. CASE TaskDies(t)
      <3>1. TaskOK'
          BY <2>7, FinishedType DEF TaskDies
      <3>2. QED
          BY <2>7, <3>1, FaultType DEF TaskDies, RowsOK
    <2>8. QED
        BY <1>6, <2>1, <2>2, <2>3, <2>4, <2>5, <2>6, <2>7 DEF TaskStep
  <1>7. ASSUME NEW u \in User, UserStep(u) PROVE TypeOK'
    <2> USE DEF DispOK
    <2>1. ASSUME NEW op \in UserOp, NEW r \in RowId, UserRead(u, op, r) PROVE TypeOK'
      <3>1. UserOK'
          BY <2>1 DEF UserRead, UserOK, UserRec, RowsOK, UserOp
      <3>2. QED
          BY <2>1, <3>1 DEF UserRead, RowsOK, CallsOK, TaskOK
    <2>2. CASE TwoLayerCancel(u)
      <3>1. /\ user[u].snap.task \in TaskId \cup {NoTask}
            /\ user[u].snap.sid \in Sid \cup {NoSid}
          BY DEF UserOK, UserRec, Row
      <3>2. TaskOK'
        <4>1. CASE UNCHANGED task
            BY <4>1 DEF TaskOK
        <4>2. CASE ~UNCHANGED task
            BY <2>2, <3>1, <4>2, FinishedType DEF TwoLayerCancel
        <4>3. QED
            BY <4>1, <4>2
      <3>3. CallsOK'
        <4>1. CASE UNCHANGED calls
            BY <4>1 DEF CallsOK
        <4>2. CASE ~UNCHANGED calls
            BY <2>2, <3>1, <4>2, HangUpType DEF TwoLayerCancel
        <4>3. QED
            BY <4>1, <4>2
      <3>4. UserOK'
          BY <2>2 DEF TwoLayerCancel, UserOK, UserRec
      <3>5. QED
          BY <2>2, <3>2, <3>3, <3>4 DEF TwoLayerCancel, RowsOK
    <2>3. CASE UserWrite(u)
      <3>1. user[u].row \in RowId /\ user[u].op \in UserOp
          BY <2>3 DEF UserWrite, UserOK, UserRec
      <3>2. Rescheduled(user[u].row) \in Row
        <4>1. rows[user[u].row] \in Row /\ rows[user[u].row].version + 1 \in Nat
            BY <3>1, ColumnUpdate DEF RowsOK
        <4> DEFINE q1 == [rows[user[u].row] EXCEPT !.version = rows[user[u].row].version + 1]
                   q2 == [q1 EXCEPT !.due = FALSE]
                   q3 == [q2 EXCEPT !.aged = FALSE]
        <4>2. q1 \in Row
            BY <4>1, ColumnUpdate
        <4>3. q2 \in Row
            BY <4>2, ColumnUpdate
        <4>4. q3 \in Row
            BY <4>3, ColumnUpdate
        <4>5. [q3 EXCEPT !.sid = NoSid] \in Row
            BY <4>4, ColumnUpdate
        <4>6. QED
            BY <4>5 DEF Rescheduled
      <3>3. RowsOK'
        <4>1. CASE user[u].op = "reschedule"
            BY <2>3, <4>1, <3>1, <3>2, RowsUpdate DEF UserWrite, RowsOK
        <4>2. CASE user[u].op # "reschedule"
            BY <2>3, <4>2, <3>1, TryMoveType, StatusSet DEF UserWrite, UserOp
        <4>3. QED
            BY <4>1, <4>2
      <3>4. UserOK'
          BY <2>3, FreshRowIsRow DEF UserWrite, UserOK, UserRec, IdleUser
      <3>5. QED
          BY <2>3, <3>3, <3>4 DEF UserWrite, CallsOK, TaskOK
    <2>4. QED
        BY <1>7, <2>1, <2>2, <2>3 DEF UserStep
  <1>8. CASE UNCHANGED vars
      BY <1>8 DEF vars, RowsOK, CallsOK, DispOK, TaskOK, UserOK
  <1>9. QED
      BY <1>1, <1>2, <1>3, <1>4, <1>5, <1>6, <1>7, <1>8 DEF Next

(* Type correctness: every value the protocol stores is of its column's    *)
(* type, and whoever works on a row works on one.                          *)
THEOREM TypeCorrect == Spec => []TypeOK
  <1>1. QED
      BY InitType, TypeStep, PTL DEF Spec
-----------------------------------------------------------------------------
(* The inductive invariant.                                                *)

LEMMA InitIInv == Init => IInv
  <1> SUFFICES ASSUME Init PROVE IInv
      OBVIOUS
  <1>1. /\ \A r \in RowId : rows[r].status = "none" /\ Free(r)
        /\ \A d \in Dispatcher : disp[d].pc = "idle"
        /\ \A t \in TaskId : task[t].pc = "unused"
        /\ \A s \in Sid : calls[s].phase = "none"
      BY DEF Init, NoneRow, NoCall, IdleDisp, UnusedTask, Free, PendingTask,
             Publishing, CallFor
  <1>2. KnownRows /\ HolderIsCurrent /\ VersionFixesStatus /\ PlacedHasCall /\ SidIsKnown
      BY <1>1 DEF KnownRows, HolderIsCurrent, VersionFixesStatus, PlacedHasCall, SidIsKnown
  <1>3. OneHolder
      BY <1>1 DEF OneHolder, PendingTask, Publishing, CallFor
  <1>4. ClaimableIsFree /\ HeldRowStatus
      BY <1>1 DEF ClaimableIsFree, HeldRowStatus, Free
  <1>5. QED
      BY <1>2, <1>3, <1>4, InitType DEF IInv

(* Most steps take rights away and give none.  Such a step leaves each row *)
(* as it is, inserts it, or moves it on; it lets executions finish and     *)
(* dispatchers let go; it places no call.                                  *)
RowKept(r) ==
    /\ rows'[r].status = rows[r].status
    /\ rows'[r].version = rows[r].version
    /\ rows'[r].sid = rows[r].sid
    /\ rows'[r].aged => rows[r].aged \/ rows[r].status # "dispatching" \/ ~Engaged(r)
RowInserted(r) == rows[r].status = "none" /\ rows'[r].status = "scheduled"
RowMoved(r) ==
    /\ rows[r].status # "none"
    /\ rows'[r].version = rows[r].version + 1
    /\ rows'[r].status \notin {"none", "dispatching"}
    /\ Free(r) \/ rows'[r].status = "cancelled"
(* The row of a call goes on with it. *)
RowGoesOn(r) ==
    /\ rows[r].status \in {"ringing", "in_progress"}
    /\ rows'[r].status \in {"in_progress"} \cup Terminal
    /\ rows'[r].version = rows[r].version + 1
    /\ rows'[r].sid = rows[r].sid
TaskKept(t) ==
    \/ task'[t] = task[t]
    \/ /\ task[t].pc \notin {"unused", "placed"}
       /\ task'[t].pc = "done"
       /\ task'[t].row = task[t].row
       /\ task'[t].ver = 0
DispKept(d) == disp'[d] = disp[d] \/ disp'[d].pc \in {"idle", "loop"}
CallKept(s) == /\ calls'[s].row = calls[s].row
               /\ calls'[s].phase = "none" <=> calls[s].phase = "none"

Settling == /\ \A r \in RowId : RowKept(r) \/ RowInserted(r) \/ RowMoved(r) \/ RowGoesOn(r)
            /\ \A t \in TaskId : TaskKept(t)
            /\ \A d \in Dispatcher : DispKept(d)
            /\ \A s \in Sid : CallKept(s)

LEMMA SettlingStep == IInv /\ TypeOK' /\ Settling => IInv'
  <1> SUFFICES ASSUME IInv, TypeOK', Settling PROVE IInv'
      OBVIOUS
  <1>0. TypeOK
      BY DEF IInv
  <1>1. /\ \A t \in TaskId, r \in RowId : PendingTask(t, r)' => PendingTask(t, r)
        /\ \A d \in Dispatcher, r \in RowId : Publishing(d, r)' => Publishing(d, r)
        /\ \A s \in Sid, r \in RowId : CallFor(s, r)' <=> CallFor(s, r)
      BY DEF Settling, TaskKept, DispKept, CallKept, PendingTask, Publishing, CallFor
  <1>2. \A r \in RowId : Free(r) => Free(r)'
      BY <1>1 DEF Free
  <1>3. OneHolder'
      BY <1>1 DEF OneHolder, IInv
  <1>4. \A r \in RowId :
           /\ rows[r].version \in Nat
           /\ rows'[r].version \in Nat
           /\ rows[r].status # "none" => /\ rows'[r].status # "none"
                                         /\ rows[r].version <= rows'[r].version
    <2>1. \A r \in RowId : rows[r].version \in Nat /\ rows'[r].version \in Nat
        BY <1>0 DEF TypeOK, RowsOK, Row
    <2>2. QED
        BY <2>1 DEF Settling, RowKept, RowInserted, RowMoved, RowGoesOn, Terminal
  <1>5. /\ \A d \in Dispatcher : disp[d].ver \in Nat
        /\ \A d \in Dispatcher : disp[d].pc \notin {"idle", "loop"} => disp[d].row \in RowId
        /\ \A t \in TaskId : task[t].ver \in Nat
        /\ \A t \in TaskId : task[t].pc # "unused" => task[t].row \in RowId
      BY <1>0 DEF TypeOK, DispOK, TaskOK, DispRec, TaskRec
  <1>6. KnownRows'
    <2>1. ASSUME NEW d \in Dispatcher, disp'[d].pc \in {"claim", "publish", "revert", "store"}
          PROVE  /\ rows'[disp'[d].row].status # "none"
                 /\ disp'[d].ver <= rows'[disp'[d].row].version
                 /\ disp'[d].pc \in {"publish", "revert"} =>
                       disp'[d].ver + 1 <= rows'[disp'[d].row].version
      <3>1. disp'[d] = disp[d] /\ disp[d].row \in RowId
          BY <2>1, <1>5 DEF Settling, DispKept
      <3>2. /\ rows[disp[d].row].status # "none"
            /\ disp[d].ver <= rows[disp[d].row].version
            /\ disp[d].pc \in {"publish", "revert"} =>
                  disp[d].ver + 1 <= rows[disp[d].row].version
          BY <2>1, <3>1 DEF IInv, KnownRows
      <3>3. /\ rows[disp[d].row].version \in Nat
            /\ rows'[disp[d].row].version \in Nat
            /\ rows[disp[d].row].version <= rows'[disp[d].row].version
            /\ rows'[disp[d].row].status # "none"
          BY <1>4, <3>1, <3>2
      <3>4. QED
          BY <1>5, <3>1, <3>2, <3>3
    <2>2. ASSUME NEW t \in TaskId, task'[t].pc # "unused"
          PROVE  /\ rows'[task'[t].row].status # "none"
                 /\ task'[t].ver <= rows'[task'[t].row].version
      <3>1. /\ task[t].pc # "unused"
            /\ task'[t].row = task[t].row
            /\ task[t].row \in RowId
            /\ task'[t].ver \in {0, task[t].ver}
          BY <2>2, <1>5 DEF Settling, TaskKept
      <3>2. /\ rows[task[t].row].status # "none"
            /\ task[t].ver <= rows[task[t].row].version
          BY <3>1 DEF IInv, KnownRows
      <3>3. /\ rows[task[t].row].version \in Nat
            /\ rows'[task[t].row].version \in Nat
            /\ rows[task[t].row].version <= rows'[task[t].row].version
            /\ rows'[task[t].row].status # "none"
          BY <1>4, <3>1, <3>2
      <3>4. QED
          BY <1>5, <3>1, <3>2, <3>3
    <2>3. QED
        BY <2>1, <2>2 DEF KnownRows
  <1>7. ClaimableIsFree'
    <2>1. ASSUME NEW r \in RowId, rows'[r].status \in {"none", "scheduled"} \/ Stuck(r)'
          PROVE  Free(r)'
      <3>1. CASE RowKept(r)
        <4>1. CASE rows[r].status \in {"none", "scheduled"} \/ Stuck(r)
            BY <4>1, <1>2 DEF IInv, ClaimableIsFree
        <4>2. CASE rows[r].status = "dispatching" /\ ~Engaged(r)
          <5>1. \A t \in TaskId : ~PendingTask(t, r)
              BY <4>2 DEF Engaged, PendingTask
          <5>2. \A d \in Dispatcher : ~Publishing(d, r)
              BY <4>2 DEF Engaged, Publishing
          <5>3. \A s \in Sid : ~CallFor(s, r)
              BY <4>2 DEF Engaged, IInv, SidIsKnown, PlacedHasCall, CallFor
          <5>4. QED
              BY <5>1, <5>2, <5>3, <1>2 DEF Free
        <4>3. QED
            BY <3>1, <2>1, <4>1, <4>2 DEF RowKept, Stuck
      <3>2. CASE RowInserted(r)
          BY <3>2, <1>2 DEF RowInserted, IInv, ClaimableIsFree
      <3>3. CASE RowMoved(r)
          BY <2>1, <3>3, <1>2 DEF RowMoved, Stuck
      <3>4. ~RowGoesOn(r)
          BY <2>1 DEF RowGoesOn, Stuck, Terminal
      <3>5. QED
          BY <3>1, <3>2, <3>3, <3>4 DEF Settling
    <2>2. ASSUME NEW d \in Dispatcher, disp'[d].pc = "revert",
                 NEW r \in RowId, disp'[d].row = r,
                 rows'[r].status = "dispatching",
                 rows'[r].version = disp'[d].ver + 1
          PROVE  Free(r)'
      <3>1. disp'[d] = disp[d] /\ disp[d].row = r
          BY <2>2 DEF Settling, DispKept
      <3>2. RowKept(r)
          BY <2>2 DEF Settling, RowInserted, RowMoved, RowGoesOn, Terminal
      <3>3. Free(r)
          BY <2>2, <3>1, <3>2 DEF RowKept, IInv, ClaimableIsFree
      <3>4. QED
          BY <3>3, <1>2
    <2>3. ASSUME NEW t \in TaskId, task'[t].pc \in {"revert", "reject"},
                 NEW r \in RowId, task'[t].row = r,
                 rows'[r].status = "dispatching",
                 rows'[r].version = task'[t].ver
          PROVE  Free(r)'
      <3>1. task'[t] = task[t] /\ task[t].row = r
          BY <2>3 DEF Settling, TaskKept
      <3>2. RowKept(r)
          BY <2>3 DEF Settling, RowInserted, RowMoved, RowGoesOn, Terminal
      <3>3. Free(r)
          BY <2>3, <3>1, <3>2 DEF RowKept, IInv, ClaimableIsFree
      <3>4. QED
          BY <3>3, <1>2
    <2>4. /\ \A d \in Dispatcher : disp'[d].pc = "revert" => disp'[d].row \in RowId
          /\ \A t \in TaskId : task'[t].pc # "unused" => task'[t].row \in RowId
        BY DEF TypeOK, DispOK, TaskOK
    <2>5. QED
        BY <2>1, <2>2, <2>3, <2>4 DEF ClaimableIsFree
  <1>8. HolderIsCurrent'
    <2> SUFFICES ASSUME NEW t \in TaskId, task'[t].pc \in {"calling", "placed"},
                        rows'[task'[t].row].status = "dispatching"
                 PROVE  task'[t].ver = rows'[task'[t].row].version
        BY DEF HolderIsCurrent
    <2>1. task'[t] = task[t] /\ task[t].row \in RowId
        BY <1>5 DEF Settling, TaskKept
    <2>2. RowKept(task[t].row)
        BY <2>1 DEF Settling, RowInserted, RowMoved, RowGoesOn, Terminal
    <2>3. QED
        BY <2>1, <2>2 DEF RowKept, IInv, HolderIsCurrent
  <1>13. HeldRowStatus'
      BY <1>1 DEF HeldRowStatus, Free, IInv, ClaimableIsFree, Settling,
                  RowKept, RowInserted, RowMoved, RowGoesOn
  <1>9. VersionFixesStatus'
    <2> SUFFICES ASSUME NEW t \in TaskId,
                        task'[t].pc \in {"calling", "placed", "revert", "reject"},
                        task'[t].ver = rows'[task'[t].row].version
                 PROVE  rows'[task'[t].row].status = "dispatching"
        BY DEF VersionFixesStatus
    <2> DEFINE r == task[t].row
    <2>1. task'[t] = task[t] /\ r \in RowId
        BY <1>5 DEF Settling, TaskKept
    <2>2. rows[r].status # "none" /\ task[t].ver <= rows[r].version
        BY <2>1 DEF IInv, KnownRows
    <2>3. RowKept(r)
        BY <1>4, <1>5, <2>1, <2>2 DEF Settling, RowInserted, RowMoved, RowGoesOn
    <2>4. QED
        BY <2>1, <2>3 DEF RowKept, IInv, VersionFixesStatus
  <1>10. PlacedHasCall'
      BY <1>1, <1>5 DEF PlacedHasCall, IInv, Settling, TaskKept
  <1>11. SidIsKnown'
    <2> SUFFICES ASSUME NEW s \in Sid, calls'[s].phase # "none"
                 PROVE  \/ rows'[calls'[s].row].status = "cancelled"
                        \/ /\ rows'[calls'[s].row].status # "dispatching"
                           /\ rows'[calls'[s].row].sid = s
                        \/ /\ rows'[calls'[s].row].status = "dispatching"
                           /\ \E t \in TaskId : task'[t].pc = "placed" /\ task'[t].sid = s
        BY DEF SidIsKnown
    <2> DEFINE r == calls[s].row
    <2>1. calls'[s].row = r /\ calls[s].phase # "none" /\ r \in RowId /\ CallFor(s, r)
        BY <1>0 DEF Settling, CallKept, TypeOK, CallsOK, CallFor
    <2>2. ~Free(r)
        BY <2>1 DEF Free
    <2>3. rows[r].status # "none"
        BY <2>1, <2>2 DEF IInv, ClaimableIsFree
    <2>4. CASE RowMoved(r)
        BY <2>1, <2>2, <2>4 DEF RowMoved
    <2>5. CASE RowKept(r)
      <3>1. \A t \in TaskId : task[t].pc = "placed" => task'[t] = task[t]
          BY DEF Settling, TaskKept
      <3>2. QED
          BY <2>1, <2>5, <3>1 DEF RowKept, IInv, SidIsKnown
    <2>6. CASE RowGoesOn(r)
        BY <2>1, <2>6 DEF RowGoesOn, Terminal, IInv, SidIsKnown
    <2>7. QED
        BY <2>1, <2>3, <2>4, <2>5, <2>6 DEF Settling, RowInserted
  <1>12. QED
      BY <1>3, <1>6, <1>7, <1>8, <1>9, <1>10, <1>11, <1>13 DEF IInv

(* A row whose columns are kept, for the steps that do not touch it. *)
LEMMA UnchangedRow == \A r \in RowId : rows'[r] = rows[r] => RowKept(r)
  BY DEF RowKept

LEMMA UnchangedTables ==
    /\ UNCHANGED rows => \A r \in RowId : RowKept(r)
    /\ UNCHANGED task => \A t \in TaskId : TaskKept(t)
    /\ UNCHANGED disp => \A d \in Dispatcher : DispKept(d)
    /\ UNCHANGED calls => \A s \in Sid : CallKept(s)
  BY DEF RowKept, TaskKept, DispKept, CallKept

(* A move that is not to dispatching, of a row that is free or is being    *)
(* cancelled, is RowMoved; the other rows stay.                            *)
LEMMA MoveKept ==
    ASSUME RowsOK, NEW r \in RowId, NEW to \in Status \ {"dispatching"},
           rows[r].status # "none", Free(r) \/ to = "cancelled",
           rows' = [rows EXCEPT ![r] = Moved(r, to)]
    PROVE  \A x \in RowId : RowKept(x) \/ RowMoved(x)
  <1>1. rows'[r].status = to /\ rows'[r].version = rows[r].version + 1
      BY MovedRow DEF RowsOK
  <1>2. RowMoved(r)
      BY <1>1, StatusSet DEF RowMoved
  <1>3. \A x \in RowId : x # r => rows'[x] = rows[x]
      BY DEF RowsOK
  <1>4. QED
      BY <1>2, <1>3, UnchangedRow

LEMMA TryMoveKept ==
    ASSUME RowsOK, NEW r \in RowId, NEW to \in Status \ {"dispatching"}, NEW v,
           CanMove(r, v, to) => Free(r) \/ to = "cancelled",
           TryMove(r, v, to)
    PROVE  \A x \in RowId : RowKept(x) \/ RowMoved(x)
  <1>1. CASE CanMove(r, v, to)
      BY <1>1, MoveKept DEF TryMove, CanMove
  <1>2. CASE ~CanMove(r, v, to)
      BY <1>2, UnchangedRow DEF TryMove
  <1>3. QED
      BY <1>1, <1>2

LEMMA NextRowKept ==
    ASSUME DispOK, NEW d \in Dispatcher, NextRow(d)
    PROVE  \A e \in Dispatcher : DispKept(e)
  BY DEF DispOK, NextRow, IdleDisp, DispKept

LEMMA FinishedKept ==
    ASSUME TaskOK, NEW t \in TaskId, task[t].pc \notin {"unused", "placed"}, Finished(t)
    PROVE  \A o \in TaskId : TaskKept(o)
  BY DEF TaskOK, Finished, Forget, UnusedTask, TaskKept

(* Steps of rows, of the sweep and of users. *)
LEMMA RowSettles ==
    ASSUME IInv, NEW r \in RowId,
           HarmlessOnly, Insert(r) \/ BecomeDue(r) \/ Age(r)
    PROVE  Settling
  <1>1. RowsOK
      BY DEF IInv, TypeOK
  <1>2. CASE Insert(r)
    <2>1. RowInserted(r)
        BY <1>1, <1>2 DEF Insert, RowsOK, RowInserted, FreshRow, NoneRow
    <2>2. \A x \in RowId : x # r => rows'[x] = rows[x]
        BY <1>1, <1>2 DEF Insert, RowsOK
    <2>3. QED
        BY <1>2, <2>1, <2>2, UnchangedRow, UnchangedTables DEF Insert, Settling
  <1>3. CASE BecomeDue(r)
    <2>1. \A x \in RowId : RowKept(x)
        BY <1>1, <1>3 DEF BecomeDue, RowsOK, Row, RowKept
    <2>2. QED
        BY <1>3, <2>1, UnchangedTables DEF BecomeDue, Settling
  <1>4. CASE Age(r)
    <2>1. ~Engaged(r)
        BY <1>4 DEF Age, Fault, HarmlessOnly, HarmlessFault
    <2>2. \A x \in RowId : RowKept(x)
        BY <1>1, <1>4, <2>1 DEF Age, RowsOK, Row, RowKept
    <2>3. QED
        BY <1>4, <2>2, UnchangedTables DEF Age, Settling
  <1>5. QED
      BY <1>2, <1>3, <1>4

LEMMA SweepSettles == ASSUME IInv, Sweep PROVE Settling
  <1>1. RowsOK
      BY DEF IInv, TypeOK
  <1>2. ASSUME NEW r \in RowId PROVE RowKept(r) \/ RowMoved(r)
    <2>1. CASE Stuck(r)
      <3>1. rows'[r].status = "scheduled" /\ rows'[r].version = rows[r].version + 1
          BY <1>1, <2>1, MovedRow, StatusSet DEF Sweep
      <3>2. Free(r)
          BY <2>1 DEF IInv, ClaimableIsFree
      <3>3. QED
          BY <2>1, <3>1, <3>2 DEF RowMoved, Stuck
    <2>2. CASE ~Stuck(r)
        BY <2>2, UnchangedRow DEF Sweep
    <2>3. QED
        BY <2>1, <2>2
  <1>3. QED
      BY <1>2, UnchangedTables DEF Sweep, Settling

LEMMA UserSettles ==
    ASSUME IInv, NEW u \in User, UserStep(u)
    PROVE  Settling
  <1>1. RowsOK /\ CallsOK /\ TaskOK /\ UserOK
      BY DEF IInv, TypeOK
  <1>2. ASSUME NEW op \in UserOp, NEW r \in RowId, UserRead(u, op, r) PROVE Settling
      BY <1>2, UnchangedTables DEF UserRead, Settling
  <1>3. CASE TwoLayerCancel(u)
    <2>1. user[u].snap.task \in TaskId \cup {NoTask} /\ user[u].snap.sid \in Sid \cup {NoSid}
        BY <1>1 DEF UserOK, UserRec, Row
    <2>2. \A t \in TaskId : TaskKept(t)
        BY <1>1, <1>3, <2>1, FinishedKept, UnchangedTables DEF TwoLayerCancel
    <2>3. \A s \in Sid : CallKept(s)
      <3>1. CASE UNCHANGED calls
          BY <3>1, UnchangedTables
      <3>2. CASE ~UNCHANGED calls
          BY <1>1, <1>3, <2>1, <3>2 DEF TwoLayerCancel, HangUp, CallsOK, Call, CallKept
      <3>3. QED
          BY <3>1, <3>2
    <2>4. QED
        BY <1>3, <2>2, <2>3, UnchangedTables DEF TwoLayerCancel, Settling
  <1>4. CASE UserWrite(u)
    <2>1. user[u].row \in RowId /\ user[u].op \in UserOp
        BY <1>1, <1>4 DEF UserWrite, UserOK, UserRec
    <2> DEFINE r == user[u].row
               v == user[u].snap.version
    <2>2. \A x \in RowId : RowKept(x) \/ RowMoved(x)
      <3>1. CASE user[u].op = "reschedule"
        <4>1. CASE rows[r].status = "scheduled" /\ rows[r].version = v
          <5>1. rows' = [rows EXCEPT ![r] = Rescheduled(r)]
              BY <1>4, <3>1, <4>1 DEF UserWrite
          <5>2. /\ Rescheduled(r).status = "scheduled"
                /\ Rescheduled(r).version = rows[r].version + 1
              BY <1>1, <2>1, <4>1 DEF RowsOK, Row, Rescheduled
          <5>3. Free(r)
              BY <2>1, <4>1 DEF IInv, ClaimableIsFree
          <5>4. RowMoved(r)
              BY <1>1, <2>1, <4>1, <5>1, <5>2, <5>3 DEF RowsOK, RowMoved
          <5>5. \A x \in RowId : x # r => rows'[x] = rows[x]
              BY <1>1, <5>1 DEF RowsOK
          <5>6. QED
              BY <5>4, <5>5, UnchangedRow
        <4>2. CASE ~(rows[r].status = "scheduled" /\ rows[r].version = v)
            BY <1>4, <3>1, <4>2, UnchangedRow DEF UserWrite
        <4>3. QED
            BY <4>1, <4>2
      <3>2. CASE user[u].op = "skip"
        <4>1. TryMove(r, v, "skipped")
            BY <1>4, <3>2 DEF UserWrite
        <4>2. ASSUME CanMove(r, v, "skipped") PROVE Free(r)
          <5>1. rows[r].status \in Status
              BY <1>1, <2>1, <4>2 DEF RowsOK, Row, CanMove
          <5>2. rows[r].status = "scheduled"
              BY <4>2, <5>1, SuccTable DEF CanMove
          <5>3. QED
              BY <2>1, <5>2 DEF IInv, ClaimableIsFree
        <4>3. QED
            BY <1>1, <2>1, <4>1, <4>2, TryMoveKept, StatusSet
      <3>3. CASE user[u].op \in {"cancel_today", "replace"}
        <4>1. TryMove(r, v, "cancelled")
            BY <1>4, <3>3 DEF UserWrite
        <4>2. QED
            BY <1>1, <2>1, <4>1, TryMoveKept, StatusSet
      <3>4. QED
          BY <2>1, <3>1, <3>2, <3>3 DEF UserOp
    <2>3. QED
        BY <1>4, <2>2, UnchangedTables DEF UserWrite, Settling
  <1>5. QED
      BY <1>2, <1>3, <1>4 DEF UserStep

(* A dispatcher lets go of a row. *)
LEMMA DispatcherSettles ==
    ASSUME IInv, NEW d \in Dispatcher,
           \/ SelectDue(d) \/ Revert(d) \/ StoreTaskId(d) \/ DispatcherDbError(d)
           \/ DispatcherReturns(d) \/ DispatcherCrash(d)
    PROVE  Settling
  <1>1. RowsOK /\ DispOK
      BY DEF IInv, TypeOK
  <1>2. CASE SelectDue(d)
    <2>1. \A e \in Dispatcher : DispKept(e)
        BY <1>1, <1>2 DEF SelectDue, DispOK, IdleDisp, DispKept
    <2>2. QED
        BY <1>2, <2>1, UnchangedTables DEF SelectDue, Settling
  <1>3. CASE Revert(d)
    <2> DEFINE r == disp[d].row
    <2>1. r \in RowId
        BY <1>1, <1>3 DEF Revert, DispOK
    <2>2. \A x \in RowId : RowKept(x) \/ RowMoved(x)
      <3>1. CASE rows[r].status = "dispatching" /\ rows[r].version = disp[d].ver + 1
        <4>1. Free(r)
            BY <1>3, <3>1 DEF Revert, IInv, ClaimableIsFree
        <4>2. rows' = [rows EXCEPT ![r] = Moved(r, "scheduled")]
            BY <1>3, <3>1 DEF Revert
        <4>3. QED
            BY <1>1, <2>1, <3>1, <4>1, <4>2, MoveKept, StatusSet
      <3>2. CASE ~(rows[r].status = "dispatching" /\ rows[r].version = disp[d].ver + 1)
          BY <1>3, <3>2, UnchangedRow DEF Revert
      <3>3. QED
          BY <3>1, <3>2
    <2>3. QED
        BY <1>1, <1>3, <2>2, NextRowKept, UnchangedTables DEF Revert, Settling
  <1>4. CASE StoreTaskId(d)
    <2>1. disp[d].row \in RowId
        BY <1>1, <1>4 DEF StoreTaskId, DispOK
    <2>2. \A x \in RowId : RowKept(x)
        BY <1>1, <1>4, <2>1 DEF StoreTaskId, RowsOK, Row, RowKept
    <2>3. QED
        BY <1>1, <1>4, <2>2, NextRowKept, UnchangedTables DEF StoreTaskId, Settling
  <1>5. CASE DispatcherDbError(d)
      BY <1>1, <1>5, NextRowKept, UnchangedTables DEF DispatcherDbError, Settling
  <1>6. CASE DispatcherReturns(d) \/ DispatcherCrash(d)
    <2>1. \A e \in Dispatcher : DispKept(e)
        BY <1>1, <1>6 DEF DispatcherReturns, DispatcherCrash, DispOK, IdleDisp, DispKept
    <2>2. QED
        BY <1>6, <2>1, UnchangedTables DEF DispatcherReturns, DispatcherCrash, Settling
  <1>7. QED
      BY <1>2, <1>3, <1>4, <1>5, <1>6

(* An execution settles an error, finds its row gone on, or dies without a *)
(* call in its hands.                                                      *)
LEMMA TaskSettles ==
    ASSUME IInv, HarmlessOnly, NEW t \in TaskId,
           \/ SettleError(t) \/ TaskDies(t)
           \/ TaskBegin(t) /\ rows[task[t].row].status # "dispatching"
    PROVE  Settling
  <1>1. RowsOK /\ TaskOK
      BY DEF IInv, TypeOK
  <1>2. CASE SettleError(t)
    <2> DEFINE r == task[t].row
               to == IF task[t].pc = "revert" THEN "scheduled" ELSE "missed"
    <2>1. r \in RowId
        BY <1>1, <1>2 DEF SettleError, TaskOK
    <2>2. ASSUME CanMove(r, task[t].ver, to) PROVE Free(r)
      <3>1. rows[r].status \in Status /\ to \in Succ[rows[r].status]
          BY <1>1, <2>1, <2>2 DEF RowsOK, Row, CanMove
      <3>2. task[t].ver = rows[r].version
          BY <2>2 DEF CanMove
      <3>3. rows[r].status = "dispatching"
          BY <1>2, <2>1, <3>2 DEF SettleError, IInv, VersionFixesStatus
      <3>4. QED
          BY <1>2, <2>1, <3>2, <3>3 DEF SettleError, IInv, ClaimableIsFree
    <2>3. TryMove(r, task[t].ver, to)
        BY <1>2 DEF SettleError
    <2>4. \A x \in RowId : RowKept(x) \/ RowMoved(x)
        BY <1>1, <2>1, <2>2, <2>3, TryMoveKept, StatusSet
    <2>5. \A o \in TaskId : TaskKept(o)
        BY <1>1, <1>2, FinishedKept DEF SettleError
    <2>6. QED
        BY <1>2, <2>4, <2>5, UnchangedTables DEF SettleError, Settling
  <1>3. CASE TaskDies(t)
    <2>1. task[t].pc \notin {"unused", "placed"} /\ Finished(t)
        BY <1>3 DEF TaskDies, Fault, HarmlessOnly, HarmlessFault
    <2>2. QED
        BY <1>1, <1>3, <2>1, FinishedKept, UnchangedTables DEF TaskDies, Settling
  <1>4. CASE TaskBegin(t) /\ rows[task[t].row].status # "dispatching"
      BY <1>1, <1>4, FinishedKept, UnchangedTables DEF TaskBegin, Settling
  <1>5. QED
      BY <1>2, <1>3, <1>4

-----------------------------------------------------------------------------
(* The steps that hand the right to call on: row -> dispatcher -> message  *)
(* -> execution -> call.                                                   *)

LEMMA ClaimableIntro ==
    ASSUME TypeOK',
           \A x \in RowId : (rows'[x].status \in {"none", "scheduled"} \/ Stuck(x)') => Free(x)',
           \A e \in Dispatcher, x \in RowId :
              /\ disp'[e].pc = "revert" /\ disp'[e].row = x
              /\ rows'[x].status = "dispatching"
              /\ rows'[x].version = disp'[e].ver + 1
              => Free(x)',
           \A t \in TaskId, x \in RowId :
              /\ task'[t].pc \in {"revert", "reject"} /\ task'[t].row = x
              /\ rows'[x].status = "dispatching"
              /\ rows'[x].version = task'[t].ver
              => Free(x)'
    PROVE  ClaimableIsFree'
  <1>1. /\ \A e \in Dispatcher : disp'[e].pc = "revert" => disp'[e].row \in RowId
        /\ \A t \in TaskId : task'[t].pc # "unused" => task'[t].row \in RowId
      BY DEF TypeOK, DispOK, TaskOK
  <1>2. QED
      BY <1>1 DEF ClaimableIsFree

(* The same fact, of the current state. *)
LEMMA ClaimableElim ==
    ASSUME IInv
    PROVE  /\ \A x \in RowId : (rows[x].status \in {"none", "scheduled"} \/ Stuck(x)) => Free(x)
           /\ \A e \in Dispatcher, x \in RowId :
                 /\ disp[e].pc = "revert" /\ disp[e].row = x
                 /\ rows[x].status = "dispatching"
                 /\ rows[x].version = disp[e].ver + 1
                 => Free(x)
           /\ \A t \in TaskId, x \in RowId :
                 /\ task[t].pc \in {"revert", "reject"} /\ task[t].row = x
                 /\ rows[x].status = "dispatching"
                 /\ rows[x].version = task[t].ver
                 => Free(x)
  BY DEF IInv, ClaimableIsFree

LEMMA ReadFreshStep ==
    ASSUME IInv, TypeOK', NEW d \in Dispatcher, NEW r \in RowId, ReadFresh(d, r)
    PROVE  IInv'
  <1>1. RowsOK /\ DispOK
      BY DEF IInv, TypeOK
  <1>2. UNCHANGED <<rows, calls, task>>
      BY DEF ReadFresh
  <1>3. \A e \in Dispatcher :
           \/ disp'[e] = disp[e]
           \/ disp'[e].pc = "loop"
           \/ /\ disp'[e].pc = "claim"
              /\ disp'[e].row = r
              /\ disp'[e].ver = rows[r].version
              /\ rows[r].status = "scheduled"
      BY <1>1 DEF ReadFresh, DispOK, DispRec
  <1>4. \A e \in Dispatcher, x \in RowId : Publishing(e, x)' => Publishing(e, x)
      BY <1>3 DEF Publishing
  <1>5. \A x \in RowId : Free(x) => Free(x)'
      BY <1>2, <1>4 DEF Free, PendingTask, CallFor
  <1>6. KnownRows'
    <2>1. rows[r].version <= rows[r].version
        BY <1>1 DEF RowsOK, Row
    <2>2. QED
        BY <1>2, <1>3, <2>1 DEF KnownRows, IInv
  <1>7. OneHolder' /\ HeldRowStatus'
      BY <1>2, <1>4 DEF OneHolder, HeldRowStatus, IInv, PendingTask, CallFor
  <1>8. ClaimableIsFree'
    <2>1. \A e \in Dispatcher : disp'[e].pc = "revert" => disp'[e] = disp[e]
        BY <1>3
    <2>2. \A x \in RowId : Stuck(x)' <=> Stuck(x)
        BY <1>2 DEF Stuck
    <2>3. QED
        BY <1>2, <1>5, <2>1, <2>2, ClaimableElim, ClaimableIntro
  <1>9. HolderIsCurrent' /\ VersionFixesStatus' /\ PlacedHasCall' /\ SidIsKnown'
      BY <1>2 DEF IInv, HolderIsCurrent, VersionFixesStatus, PlacedHasCall, SidIsKnown, CallFor
  <1>10. QED
      BY <1>6, <1>7, <1>8, <1>9 DEF IInv

LEMMA VersionsKnown ==
    ASSUME TypeOK
    PROVE  /\ \A x \in RowId : rows[x].version \in Nat
           /\ \A d \in Dispatcher : disp[d].ver \in Nat
           /\ \A t \in TaskId : task[t].ver \in Nat
           /\ \A d \in Dispatcher : disp[d].pc \notin {"idle", "loop"} => disp[d].row \in RowId
           /\ \A t \in TaskId : task[t].pc # "unused" => task[t].row \in RowId
           /\ \A s \in Sid : calls[s].phase # "none" => calls[s].row \in RowId
  BY DEF TypeOK, RowsOK, Row, DispOK, DispRec, TaskOK, TaskRec, CallsOK

LEMMA ClaimStep ==
    ASSUME IInv, TypeOK', NEW d \in Dispatcher, Claim(d)
    PROVE  IInv'
  <1>1. RowsOK /\ DispOK /\ TypeOK
      BY DEF IInv, TypeOK
  <1>2. CASE ~Claimable(d)
    <2>1. Settling
        BY <1>1, <1>2, NextRowKept, UnchangedTables DEF Claim, Settling
    <2>2. QED
        BY <2>1, SettlingStep
  <1>3. CASE Claimable(d)
    <2>1. PICK r \in RowId : disp[d].row = r
        BY <1>1, VersionsKnown DEF Claim
    <2>2. /\ rows'[r].status = "dispatching"
          /\ rows'[r].version = rows[r].version + 1
          /\ rows'[r].aged = FALSE
          /\ \A x \in RowId : x # r => rows'[x] = rows[x]
      <3>1. rows' = [rows EXCEPT ![r] = Moved(r, "dispatching")]
          BY <1>3, <2>1 DEF Claim
      <3>2. QED
          BY <1>1, <3>1, MovedRow, StatusSet DEF RowsOK
    <2>3. /\ disp'[d].pc = "publish" /\ disp'[d].row = r /\ disp'[d].ver = rows[r].version
          /\ \A e \in Dispatcher : e # d => disp'[e] = disp[e]
        BY <1>1, <1>3, <2>1 DEF Claim, Claimable, DispOK, DispRec
    <2>4. UNCHANGED <<calls, task>>
        BY DEF Claim
    <2>5. Free(r) /\ rows[r].status = "scheduled"
        BY <1>3, <2>1, ClaimableElim DEF Claimable
    <2>6. \A e \in Dispatcher, x \in RowId :
             Publishing(e, x)' => Publishing(e, x) \/ (e = d /\ x = r)
        BY <2>3 DEF Publishing
    <2>7. \A x \in RowId : x # r /\ Free(x) => Free(x)'
        BY <2>4, <2>6 DEF Free, PendingTask, CallFor
    <2>8. KnownRows'
      <3>1. \A x \in RowId :
               /\ rows'[x].version \in Nat
               /\ rows[x].status # "none" => rows'[x].status # "none"
               /\ rows[x].version <= rows'[x].version
        <4>1. \A x \in RowId : rows[x].version <= rows[x].version
            BY <1>1, VersionsKnown
        <4>2. rows[r].version \in Nat /\ rows[r].version <= rows'[r].version /\ rows'[r].version \in Nat
            BY <1>1, <2>1, <2>2, VersionsKnown
        <4>3. QED
            BY <1>1, <2>2, <4>1, <4>2, VersionsKnown
      <3>2. disp'[d].ver + 1 <= rows'[r].version /\ disp'[d].ver <= rows'[r].version
          BY <1>1, <2>1, <2>2, <2>3, VersionsKnown
      <3>3. ASSUME NEW e \in Dispatcher, disp'[e].pc \in {"claim", "publish", "revert", "store"}
            PROVE  /\ rows'[disp'[e].row].status # "none"
                   /\ disp'[e].ver <= rows'[disp'[e].row].version
                   /\ disp'[e].pc \in {"publish", "revert"} =>
                         disp'[e].ver + 1 <= rows'[disp'[e].row].version
        <4>1. CASE e = d
            BY <2>2, <2>3, <3>2, <4>1
        <4>2. CASE e # d
          <5>1. disp'[e] = disp[e] /\ disp[e].row \in RowId
              BY <1>1, <2>3, <3>3, <4>2, VersionsKnown
          <5>2. /\ rows[disp[e].row].status # "none"
                /\ disp[e].ver <= rows[disp[e].row].version
                /\ disp[e].pc \in {"publish", "revert"} =>
                      disp[e].ver + 1 <= rows[disp[e].row].version
              BY <3>3, <5>1 DEF IInv, KnownRows
          <5>3. /\ rows[disp[e].row].version <= rows'[disp[e].row].version
                /\ rows'[disp[e].row].status # "none"
                /\ rows'[disp[e].row].version \in Nat
              BY <3>1, <3>2, <5>1, <5>2
          <5>4. disp[e].ver \in Nat /\ rows[disp[e].row].version \in Nat
              BY <1>1, <5>1, VersionsKnown
          <5>5. QED
              BY <5>1, <5>2, <5>3, <5>4
        <4>3. QED
            BY <4>1, <4>2
      <3>4. ASSUME NEW t \in TaskId, task[t].pc # "unused"
            PROVE  /\ rows'[task[t].row].status # "none"
                   /\ task[t].ver <= rows'[task[t].row].version
        <4>1. task[t].row \in RowId /\ task[t].ver \in Nat /\ rows[task[t].row].version \in Nat
            BY <1>1, <3>4, VersionsKnown
        <4>2. rows[task[t].row].status # "none" /\ task[t].ver <= rows[task[t].row].version
            BY <3>4 DEF IInv, KnownRows
        <4>3. QED
            BY <3>1, <3>2, <4>1, <4>2
      <3>5. QED
          BY <2>4, <3>3, <3>4 DEF KnownRows
    <2>9. OneHolder'
      <3>1. \A x \in RowId : x # r =>
               \A e \in Dispatcher : Publishing(e, x)' => Publishing(e, x)
          BY <2>6
      <3>2. \A e \in Dispatcher : Publishing(e, r)' => e = d
          BY <2>5, <2>6 DEF Free
      <3>3. \A x \in RowId :
               /\ \A t \in TaskId : PendingTask(t, x)' <=> PendingTask(t, x)
               /\ \A s \in Sid : CallFor(s, x)' <=> CallFor(s, x)
          BY <2>4 DEF PendingTask, CallFor
      <3>4. QED
          BY <2>5, <3>1, <3>2, <3>3 DEF OneHolder, IInv, Free
    <2>10. ClaimableIsFree'
      <3>1. \A x \in RowId : x # r => (Stuck(x)' <=> Stuck(x))
          BY <2>2 DEF Stuck
      <3>2. ~Stuck(r)'
          BY <2>2 DEF Stuck
      <3>3. \A x \in RowId : (rows'[x].status \in {"none", "scheduled"} \/ Stuck(x)') => Free(x)'
          BY <2>2, <2>7, <3>1, <3>2, ClaimableElim
      <3>4. ASSUME NEW e \in Dispatcher, NEW x \in RowId,
                   disp'[e].pc = "revert", disp'[e].row = x,
                   rows'[x].status = "dispatching",
                   rows'[x].version = disp'[e].ver + 1
            PROVE  Free(x)'
        <4>1. disp'[e] = disp[e]
            BY <2>3, <3>4
        <4>2. x # r
          <5>1. disp[e].ver + 1 <= rows[x].version
              BY <3>4, <4>1 DEF IInv, KnownRows
          <5>2. QED
              BY <1>1, <2>2, <3>4, <4>1, <5>1, VersionsKnown
        <4>3. QED
            BY <2>2, <2>7, <3>4, <4>1, <4>2, ClaimableElim
      <3>5. ASSUME NEW t \in TaskId, NEW x \in RowId,
                   task'[t].pc \in {"revert", "reject"}, task'[t].row = x,
                   rows'[x].status = "dispatching",
                   rows'[x].version = task'[t].ver
            PROVE  Free(x)'
        <4>1. x # r
          <5>1. task[t].ver <= rows[x].version
              BY <2>4, <3>5 DEF IInv, KnownRows
          <5>2. QED
              BY <1>1, <2>2, <2>4, <3>5, <5>1, VersionsKnown
        <4>2. QED
            BY <2>2, <2>4, <2>7, <3>5, <4>1, ClaimableElim
      <3>6. QED
          BY <3>3, <3>4, <3>5, ClaimableIntro
    <2>11. HolderIsCurrent'
      <3>1. \A t \in TaskId : task[t].pc \in {"calling", "placed"} => task[t].row # r
          BY <2>5 DEF Free, PendingTask, IInv, PlacedHasCall
      <3>2. QED
          BY <1>1, <2>2, <2>4, <3>1, VersionsKnown DEF HolderIsCurrent, IInv
    <2>12. HeldRowStatus'
        BY <2>2, <2>4, <2>6 DEF HeldRowStatus, IInv, PendingTask
    <2>13. VersionFixesStatus'
        BY <1>1, <2>2, <2>4, VersionsKnown DEF VersionFixesStatus, IInv
    <2>14. PlacedHasCall'
        BY <2>4 DEF PlacedHasCall, IInv, CallFor
    <2>15. SidIsKnown'
      <3>1. \A s \in Sid : calls[s].phase # "none" => calls[s].row \in RowId /\ calls[s].row # r
          BY <1>1, <2>5, VersionsKnown DEF Free, CallFor
      <3>2. QED
          BY <2>2, <2>4, <3>1 DEF SidIsKnown, IInv
    <2>16. QED
        BY <2>8, <2>9, <2>10, <2>11, <2>12, <2>13, <2>14, <2>15 DEF IInv
  <1>4. QED
      BY <1>2, <1>3

(* What the remaining hand-overs share: the rows stay, so what is said of  *)
(* rows alone stays.                                                       *)
LEMMA RowsStay ==
    ASSUME IInv, TypeOK', UNCHANGED rows,
           \A e \in Dispatcher :
              \/ disp'[e] = disp[e]
              \/ disp'[e].pc \in {"idle", "loop"}
              \/ /\ disp[e].pc = "publish"
                 /\ disp'[e].row = disp[e].row
                 /\ disp'[e].ver = disp[e].ver,
           \A t \in TaskId :
              \/ task'[t] = task[t]
              \/ /\ rows[task'[t].row].status # "none"
                 /\ task'[t].ver <= rows[task'[t].row].version
                 /\ \/ task'[t].pc \in {"queued", "done"}
                    \/ rows[task'[t].row].status = "dispatching"
                    \/ /\ task[t].pc \in {"calling", "placed", "revert", "reject"}
                       /\ task'[t].row = task[t].row
                       /\ task'[t].ver = task[t].ver
    PROVE  KnownRows' /\ VersionFixesStatus'
  <1>1. KnownRows'
    <2>1. ASSUME NEW e \in Dispatcher, disp'[e].pc \in {"claim", "publish", "revert", "store"}
          PROVE  /\ rows'[disp'[e].row].status # "none"
                 /\ disp'[e].ver <= rows'[disp'[e].row].version
                 /\ disp'[e].pc \in {"publish", "revert"} =>
                       disp'[e].ver + 1 <= rows'[disp'[e].row].version
        BY <2>1 DEF IInv, KnownRows
    <2>2. ASSUME NEW t \in TaskId, task'[t].pc # "unused"
          PROVE  /\ rows'[task'[t].row].status # "none"
                 /\ task'[t].ver <= rows'[task'[t].row].version
        BY <2>2 DEF IInv, KnownRows
    <2>3. QED
        BY <2>1, <2>2 DEF KnownRows
  <1>2. VersionFixesStatus'
      BY DEF IInv, VersionFixesStatus
  <1>3. QED
      BY <1>1, <1>2

LEMMA PublishStep ==
    ASSUME IInv, TypeOK', NEW d \in Dispatcher, NEW t \in TaskId, Publish(d, t)
    PROVE  IInv'
  <1>1. TypeOK
      BY DEF IInv
  <1>2. PICK r \in RowId : disp[d].row = r
      BY <1>1, VersionsKnown DEF Publish
  <1>3. /\ disp'[d].pc = "store" /\ disp'[d].row = r /\ disp'[d].ver = disp[d].ver
        /\ \A e \in Dispatcher : e # d => disp'[e] = disp[e]
      BY <1>1, <1>2 DEF Publish, TypeOK, DispOK, DispRec
  <1>4. /\ task[t].pc = "unused"
        /\ task'[t].pc = "queued" /\ task'[t].row = r /\ task'[t].ver = 0
        /\ \A o \in TaskId : o # t => task'[o] = task[o]
      BY <1>1, <1>2 DEF Publish, Enqueue, UnusedTask, TypeOK, TaskOK
  <1>5. UNCHANGED <<rows, calls>>
      BY DEF Publish
  <1>6. Publishing(d, r)
      BY <1>2 DEF Publish, Publishing
  <1>7. /\ \A x \in RowId, o \in TaskId :
              PendingTask(o, x)' => PendingTask(o, x) \/ (o = t /\ x = r)
        /\ \A x \in RowId, e \in Dispatcher : Publishing(e, x)' => Publishing(e, x) /\ e # d
        /\ \A x \in RowId, s \in Sid : CallFor(s, x)' <=> CallFor(s, x)
      BY <1>3, <1>4, <1>5 DEF PendingTask, Publishing, CallFor
  <1>8. \A x \in RowId : Free(x) => Free(x)'
      BY <1>6, <1>7 DEF Free
  <1>9. KnownRows' /\ VersionFixesStatus'
    <2>1. rows[r].status # "none" /\ 0 <= rows[r].version
        BY <1>1, <1>2, VersionsKnown DEF Publish, IInv, KnownRows
    <2>2. QED
        BY <1>2, <1>3, <1>4, <1>5, <2>1, RowsStay DEF Publish
  <1>10. OneHolder'
      BY <1>6, <1>7 DEF OneHolder, IInv
  <1>11. ClaimableIsFree'
    <2>1. \A x \in RowId : Stuck(x)' <=> Stuck(x)
        BY <1>5 DEF Stuck
    <2>2. /\ \A e \in Dispatcher : disp'[e].pc = "revert" => disp'[e] = disp[e]
          /\ \A o \in TaskId : task'[o].pc \in {"revert", "reject"} => task'[o] = task[o]
        BY <1>3, <1>4
    <2>3. QED
        BY <1>5, <1>8, <2>1, <2>2, ClaimableElim, ClaimableIntro
  <1>12. HolderIsCurrent'
      BY <1>4, <1>5 DEF HolderIsCurrent, IInv
  <1>13. HeldRowStatus'
      BY <1>5, <1>6, <1>7 DEF HeldRowStatus, IInv
  <1>14. PlacedHasCall' /\ SidIsKnown'
      BY <1>4, <1>5 DEF PlacedHasCall, SidIsKnown, CallFor, IInv
  <1>15. QED
      BY <1>9, <1>10, <1>11, <1>12, <1>13, <1>14 DEF IInv

LEMMA PublishFailsStep ==
    ASSUME IInv, TypeOK', HarmlessOnly, NEW d \in Dispatcher, PublishFails(d)
    PROVE  IInv'
  <1>1. TypeOK
      BY DEF IInv
  <1>2. PICK r \in RowId : disp[d].row = r
      BY <1>1, VersionsKnown DEF PublishFails
  <1>3. /\ disp'[d].pc = "revert" /\ disp'[d].row = r /\ disp'[d].ver = disp[d].ver
        /\ \A e \in Dispatcher : e # d => disp'[e] = disp[e]
      BY <1>1, <1>2 DEF PublishFails, TypeOK, DispOK, DispRec
  <1>4. UNCHANGED <<rows, calls, task>>
      BY DEF PublishFails, Fault, HarmlessOnly, HarmlessFault
  <1>5. Publishing(d, r)
      BY <1>2 DEF PublishFails, Publishing
  <1>6. /\ \A x \in RowId, o \in TaskId : PendingTask(o, x)' <=> PendingTask(o, x)
        /\ \A x \in RowId, e \in Dispatcher : Publishing(e, x)' => Publishing(e, x) /\ e # d
        /\ \A x \in RowId, s \in Sid : CallFor(s, x)' <=> CallFor(s, x)
      BY <1>3, <1>4 DEF PendingTask, Publishing, CallFor
  <1>7. Free(r)' /\ \A x \in RowId : Free(x) => Free(x)'
      BY <1>5, <1>6 DEF Free, OneHolder, IInv
  <1>8. KnownRows' /\ VersionFixesStatus'
      BY <1>2, <1>3, <1>4, RowsStay DEF PublishFails
  <1>9. OneHolder' /\ HeldRowStatus'
      BY <1>4, <1>6 DEF OneHolder, HeldRowStatus, IInv
  <1>10. ClaimableIsFree'
    <2>1. \A x \in RowId : Stuck(x)' <=> Stuck(x)
        BY <1>4 DEF Stuck
    <2>2. QED
        BY <1>3, <1>4, <1>7, <2>1, ClaimableElim, ClaimableIntro
  <1>11. HolderIsCurrent' /\ PlacedHasCall' /\ SidIsKnown'
      BY <1>4 DEF HolderIsCurrent, PlacedHasCall, SidIsKnown, CallFor, IInv
  <1>12. QED
      BY <1>8, <1>9, <1>10, <1>11 DEF IInv

LEMMA TaskBeginStep ==
    ASSUME IInv, TypeOK', NEW t \in TaskId, TaskBegin(t),
           rows[task[t].row].status = "dispatching"
    PROVE  IInv'
  <1>1. TypeOK
      BY DEF IInv
  <1>2. PICK r \in RowId : task[t].row = r
      BY <1>1, VersionsKnown DEF TaskBegin
  <1>3. /\ task[t].pc = "queued"
        /\ task'[t].pc = "calling" /\ task'[t].row = r /\ task'[t].ver = rows[r].version
        /\ \A o \in TaskId : o # t => task'[o] = task[o]
      BY <1>1, <1>2 DEF TaskBegin, TypeOK, TaskOK, TaskRec
  <1>4. UNCHANGED <<rows, calls, disp>>
      BY DEF TaskBegin
  <1>5. /\ \A x \in RowId, o \in TaskId : PendingTask(o, x)' <=> PendingTask(o, x)
        /\ \A x \in RowId, e \in Dispatcher : Publishing(e, x)' <=> Publishing(e, x)
        /\ \A x \in RowId, s \in Sid : CallFor(s, x)' <=> CallFor(s, x)
      BY <1>2, <1>3, <1>4 DEF PendingTask, Publishing, CallFor
  <1>6. \A x \in RowId : Free(x) => Free(x)'
      BY <1>5 DEF Free
  <1>7. KnownRows' /\ VersionFixesStatus'
    <2>1. rows[r].version <= rows[r].version
        BY <1>1, VersionsKnown
    <2>2. QED
        BY <1>2, <1>3, <1>4, <2>1, RowsStay
  <1>8. OneHolder' /\ HeldRowStatus'
      BY <1>4, <1>5 DEF OneHolder, HeldRowStatus, IInv
  <1>9. ClaimableIsFree'
    <2>1. \A x \in RowId : Stuck(x)' <=> Stuck(x)
        BY <1>4 DEF Stuck
    <2>2. \A o \in TaskId : task'[o].pc \in {"revert", "reject"} => task'[o] = task[o]
        BY <1>3
    <2>3. QED
        BY <1>4, <1>6, <2>1, <2>2, ClaimableElim, ClaimableIntro
  <1>10. HolderIsCurrent' /\ PlacedHasCall' /\ SidIsKnown'
      BY <1>3, <1>4 DEF HolderIsCurrent, PlacedHasCall, SidIsKnown, CallFor, IInv
  <1>11. QED
      BY <1>7, <1>8, <1>9, <1>10 DEF IInv

LEMMA CallPlacedStep ==
    ASSUME IInv, TypeOK', NEW t \in TaskId, NEW s \in Sid, CallPlaced(t, s)
    PROVE  IInv'
  <1>1. TypeOK
      BY DEF IInv
  <1>2. PICK r \in RowId : task[t].row = r
      BY <1>1, VersionsKnown DEF CallPlaced
  <1>3. /\ task[t].pc = "calling"
        /\ task'[t].pc = "placed" /\ task'[t].row = r /\ task'[t].sid = s
        /\ task'[t].ver = task[t].ver
        /\ \A o \in TaskId : o # t => task'[o] = task[o]
      BY <1>1, <1>2 DEF CallPlaced, TypeOK, TaskOK, TaskRec
  <1>4. UNCHANGED <<rows, disp>>
      BY DEF CallPlaced
  <1>5. /\ calls[s].phase = "none"
        /\ calls'[s].phase = "queued" /\ calls'[s].row = r
        /\ \A q \in Sid : q # s => calls'[q] = calls[q]
      BY <1>1, <1>2 DEF CallPlaced, PlaceCall, TypeOK, CallsOK
  <1>6. PendingTask(t, r)
      BY <1>2, <1>3 DEF PendingTask
  <1>7. /\ \A x \in RowId, o \in TaskId : PendingTask(o, x)' => PendingTask(o, x) /\ o # t
        /\ \A x \in RowId, e \in Dispatcher : Publishing(e, x)' <=> Publishing(e, x)
        /\ \A x \in RowId, q \in Sid : CallFor(q, x)' <=> CallFor(q, x) \/ (q = s /\ x = r)
      BY <1>3, <1>4, <1>5 DEF PendingTask, Publishing, CallFor
  <1>8. \A x \in RowId : Free(x) => Free(x)'
      BY <1>6, <1>7 DEF Free
  <1>9. KnownRows' /\ VersionFixesStatus'
    <2>1. rows[r].status # "none" /\ task[t].ver <= rows[r].version
        BY <1>2, <1>3 DEF IInv, KnownRows
    <2>2. QED
        BY <1>2, <1>3, <1>4, <2>1, RowsStay
  <1>10. OneHolder'
      BY <1>6, <1>7 DEF OneHolder, IInv
  <1>11. HeldRowStatus'
      BY <1>4, <1>7 DEF HeldRowStatus, IInv
  <1>12. ClaimableIsFree'
    <2>1. \A x \in RowId : Stuck(x)' <=> Stuck(x)
        BY <1>4 DEF Stuck
    <2>2. \A o \in TaskId : task'[o].pc \in {"revert", "reject"} => task'[o] = task[o]
        BY <1>3
    <2>3. QED
        BY <1>4, <1>8, <2>1, <2>2, ClaimableElim, ClaimableIntro
  <1>13. HolderIsCurrent'
      BY <1>2, <1>3, <1>4 DEF HolderIsCurrent, IInv
  <1>14. PlacedHasCall'
      BY <1>3, <1>5 DEF PlacedHasCall, CallFor, IInv
  <1>15. SidIsKnown'
    <2>1. rows[r].status \in {"dispatching", "cancelled"}
        BY <1>6 DEF HeldRowStatus, IInv
    <2>2. \A o \in TaskId : task[o].pc = "placed" => task'[o] = task[o]
        BY <1>3
    <2>3. QED
        BY <1>3, <1>4, <1>5, <2>1, <2>2 DEF SidIsKnown, IInv
  <1>16. QED
      BY <1>9, <1>10, <1>11, <1>12, <1>13, <1>14, <1>15 DEF IInv

(* The call failed: the execution gives the right to call back. *)
LEMMA GiveUpStep ==
    ASSUME IInv, TypeOK', HarmlessOnly, NEW t \in TaskId, TwilioError(t) \/ CallRefused(t)
    PROVE  IInv'
  <1>1. TypeOK
      BY DEF IInv
  <1>2. PICK r \in RowId : task[t].row = r
      BY <1>1, VersionsKnown DEF TwilioError, CallRefused
  <1>3. UNCHANGED <<rows, calls, disp>>
      BY DEF TwilioError, CallRefused, Fault, HarmlessOnly, HarmlessFault
  <1>4. /\ task[t].pc = "calling"
        /\ task'[t].pc \in {"revert", "reject"} /\ task'[t].row = r
        /\ task'[t].ver = task[t].ver
        /\ \A o \in TaskId : o # t => task'[o] = task[o]
      BY <1>1, <1>2 DEF TwilioError, CallRefused, TypeOK, TaskOK, TaskRec
  <1>5. PendingTask(t, r)
      BY <1>2, <1>4 DEF PendingTask
  <1>6. /\ \A x \in RowId, o \in TaskId : PendingTask(o, x)' => PendingTask(o, x) /\ o # t
        /\ \A x \in RowId, e \in Dispatcher : Publishing(e, x)' <=> Publishing(e, x)
        /\ \A x \in RowId, q \in Sid : CallFor(q, x)' <=> CallFor(q, x)
      BY <1>3, <1>4 DEF PendingTask, Publishing, CallFor
  <1>7. Free(r)' /\ \A x \in RowId : Free(x) => Free(x)'
      BY <1>5, <1>6 DEF Free, OneHolder, IInv
  <1>8. KnownRows' /\ VersionFixesStatus'
    <2>1. rows[r].status # "none" /\ task[t].ver <= rows[r].version
        BY <1>2, <1>4 DEF IInv, KnownRows
    <2>2. QED
        BY <1>2, <1>3, <1>4, <2>1, RowsStay
  <1>9. OneHolder' /\ HeldRowStatus'
      BY <1>3, <1>6 DEF OneHolder, HeldRowStatus, IInv
  <1>10. ClaimableIsFree'
    <2>1. \A x \in RowId : Stuck(x)' <=> Stuck(x)
        BY <1>3 DEF Stuck
    <2>2. \A o \in TaskId : task'[o] = task[o] \/ task'[o].row = r
        BY <1>4
    <2>3. QED
        BY <1>3, <1>7, <2>1, <2>2, ClaimableElim, ClaimableIntro
  <1>11. HolderIsCurrent' /\ PlacedHasCall' /\ SidIsKnown'
    <2>1. \A o \in TaskId :
             /\ task[o].pc = "placed" => task'[o] = task[o]
             /\ task'[o].pc \in {"calling", "placed"} => task'[o] = task[o]
        BY <1>4
    <2>2. HolderIsCurrent'
        BY <1>3, <2>1 DEF HolderIsCurrent, IInv
    <2>3. PlacedHasCall' /\ SidIsKnown'
        BY <1>3, <1>4, <2>1 DEF PlacedHasCall, SidIsKnown, CallFor, IInv
    <2>4. QED
        BY <2>2, <2>3
  <1>12. QED
      BY <1>8, <1>9, <1>10, <1>11 DEF IInv

(* The call is recorded, or the row has gone on without it. *)
LEMMA MarkRingingStep ==
    ASSUME IInv, TypeOK', NEW t \in TaskId, MarkRinging(t)
    PROVE  IInv'
  <1>1. TypeOK
      BY DEF IInv
  <1>2. PICK r \in RowId : task[t].row = r
      BY <1>1, VersionsKnown DEF MarkRinging
  <1>3. PICK s \in Sid : task[t].sid = s /\ CallFor(s, r)
      BY <1>2 DEF MarkRinging, IInv, PlacedHasCall
  <1>4. /\ task[t].pc = "placed"
        /\ task'[t].pc = "done" /\ task'[t].row = r /\ task'[t].ver = 0
        /\ \A o \in TaskId : o # t => task'[o] = task[o]
      BY <1>1, <1>2 DEF MarkRinging, Finished, Forget, UnusedTask, TypeOK, TaskOK
  <1>5. UNCHANGED <<calls, disp>>
      BY DEF MarkRinging
  <1>6. /\ \A x \in RowId, o \in TaskId : PendingTask(o, x)' <=> PendingTask(o, x)
        /\ \A x \in RowId, e \in Dispatcher : Publishing(e, x)' <=> Publishing(e, x)
        /\ \A x \in RowId, q \in Sid : CallFor(q, x)' <=> CallFor(q, x)
      BY <1>4, <1>5 DEF PendingTask, Publishing, CallFor
  <1>7. \A x \in RowId : Free(x)' <=> Free(x)
      BY <1>6 DEF Free
  <1>8. ~Free(r)
      BY <1>3 DEF Free
  <1>9. rows[r].status \notin {"none", "scheduled"}
      BY <1>8, ClaimableElim
  <1>10. OneHolder'
      BY <1>6 DEF OneHolder, IInv
  <1>11. PlacedHasCall'
      BY <1>4, <1>5 DEF PlacedHasCall, CallFor, IInv
  <1>12. \A q \in Sid : CallFor(q, r) => q = s
      BY <1>3 DEF OneHolder, IInv
  <1>13. CASE CanMove(r, task[t].ver, "ringing")
    <2>1. /\ rows'[r].status = "ringing" /\ rows'[r].sid = s
          /\ rows'[r].version = rows[r].version + 1
          /\ \A x \in RowId : x # r => rows'[x] = rows[x]
      <3>1. rows' = [rows EXCEPT ![r] = [Moved(r, "ringing") EXCEPT !.sid = s]]
          BY <1>2, <1>3, <1>13 DEF MarkRinging
      <3>2. Moved(r, "ringing") \in Row /\ Moved(r, "ringing").status = "ringing"
            /\ Moved(r, "ringing").version = rows[r].version + 1
          BY <1>1, MovedRow, StatusSet DEF TypeOK
      <3>3. QED
          BY <1>1, <3>1, <3>2 DEF TypeOK, RowsOK, Row
    <2>2. rows[r].status = "dispatching"
        BY <1>2, <1>4, <1>13 DEF CanMove, IInv, VersionFixesStatus
    <2>3. ~\E x \in TaskId : PendingTask(x, r)
        BY <1>3 DEF OneHolder, IInv
    <2>4. \A x \in RowId :
             /\ rows[x].version <= rows'[x].version
             /\ rows'[x].version \in Nat
             /\ rows[x].status # "none" => rows'[x].status # "none"
      <3>1. \A x \in RowId : rows[x].version \in Nat /\ rows[x].version <= rows[x].version
          BY <1>1, VersionsKnown
      <3>2. rows[r].version <= rows[r].version + 1 /\ rows[r].version + 1 \in Nat
          BY <3>1
      <3>3. QED
          BY <2>1, <3>1, <3>2
    <2>5. KnownRows'
      <3>1. ASSUME NEW e \in Dispatcher, disp[e].pc \in {"claim", "publish", "revert", "store"}
            PROVE  /\ rows'[disp[e].row].status # "none"
                   /\ disp[e].ver <= rows'[disp[e].row].version
                   /\ disp[e].pc \in {"publish", "revert"} =>
                         disp[e].ver + 1 <= rows'[disp[e].row].version
        <4>1. disp[e].row \in RowId /\ disp[e].ver \in Nat
              /\ rows[disp[e].row].version \in Nat
            BY <1>1, <3>1, VersionsKnown
        <4>2. /\ rows[disp[e].row].status # "none"
              /\ disp[e].ver <= rows[disp[e].row].version
              /\ disp[e].pc \in {"publish", "revert"} =>
                    disp[e].ver + 1 <= rows[disp[e].row].version
            BY <3>1 DEF IInv, KnownRows
        <4>3. /\ rows[disp[e].row].version <= rows'[disp[e].row].version
              /\ rows'[disp[e].row].version \in Nat
              /\ rows'[disp[e].row].status # "none"
            BY <2>4, <4>1, <4>2
        <4>4. QED
            BY <4>1, <4>2, <4>3
      <3>2. ASSUME NEW o \in TaskId, task'[o].pc # "unused"
            PROVE  /\ rows'[task'[o].row].status # "none"
                   /\ task'[o].ver <= rows'[task'[o].row].version
        <4>1. /\ task[o].pc # "unused" /\ task'[o].row = task[o].row
              /\ task[o].row \in RowId
              /\ task[o].ver \in Nat /\ task'[o].ver \in {0, task[o].ver}
              /\ rows[task[o].row].version \in Nat
            BY <1>1, <1>2, <1>4, <3>2, VersionsKnown
        <4>2. rows[task[o].row].status # "none" /\ task[o].ver <= rows[task[o].row].version
            BY <4>1 DEF IInv, KnownRows
        <4>3. /\ rows[task[o].row].version <= rows'[task[o].row].version
              /\ rows'[task[o].row].version \in Nat
              /\ rows'[task[o].row].status # "none"
            BY <2>4, <4>1, <4>2
        <4>4. QED
            BY <4>1, <4>2, <4>3
      <3>3. QED
          BY <1>5, <3>1, <3>2 DEF KnownRows
    <2>6. ClaimableIsFree'
      <3>1. \A x \in RowId : x # r => (Stuck(x)' <=> Stuck(x))
          BY <2>1 DEF Stuck
      <3>2. ~Stuck(r)'
          BY <2>1 DEF Stuck
      <3>3. \A o \in TaskId : task'[o].pc \in {"revert", "reject"} => task'[o] = task[o]
          BY <1>4
      <3>4. QED
          BY <1>5, <1>7, <2>1, <3>1, <3>2, <3>3, ClaimableElim, ClaimableIntro
    <2>7. HolderIsCurrent' /\ VersionFixesStatus'
      <3>1. ASSUME NEW o \in TaskId, task'[o].pc \in {"calling", "placed", "revert", "reject"}
            PROVE  /\ task'[o] = task[o] /\ task[o].row \in RowId
                   /\ task[o].row = r => task[o].ver # rows'[r].version
        <4>1. task'[o] = task[o] /\ task[o].row \in RowId
              /\ task[o].ver \in Nat /\ rows[r].version \in Nat
            BY <1>1, <1>4, <3>1, VersionsKnown
        <4>2. task[o].row = r => task[o].ver <= rows[r].version
            BY <3>1, <4>1 DEF IInv, KnownRows
        <4>3. QED
            BY <2>1, <4>1, <4>2
      <3>2. QED
          BY <2>1, <3>1 DEF HolderIsCurrent, VersionFixesStatus, IInv
    <2>8. HeldRowStatus'
      <3>1. ~\E e \in Dispatcher : Publishing(e, r)
          BY <1>3 DEF OneHolder, IInv
      <3>2. QED
          BY <1>6, <2>1, <2>3, <3>1 DEF HeldRowStatus, IInv
    <2>9. SidIsKnown'
      <3>1. \A q \in Sid : calls[q].phase # "none" /\ calls[q].row = r => q = s
          BY <1>12 DEF CallFor
      <3>2. \A q \in Sid : calls[q].phase # "none" => calls[q].row \in RowId
          BY <1>1, VersionsKnown
      <3>3. \A o \in TaskId, q \in Sid :
               task[o].pc = "placed" /\ task[o].sid = q /\ calls[q].row # r => task'[o] = task[o]
          BY <1>3, <1>4 DEF CallFor
      <3>4. QED
          BY <1>5, <2>1, <3>1, <3>2, <3>3 DEF SidIsKnown, IInv
    <2>10. QED
        BY <1>10, <1>11, <2>5, <2>6, <2>7, <2>8, <2>9 DEF IInv
  <1>14. CASE ~CanMove(r, task[t].ver, "ringing")
    <2>1. UNCHANGED rows
        BY <1>2, <1>14 DEF MarkRinging
    <2>2. rows[r].status # "dispatching"
      <3>1. rows[r].status = "dispatching" => task[t].ver = rows[r].version
          BY <1>2, <1>4 DEF IInv, HolderIsCurrent
      <3>2. QED
          BY <1>14, <3>1, SuccTable DEF CanMove
    <2>3. KnownRows' /\ VersionFixesStatus'
      <3>1. rows[r].status # "none" /\ 0 <= rows[r].version
          BY <1>1, <1>9, VersionsKnown
      <3>2. QED
          BY <1>4, <1>5, <2>1, <3>1, RowsStay
    <2>4. ClaimableIsFree'
      <3>1. \A x \in RowId : Stuck(x)' <=> Stuck(x)
          BY <2>1 DEF Stuck
      <3>2. \A o \in TaskId : task'[o].pc \in {"revert", "reject"} => task'[o] = task[o]
          BY <1>4
      <3>3. QED
          BY <1>5, <1>7, <2>1, <3>1, <3>2, ClaimableElim, ClaimableIntro
    <2>5. HolderIsCurrent'
        BY <1>4, <2>1 DEF HolderIsCurrent, IInv
    <2>6. HeldRowStatus'
        BY <1>6, <2>1 DEF HeldRowStatus, IInv
    <2>7. SidIsKnown'
      <3>1. \A o \in TaskId, q \in Sid :
               /\ task[o].pc = "placed" /\ task[o].sid = q
               /\ rows[calls[q].row].status = "dispatching"
               => task'[o] = task[o]
          BY <1>3, <1>4, <2>2 DEF CallFor
      <3>2. QED
          BY <1>5, <2>1, <3>1 DEF SidIsKnown, IInv
    <2>8. QED
        BY <1>10, <1>11, <2>3, <2>4, <2>5, <2>6, <2>7 DEF IInv
  <1>15. QED
      BY <1>13, <1>14

LEMMA InductiveStep == HarmlessOnly /\ IInv /\ [Next]_vars => IInv'
  <1> SUFFICES ASSUME HarmlessOnly, IInv, [Next]_vars PROVE IInv'
      OBVIOUS
  <1>1. TypeOK'
      BY TypeStep DEF IInv
  <1>2. ASSUME NEW r \in RowId, Insert(r) \/ BecomeDue(r) \/ Age(r) PROVE IInv'
      BY <1>1, <1>2, RowSettles, SettlingStep
  <1>3. CASE Sweep
      BY <1>1, <1>3, SweepSettles, SettlingStep
  <1>4. ASSUME NEW u \in User, UserStep(u) PROVE IInv'
      BY <1>1, <1>4, UserSettles, SettlingStep
  <1>5. ASSUME NEW d \in Dispatcher, DispatcherStep(d) \/ DispatcherCrash(d) PROVE IInv'
    <2>1. CASE \/ SelectDue(d) \/ Revert(d) \/ StoreTaskId(d) \/ DispatcherDbError(d)
               \/ DispatcherReturns(d) \/ DispatcherCrash(d)
        BY <1>1, <2>1, DispatcherSettles, SettlingStep
    <2>2. CASE Claim(d)
        BY <1>1, <2>2, ClaimStep
    <2>3. CASE PublishFails(d)
        BY <1>1, <2>3, PublishFailsStep
    <2>4. ASSUME NEW r \in RowId, ReadFresh(d, r) PROVE IInv'
        BY <1>1, <2>4, ReadFreshStep
    <2>5. ASSUME NEW t \in TaskId, Publish(d, t) PROVE IInv'
        BY <1>1, <2>5, PublishStep
    <2>6. QED
        BY <1>5, <2>1, <2>2, <2>3, <2>4, <2>5 DEF DispatcherStep
  <1>6. ASSUME NEW t \in TaskId, TaskStep(t) \/ TaskDies(t) PROVE IInv'
    <2>1. CASE \/ SettleError(t) \/ TaskDies(t)
               \/ TaskBegin(t) /\ rows[task[t].row].status # "dispatching"
        BY <1>1, <2>1, TaskSettles, SettlingStep
    <2>2. CASE TaskBegin(t) /\ rows[task[t].row].status = "dispatching"
        BY <1>1, <2>2, TaskBeginStep
    <2>3. CASE TwilioError(t) \/ CallRefused(t)
        BY <1>1, <2>3, GiveUpStep
    <2>4. CASE MarkRinging(t)
        BY <1>1, <2>4, MarkRingingStep
    <2>5. ASSUME NEW s \in Sid, CallPlaced(t, s) PROVE IInv'
        BY <1>1, <2>5, CallPlacedStep
    <2>6. QED
        BY <1>6, <2>1, <2>2, <2>3, <2>4, <2>5 DEF TaskStep
  <1>7. CASE UNCHANGED vars
    <2>1. Settling
        BY <1>7, UnchangedTables DEF vars, Settling
    <2>2. QED
        BY <1>1, <2>1, SettlingStep
  <1>8. QED
      BY <1>2, <1>3, <1>4, <1>5, <1>6, <1>7 DEF Next

(* At most one Twilio call per call_logs row, known to the row that it was *)
(* placed for, in every interleaving of any number of dispatcher runs,     *)
(* tasks, sweeps and user operations, as long as the faults are harmless.  *)
THEOREM AtMostOnce ==
    HarmlessOnly => (Spec => [](AtMostOneCall /\ CallIsRecorded))
  <1> SUFFICES ASSUME HarmlessOnly PROVE Spec => [](AtMostOneCall /\ CallIsRecorded)
      OBVIOUS
  <1>1. IInv => AtMostOneCall /\ CallIsRecorded
    <2>1. IInv => AtMostOneCall
        BY DEF IInv, TypeOK, CallsOK, OneHolder, CallFor, AtMostOneCall
    <2>2. IInv => CallIsRecorded
        BY DEF IInv, SidIsKnown, CallIsRecorded
    <2>3. QED
        BY <2>1, <2>2
  <1>2. IInv /\ [Next]_vars => IInv'
      BY InductiveStep
  <1>3. QED
      BY <1>1, <1>2, InitIInv, PTL DEF Spec

-----------------------------------------------------------------------------
(* The version fence.                                                      *)

LEMMA TransitionStep == TypeOK /\ [Next]_vars => \A r \in RowId : RowStepOK(r)
  <1> SUFFICES ASSUME TypeOK, [Next]_vars PROVE \A r \in RowId : RowStepOK(r)
      OBVIOUS
  <1>1. RowsOK
      BY DEF TypeOK
  <1>2. CASE UNCHANGED rows
      BY <1>2, StayOK
  <1>3. ASSUME NEW r \in RowId, Insert(r) \/ BecomeDue(r) \/ Age(r)
        PROVE  \A x \in RowId : RowStepOK(x)
    <2>1. CASE Insert(r)
        BY <1>1, <2>1 DEF Insert, RowsOK, FreshRow, NoneRow, RowStepOK
    <2>2. CASE BecomeDue(r)
        BY <1>1, <2>2 DEF BecomeDue, RowsOK, Row, RowStepOK
    <2>3. CASE Age(r)
        BY <1>1, <2>3 DEF Age, RowsOK, Row, RowStepOK
    <2>4. QED
        BY <1>3, <2>1, <2>2, <2>3
  <1>4. CASE Sweep
    <2> SUFFICES ASSUME NEW r \in RowId PROVE RowStepOK(r)
        OBVIOUS
    <2>1. CASE Stuck(r)
      <3>1. rows'[r].status = "scheduled" /\ rows'[r].version = rows[r].version + 1
          BY <1>1, <1>4, <2>1, MovedRow, StatusSet DEF Sweep
      <3>2. QED
          BY <2>1, <3>1, SuccTable DEF Stuck, RowStepOK
    <2>2. CASE ~Stuck(r)
        BY <1>4, <2>2, StayOK DEF Sweep
    <2>3. QED
        BY <2>1, <2>2
  <1>5. ASSUME NEW d \in Dispatcher, Claim(d) PROVE \A x \in RowId : RowStepOK(x)
    <2>1. disp[d].row \in RowId
        BY <1>5, VersionsKnown DEF Claim
    <2>2. QED
        BY <1>1, <1>5, <2>1, MoveOK, StayOK, SuccTable, StatusSet DEF Claim, Claimable
  <1>6. ASSUME NEW d \in Dispatcher, Revert(d) PROVE \A x \in RowId : RowStepOK(x)
    <2>1. disp[d].row \in RowId
        BY <1>6, VersionsKnown DEF Revert
    <2>2. QED
        BY <1>1, <1>6, <2>1, MoveOK, StayOK, SuccTable, StatusSet DEF Revert
  <1>7. ASSUME NEW d \in Dispatcher, StoreTaskId(d) PROVE \A x \in RowId : RowStepOK(x)
    <2>1. disp[d].row \in RowId
        BY <1>7, VersionsKnown DEF StoreTaskId
    <2>2. QED
        BY <1>1, <1>7, <2>1 DEF StoreTaskId, RowsOK, Row, RowStepOK
  <1>8. ASSUME NEW t \in TaskId, MarkRinging(t) PROVE \A x \in RowId : RowStepOK(x)
    <2>1. PICK r \in RowId : task[t].row = r
        BY <1>8, VersionsKnown DEF MarkRinging
    <2>2. CASE CanMove(r, task[t].ver, "ringing")
      <3>1. rows' = [rows EXCEPT ![r] = [Moved(r, "ringing") EXCEPT !.sid = task[t].sid]]
          BY <1>8, <2>1, <2>2 DEF MarkRinging
      <3>2. /\ Moved(r, "ringing") \in Row
            /\ Moved(r, "ringing").status = "ringing"
            /\ Moved(r, "ringing").version = rows[r].version + 1
          BY <1>1, MovedRow, StatusSet
      <3>3. /\ rows'[r].status = "ringing"
            /\ rows'[r].version = rows[r].version + 1
            /\ \A x \in RowId : x # r => rows'[x] = rows[x]
          BY <1>1, <3>1, <3>2 DEF RowsOK, Row
      <3>4. RowStepOK(r)
          BY <2>2, <3>3 DEF CanMove, RowStepOK
      <3>5. QED
          BY <3>3, <3>4, StayOK
    <2>3. CASE ~CanMove(r, task[t].ver, "ringing")
        BY <1>8, <2>1, <2>3, StayOK DEF MarkRinging
    <2>4. QED
        BY <2>2, <2>3
  <1>9. ASSUME NEW t \in TaskId, SettleError(t) PROVE \A x \in RowId : RowStepOK(x)
    <2>1. task[t].row \in RowId
        BY <1>9, VersionsKnown DEF SettleError
    <2>2. QED
        BY <1>1, <1>9, <2>1, TryMoveOK, StatusSet DEF SettleError
  <1>10. ASSUME NEW u \in User, UserWrite(u) PROVE \A x \in RowId : RowStepOK(x)
    <2>1. user[u].row \in RowId /\ user[u].op \in UserOp
        BY <1>10 DEF UserWrite, TypeOK, UserOK, UserRec
    <2>2. CASE user[u].op = "reschedule"
      <3>1. PICK r \in RowId : user[u].row = r
          BY <2>1
      <3>2. CASE UNCHANGED rows
          BY <3>2, StayOK
      <3>3. CASE rows' = [rows EXCEPT ![r] = Rescheduled(r)]
          BY <1>1, <3>3 DEF RowsOK, Row, Rescheduled, RowStepOK
      <3>4. QED
          BY <1>10, <2>2, <3>1, <3>2, <3>3 DEF UserWrite
    <2>3. CASE user[u].op # "reschedule"
        BY <1>1, <1>10, <2>1, <2>3, TryMoveOK, StatusSet DEF UserWrite, UserOp
    <2>4. QED
        BY <2>2, <2>3
  <1>11. CASE UNCHANGED vars
      BY <1>11, StayOK DEF vars
  <1>12. ASSUME NEW d \in Dispatcher, DispatcherStep(d) \/ DispatcherCrash(d)
         PROVE  UNCHANGED rows \/ Claim(d) \/ Revert(d) \/ StoreTaskId(d)
      BY <1>12 DEF DispatcherStep, DispatcherCrash, SelectDue, ReadFresh, Publish,
                   PublishFails, DispatcherDbError, DispatcherReturns
  <1>13. ASSUME NEW t \in TaskId, TaskStep(t) \/ TaskDies(t)
         PROVE  UNCHANGED rows \/ MarkRinging(t) \/ SettleError(t)
      BY <1>13 DEF TaskStep, TaskDies, TaskBegin, CallPlaced, TwilioError, CallRefused
  <1>14. ASSUME NEW u \in User, UserStep(u) PROVE UNCHANGED rows \/ UserWrite(u)
      BY <1>14 DEF UserStep, UserRead, TwoLayerCancel
  <1>15. QED
      BY <1>2, <1>3, <1>4, <1>5, <1>6, <1>7, <1>8, <1>9, <1>10, <1>11, <1>12, <1>13,
         <1>14 DEF Next

(* The version fence: whatever faults happen, no step takes a row along an *)
(* edge that VALID_TRANSITIONS does not have, and no two status changes    *)
(* are made at the same version.                                           *)
THEOREM VersionFence == Spec => ValidTransitions
  <1>1. TypeOK /\ [Next]_vars => [\A r \in RowId : RowStepOK(r)]_rows
      BY TransitionStep
  <1>2. [\A r \in RowId : RowStepOK(r)]_rows =>
        [\A r \in RowId :
          /\ rows'[r].status # rows[r].status =>
                \/ rows[r].status = "none" /\ rows'[r].status = "scheduled"
                \/ rows'[r].status \in Succ[rows[r].status]
          /\ rows[r].status # "none" =>
                /\ rows'[r].version \in {rows[r].version, rows[r].version + 1}
                /\ rows'[r].status # rows[r].status =>
                      rows'[r].version = rows[r].version + 1]_rows
      BY DEF RowStepOK
  <1>3. QED
      BY <1>1, <1>2, TypeCorrect, PTL DEF Spec, ValidTransitions

-----------------------------------------------------------------------------
(* No call after a cancellation: an operation that cancels a row has seen  *)
(* it scheduled or ringing, and at that version it still is.               *)

(* What an operation under way has read of its row. *)
HasRead(u) ==
    user[u].pc \in {"cancel", "write"} =>
       /\ user[u].op \in Ops
       /\ user[u].snap.status \in Eligible(user[u].op)
       /\ rows[user[u].row].status # "none"
       /\ user[u].snap.version <= rows[user[u].row].version
       /\ user[u].snap.version = rows[user[u].row].version
             => user[u].snap.status = rows[user[u].row].status

(* Nobody is about to call a cancelled row. *)
CancelledIsFree ==
    \A r \in RowId : rows[r].status = "cancelled" =>
       /\ \A t \in TaskId : ~PendingTask(t, r)
       /\ \A d \in Dispatcher : ~Publishing(d, r)

CancelInv == /\ IInv
             /\ \A u \in User : HasRead(u)
             /\ CancelledIsFree

NoReplacement == "replace" \notin Ops

LEMMA EligibleIs ==
    /\ \A op \in UserOp : Eligible(op) \subseteq Status
    /\ Eligible("cancel_today") = {"scheduled", "ringing"}
  BY StatusSet DEF Eligible, UserOp, Terminal

(* Only users and tasks touch the operations and the calls. *)
LEMMA DispatcherLeaves ==
    ASSUME NEW d \in Dispatcher, DispatcherStep(d) \/ DispatcherCrash(d)
    PROVE  /\ UNCHANGED <<calls, user>>
           /\ UNCHANGED rows \/ Claim(d) \/ Revert(d) \/ StoreTaskId(d)
  <1>1. SelectDue(d) => UNCHANGED <<rows, calls, user>>
      BY DEF SelectDue
  <1>2. \A r \in RowId : ReadFresh(d, r) => UNCHANGED <<rows, calls, user>>
      BY DEF ReadFresh
  <1>3. \A t \in TaskId : Publish(d, t) => UNCHANGED <<rows, calls, user>>
      BY DEF Publish
  <1>4. PublishFails(d) \/ DispatcherDbError(d) => UNCHANGED <<rows, calls, user>>
      BY DEF PublishFails, DispatcherDbError
  <1>5. DispatcherReturns(d) \/ DispatcherCrash(d) => UNCHANGED <<rows, calls, user>>
      BY DEF DispatcherReturns, DispatcherCrash
  <1>6. Claim(d) \/ Revert(d) \/ StoreTaskId(d) => UNCHANGED <<calls, user>>
      BY DEF Claim, Revert, StoreTaskId
  <1>7. QED
      BY <1>1, <1>2, <1>3, <1>4, <1>5, <1>6 DEF DispatcherStep

(* Only a user operation cancels. *)
LEMMA NewlyCancelled ==
    ASSUME IInv, [Next]_vars, NEW r \in RowId,
           rows'[r].status = "cancelled", rows[r].status # "cancelled"
    PROVE  \E u \in User : /\ user[u].pc = "write" /\ user[u].row = r
                           /\ user[u].op \in {"cancel_today", "replace"}
                           /\ user[u].snap.version = rows[r].version
                           /\ UNCHANGED <<disp, task>>
  <1>1. RowsOK /\ DispOK /\ TaskOK /\ UserOK
      BY DEF IInv, TypeOK
  <1>2. rows[r] \in Row /\ rows'[r] # rows[r]
      BY <1>1 DEF RowsOK
  <1>3. ASSUME NEW x \in RowId, NEW to \in Status \ {"cancelled"},
               rows' = [rows EXCEPT ![x] = Moved(x, to)]
        PROVE  FALSE
    <2>1. Moved(x, to).status = to
        BY <1>1, MovedRow
    <2>2. QED
        BY <1>1, <1>2, <1>3, <2>1 DEF RowsOK
  <1>4. ASSUME NEW x \in RowId, NEW to \in Status \ {"cancelled"}, NEW v, TryMove(x, v, to)
        PROVE  FALSE
      BY <1>2, <1>3, <1>4 DEF TryMove
  <1>5. {"dispatching", "scheduled", "missed", "skipped", "ringing"} \subseteq Status \ {"cancelled"}
      BY StatusSet
  <1>6. ASSUME NEW x \in RowId, Insert(x) \/ BecomeDue(x) \/ Age(x) PROVE FALSE
    <2>1. CASE Insert(x)
        BY <1>1, <1>2, <2>1, FreshRowIs DEF Insert, RowsOK
    <2>2. CASE BecomeDue(x)
        BY <1>1, <1>2, <2>2 DEF BecomeDue, RowsOK, Row
    <2>3. CASE Age(x)
        BY <1>1, <1>2, <2>3 DEF Age, RowsOK, Row
    <2>4. QED
        BY <1>6, <2>1, <2>2, <2>3
  <1>7. CASE Sweep
    <2>1. Moved(r, "scheduled").status = "scheduled"
        BY <1>1, <1>5, MovedRow
    <2>2. QED
        BY <1>2, <1>7, <2>1 DEF Sweep
  <1>8. ASSUME NEW d \in Dispatcher, DispatcherStep(d) \/ DispatcherCrash(d) PROVE FALSE
    <2>1. CASE Claim(d)
      <3>1. disp[d].row \in RowId
          BY <1>1, <2>1 DEF Claim, DispOK
      <3>2. QED
          BY <1>2, <1>3, <1>5, <2>1, <3>1 DEF Claim
    <2>2. CASE Revert(d)
      <3>1. disp[d].row \in RowId
          BY <1>1, <2>2 DEF Revert, DispOK
      <3>2. QED
          BY <1>2, <1>3, <1>5, <2>2, <3>1 DEF Revert
    <2>3. CASE StoreTaskId(d)
      <3>1. disp[d].row \in RowId
          BY <1>1, <2>3 DEF StoreTaskId, DispOK
      <3>2. QED
          BY <1>1, <1>2, <2>3, <3>1 DEF StoreTaskId, RowsOK, Row
    <2>4. QED
        BY <1>2, <1>8, <2>1, <2>2, <2>3, DispatcherLeaves
  <1>9. ASSUME NEW t \in TaskId, TaskStep(t) \/ TaskDies(t) PROVE FALSE
    <2>1. CASE MarkRinging(t)
      <3>1. PICK x \in RowId : x = task[t].row
          BY <1>1, <2>1 DEF MarkRinging, TaskOK
      <3>2. rows' = [rows EXCEPT ![x] = [Moved(x, "ringing") EXCEPT !.sid = task[t].sid]]
          BY <1>2, <2>1, <3>1 DEF MarkRinging
      <3>3. Moved(x, "ringing") \in Row /\ Moved(x, "ringing").status = "ringing"
          BY <1>1, <1>5, MovedRow
      <3>4. QED
          BY <1>1, <1>2, <3>2, <3>3 DEF RowsOK, Row
    <2>2. CASE SettleError(t)
      <3>1. task[t].row \in RowId
          BY <1>1, <2>2 DEF SettleError, TaskOK
      <3>2. QED
          BY <1>4, <1>5, <2>2, <3>1 DEF SettleError
    <2>3. QED
        BY <1>2, <1>9, <2>1, <2>2 DEF TaskStep, TaskDies, TaskBegin, TwilioError,
           CallRefused, CallPlaced
  <1>10. ASSUME NEW u \in User, UserStep(u) PROVE UserWrite(u)
      BY <1>2, <1>10 DEF UserStep, UserRead, TwoLayerCancel
  <1>11. ASSUME NEW u \in User, UserWrite(u)
         PROVE  /\ user[u].pc = "write" /\ user[u].row = r
                /\ user[u].op \in {"cancel_today", "replace"}
                /\ user[u].snap.version = rows[r].version
                /\ UNCHANGED <<disp, task>>
    <2>1. PICK x \in RowId : x = user[u].row
        BY <1>1, <1>11 DEF UserWrite, UserOK
    <2>2. user[u].pc = "write" /\ user[u].op \in UserOp
        BY <1>1, <1>11 DEF UserWrite, UserOK, UserRec
    <2>3. user[u].op # "reschedule"
      <3>1. SUFFICES ASSUME user[u].op = "reschedule" PROVE FALSE
          OBVIOUS
      <3>2. rows' = [rows EXCEPT ![x] = Rescheduled(x)] /\ rows[x].status = "scheduled"
          BY <1>2, <1>11, <2>1, <3>1 DEF UserWrite
      <3>3. QED
          BY <1>1, <1>2, <3>2 DEF RowsOK, Row, Rescheduled
    <2>4. user[u].op # "skip"
        BY <1>4, <1>5, <1>11, <2>1 DEF UserWrite
    <2>5. TryMove(x, user[u].snap.version, "cancelled")
        BY <1>11, <2>1, <2>2, <2>3, <2>4 DEF UserWrite, UserOp
    <2>6. /\ CanMove(x, user[u].snap.version, "cancelled")
          /\ rows' = [rows EXCEPT ![x] = Moved(x, "cancelled")]
        BY <1>2, <2>5 DEF TryMove
    <2>7. x = r
        BY <1>1, <1>2, <2>6 DEF RowsOK
    <2>8. QED
        BY <1>11, <2>1, <2>2, <2>3, <2>4, <2>6, <2>7 DEF UserWrite, UserOp, CanMove
  <1>12. QED
      BY <1>2, <1>6, <1>7, <1>8, <1>9, <1>10, <1>11 DEF Next, vars

(* The right to call comes from a dispatcher, and that from a claim. *)
LEMMA NewHolder ==
    ASSUME IInv, HarmlessOnly, [Next]_vars, NEW r \in RowId
    PROVE  /\ \A t \in TaskId : PendingTask(t, r)' =>
                 PendingTask(t, r) \/ \E d \in Dispatcher : Publishing(d, r)
           /\ \A d \in Dispatcher : Publishing(d, r)' =>
                 Publishing(d, r) \/ rows'[r].status = "dispatching"
  <1> DEFINE NoNewTask == \A t \in TaskId : PendingTask(t, r)' => PendingTask(t, r)
             NoNewDisp == \A d \in Dispatcher : Publishing(d, r)' => Publishing(d, r)
  <1>1. RowsOK /\ DispOK /\ TaskOK
      BY DEF IInv, TypeOK
  <1>2. Settling => NoNewTask /\ NoNewDisp
      BY DEF Settling, TaskKept, DispKept, PendingTask, Publishing
  <1>3. (UNCHANGED task => NoNewTask) /\ (UNCHANGED disp => NoNewDisp)
      BY DEF PendingTask, Publishing
  <1>4. ASSUME NEW d \in Dispatcher, NEW t \in TaskId, Publish(d, t)
        PROVE  NoNewDisp /\ \A o \in TaskId : PendingTask(o, r)' => PendingTask(o, r) \/ Publishing(d, r)
    <2>1. /\ disp[d].pc = "publish"
          /\ task' = [task EXCEPT ![t] = [UnusedTask EXCEPT !.pc = "queued", !.row = disp[d].row]]
          /\ disp' = [disp EXCEPT ![d].pc = "store", ![d].task = t]
        BY <1>4 DEF Publish, Enqueue
    <2>2. \A o \in TaskId : PendingTask(o, r)' => PendingTask(o, r) \/ Publishing(d, r)
        BY <1>1, <2>1 DEF TaskOK, PendingTask, Publishing, UnusedTask
    <2>3. NoNewDisp
        BY <1>1, <2>1 DEF DispOK, DispRec, Publishing
    <2>4. QED
        BY <2>2, <2>3
  <1>5. ASSUME NEW d \in Dispatcher, Claim(d)
        PROVE  /\ NoNewTask
               /\ \A e \in Dispatcher : Publishing(e, r)' =>
                     Publishing(e, r) \/ rows'[r].status = "dispatching"
    <2>1. PICK x \in RowId : x = disp[d].row
        BY <1>1, <1>5 DEF Claim, DispOK
    <2>2. CASE Claimable(d)
      <3>1. rows' = [rows EXCEPT ![x] = Moved(x, "dispatching")]
          BY <1>5, <2>1, <2>2 DEF Claim
      <3>2. rows'[x].status = "dispatching"
          BY <1>1, <3>1, MovedRow, StatusSet DEF RowsOK
      <3>3. disp' = [disp EXCEPT ![d].pc = "publish"] /\ UNCHANGED task
          BY <1>5, <2>2 DEF Claim
      <3>4. \A e \in Dispatcher : Publishing(e, r)' => Publishing(e, r) \/ r = x
          BY <1>1, <2>1, <3>3 DEF DispOK, DispRec, Publishing
      <3>5. QED
          BY <1>3, <3>2, <3>3, <3>4
    <2>3. CASE ~Claimable(d)
      <3>1. NextRow(d) /\ UNCHANGED task
          BY <1>5, <2>3 DEF Claim
      <3>2. NoNewDisp
          BY <1>1, <3>1, NextRowKept DEF DispKept, Publishing
      <3>3. QED
          BY <1>3, <3>1, <3>2
    <2>4. QED
        BY <2>2, <2>3
  <1>6. ASSUME NEW d \in Dispatcher, PublishFails(d) \/ \E x \in RowId : ReadFresh(d, x)
        PROVE  NoNewTask /\ NoNewDisp
    <2>1. UNCHANGED task
      <3>1. ~Fault("publish_ambiguous")
          BY DEF Fault, HarmlessOnly, HarmlessFault
      <3>2. PublishFails(d) => UNCHANGED task
          BY <3>1 DEF PublishFails
      <3>3. \A x \in RowId : ReadFresh(d, x) => UNCHANGED task
          BY DEF ReadFresh
      <3>4. QED
          BY <1>6, <3>2, <3>3
    <2>2. CASE PublishFails(d)
        BY <1>1, <1>3, <2>1, <2>2 DEF PublishFails, DispOK, DispRec, Publishing
    <2>3. CASE \E x \in RowId : ReadFresh(d, x)
        BY <1>1, <1>3, <2>1, <2>3 DEF ReadFresh, DispOK, DispRec, Publishing
    <2>4. QED
        BY <1>6, <2>2, <2>3
  <1>7. ASSUME NEW d \in Dispatcher, DispatcherStep(d) \/ DispatcherCrash(d)
        PROVE  \/ Settling \/ Claim(d) \/ PublishFails(d)
               \/ (\E x \in RowId : ReadFresh(d, x)) \/ \E t \in TaskId : Publish(d, t)
      BY <1>7, DispatcherSettles DEF DispatcherStep
  <1>8. ASSUME NEW t \in TaskId, TaskStep(t) \/ TaskDies(t)
        PROVE  NoNewTask /\ NoNewDisp
    <2>1. UNCHANGED disp
        BY <1>8 DEF TaskStep, TaskDies, TaskBegin, TwilioError, CallRefused, MarkRinging,
           SettleError, CallPlaced
    <2>2. CASE MarkRinging(t)
      <3>1. task' = [task EXCEPT ![t] = [UnusedTask EXCEPT !.pc = "done", !.row = task[t].row]]
          BY <2>2 DEF MarkRinging, Finished, Forget
      <3>2. task'[t].pc = "done" /\ \A o \in TaskId \ {t} : task'[o] = task[o]
          BY <1>1, <3>1 DEF TaskOK, UnusedTask
      <3>3. QED
          BY <1>3, <2>1, <3>2 DEF PendingTask
    <2>3. CASE TaskBegin(t) /\ rows[task[t].row].status = "dispatching"
        BY <1>1, <1>3, <2>1, <2>3 DEF TaskBegin, TaskOK, TaskRec, PendingTask
    <2>4. CASE TwilioError(t) \/ CallRefused(t) \/ \E s \in Sid : CallPlaced(t, s)
        BY <1>1, <1>3, <2>1, <2>4 DEF TwilioError, CallRefused, CallPlaced, TaskOK, TaskRec,
           PendingTask
    <2>5. QED
        BY <1>2, <1>8, <2>2, <2>3, <2>4, TaskSettles DEF TaskStep
  <1>9. QED
      BY <1>2, <1>3, <1>4, <1>5, <1>6, <1>7, <1>8, RowSettles, SweepSettles, UserSettles
         DEF Next, vars

LEMMA HasReadStep ==
    ASSUME CancelInv, [Next]_vars, NEW u \in User
    PROVE  HasRead(u)'
  <1>1. TypeOK /\ TypeOK' /\ \A x \in RowId : RowStepOK(x)
      BY TypeStep, TransitionStep DEF CancelInv, IInv
  <1>2. \A x \in RowId : rows[x] \in Row /\ rows'[x] \in Row
      BY <1>1 DEF TypeOK, RowsOK
  <1>3. ASSUME user[u].pc \in {"cancel", "write"}, user'[u].pc \in {"cancel", "write"},
               user'[u].op = user[u].op, user'[u].row = user[u].row, user'[u].snap = user[u].snap
        PROVE  HasRead(u)'
    <2>1. PICK x \in RowId : x = user[u].row
        BY <1>1, <1>3 DEF TypeOK, UserOK
    <2>2. PICK snap \in Row : snap = user[u].snap
        BY <1>1 DEF TypeOK, UserOK, UserRec
    <2>3. /\ rows[x].status # "none"
          /\ snap.version <= rows[x].version
          /\ snap.version = rows[x].version => snap.status = rows[x].status
          /\ user[u].op \in Ops /\ snap.status \in Eligible(user[u].op)
        BY <1>3, <2>1, <2>2 DEF CancelInv, HasRead
    <2>4. rows[x].status \in Status /\ snap.version \in Nat /\ rows[x].version \in Nat
        BY <1>2, <2>1, <2>2, <2>3 DEF Row
    <2>5. rows'[x].status # "none"
        BY <1>1, <2>3, <2>4, SuccTable, StatusSet DEF RowStepOK
    <2>6. /\ rows'[x].version \in {rows[x].version, rows[x].version + 1}
          /\ rows'[x].status # rows[x].status => rows'[x].version = rows[x].version + 1
        BY <1>1, <2>3 DEF RowStepOK
    <2>7. /\ snap.version <= rows'[x].version
          /\ snap.version = rows'[x].version => snap.status = rows'[x].status
        BY <2>3, <2>4, <2>6
    <2>8. QED
        BY <1>3, <2>1, <2>2, <2>3, <2>5, <2>7 DEF HasRead
  <1>4. CASE user'[u] = user[u]
      BY <1>3, <1>4 DEF HasRead
  <1>5. ASSUME NEW v \in User, UserStep(v) PROVE HasRead(u)'
    <2>1. CASE u # v
      <3>1. user'[u] = user[u]
          BY <1>1, <1>5, <2>1 DEF UserStep, UserRead, TwoLayerCancel, UserWrite, TypeOK, UserOK
      <3>2. QED
          BY <1>4, <3>1
    <2>2. CASE u = v
      <3>1. CASE TwoLayerCancel(u)
        <4>1. /\ user[u].pc = "cancel" /\ user'[u].pc = "write" /\ user'[u].op = user[u].op
              /\ user'[u].row = user[u].row /\ user'[u].snap = user[u].snap
            BY <1>1, <3>1 DEF TwoLayerCancel, TypeOK, UserOK, UserRec
        <4>2. QED
            BY <1>3, <4>1
      <3>2. CASE UserWrite(u)
        <4>1. user'[u].pc = "done"
            BY <1>1, <3>2 DEF UserWrite, TypeOK, UserOK, IdleUser
        <4>2. QED
            BY <4>1 DEF HasRead
      <3>3. ASSUME NEW op \in UserOp, NEW x \in RowId, UserRead(u, op, x) PROVE HasRead(u)'
        <4>1. /\ op \in Ops /\ rows[x].status \in Eligible(op) /\ UNCHANGED rows
              /\ user'[u] = [pc |-> "cancel", op |-> op, row |-> x, snap |-> rows[x]]
            BY <1>1, <3>3 DEF UserRead, TypeOK, UserOK
        <4>2. rows[x].status # "none" /\ rows[x].version \in Nat
            BY <1>2, <4>1, EligibleIs, StatusSet DEF Row
        <4>3. QED
            BY <4>1, <4>2 DEF HasRead
      <3>4. QED
          BY <1>5, <2>2, <3>1, <3>2, <3>3 DEF UserStep
    <2>3. QED
        BY <2>1, <2>2
  <1>6. \A x \in RowId : Insert(x) \/ BecomeDue(x) \/ Age(x) => UNCHANGED user
      BY DEF Insert, BecomeDue, Age
  <1>7. \A d \in Dispatcher : DispatcherStep(d) \/ DispatcherCrash(d) => UNCHANGED user
      BY DispatcherLeaves
  <1>8. \A t \in TaskId : TaskStep(t) \/ TaskDies(t) => UNCHANGED user
      BY DEF TaskStep, TaskDies, TaskBegin, TwilioError, CallRefused, MarkRinging, SettleError,
         CallPlaced
  <1>9. Sweep => UNCHANGED user
      BY DEF Sweep
  <1>10. QED
      BY <1>4, <1>5, <1>6, <1>7, <1>8, <1>9 DEF Next, vars

LEMMA CancelStep == HarmlessOnly /\ NoReplacement /\ CancelInv /\ [Next]_vars => CancelInv'
  <1> SUFFICES ASSUME HarmlessOnly, NoReplacement, CancelInv, [Next]_vars PROVE CancelInv'
      OBVIOUS
  <1>1. IInv /\ IInv'
      BY InductiveStep DEF CancelInv
  <1>2. \A u \in User : HasRead(u)'
      BY HasReadStep
  <1>3. ASSUME NEW r \in RowId, rows'[r].status = "cancelled"
        PROVE  /\ \A t \in TaskId : ~PendingTask(t, r)'
               /\ \A d \in Dispatcher : ~Publishing(d, r)'
    <2>1. CASE rows[r].status = "cancelled"
      <3>1. /\ \A t \in TaskId : ~PendingTask(t, r)
            /\ \A d \in Dispatcher : ~Publishing(d, r)
          BY <2>1 DEF CancelInv, CancelledIsFree
      <3>2. QED
          BY <1>1, <1>3, <3>1, NewHolder
    <2>2. CASE rows[r].status # "cancelled"
      <3>1. PICK u \in User : /\ user[u].pc = "write" /\ user[u].row = r
                              /\ user[u].op \in {"cancel_today", "replace"}
                              /\ user[u].snap.version = rows[r].version
                              /\ UNCHANGED <<disp, task>>
          BY <1>1, <1>3, <2>2, NewlyCancelled
      <3>2. rows[r].status \in Eligible(user[u].op) /\ user[u].op = "cancel_today"
          BY <3>1 DEF CancelInv, HasRead, NoReplacement
      <3>3. rows[r].status \in {"scheduled", "ringing"}
          BY <3>2, EligibleIs
      <3>4. /\ \A t \in TaskId : ~PendingTask(t, r)
            /\ \A d \in Dispatcher : ~Publishing(d, r)
          BY <1>1, <3>3 DEF IInv, HeldRowStatus
      <3>5. QED
          BY <3>1, <3>4 DEF PendingTask, Publishing
    <2>3. QED
        BY <2>1, <2>2
  <1>4. CancelledIsFree'
      BY <1>3 DEF CancelledIsFree
  <1>5. QED
      BY <1>1, <1>2, <1>4 DEF CancelInv

(* A call is placed for a row only while that is being dispatched. *)
LEMMA CallsForDispatching ==
    ASSUME HarmlessOnly, CancelInv, [Next]_vars, NEW s \in Sid,
           calls'[s].row # calls[s].row
    PROVE  rows[calls'[s].row].status = "dispatching"
  <1>1. RowsOK /\ CallsOK /\ TaskOK /\ UserOK
      BY DEF CancelInv, IInv, TypeOK
  <1>2. ASSUME NEW t \in TaskId, NEW q \in Sid, CallPlaced(t, q)
        PROVE  rows[calls'[s].row].status = "dispatching"
    <2>1. PICK r \in RowId : r = task[t].row /\ PendingTask(t, r)
        BY <1>1, <1>2 DEF CallPlaced, TaskOK, PendingTask
    <2>2. rows[r].status = "dispatching"
        BY <2>1 DEF CancelInv, CancelledIsFree, IInv, HeldRowStatus
    <2>3. calls'[s].row = r
        BY <1>1, <1>2, <2>1 DEF CallPlaced, PlaceCall, CallsOK
    <2>4. QED
        BY <2>2, <2>3
  <1>3. ASSUME NEW u \in User, TwoLayerCancel(u) PROVE FALSE
    <2>1. user[u].snap.sid \in Sid \cup {NoSid}
        BY <1>1 DEF UserOK, UserRec, Row
    <2>2. QED
        BY <1>1, <1>3, <2>1 DEF TwoLayerCancel, HangUp, CallsOK, Call
  <1>4. \A x \in RowId : Insert(x) \/ BecomeDue(x) \/ Age(x) => UNCHANGED calls
      BY DEF Insert, BecomeDue, Age
  <1>5. \A d \in Dispatcher : DispatcherStep(d) \/ DispatcherCrash(d) => UNCHANGED calls
      BY DispatcherLeaves
  <1>6. ASSUME NEW t \in TaskId, TaskStep(t) \/ TaskDies(t), calls' # calls
        PROVE  \E q \in Sid : CallPlaced(t, q)
      BY <1>6 DEF TaskStep, TaskDies, TaskBegin, TwilioError, CallRefused, MarkRinging,
         SettleError, Fault, HarmlessOnly, HarmlessFault
  <1>7. \A u \in User : UserStep(u) => UNCHANGED calls \/ TwoLayerCancel(u)
      BY DEF UserStep, UserRead, UserWrite
  <1>8. Sweep => UNCHANGED calls
      BY DEF Sweep
  <1>9. QED
      BY <1>2, <1>3, <1>4, <1>5, <1>6, <1>7, <1>8 DEF Next, vars

(* An entry that has been cancelled or skipped is not called any more, in  *)
(* every interleaving of dispatchers, tasks and operations of the user, as *)
(* long as the faults are harmless and no callback request replaces a row  *)
(* that is being dispatched.                                               *)
THEOREM NoneAfterCancel ==
    HarmlessOnly /\ NoReplacement => (Spec => NoCallAfterCancel)
  <1> SUFFICES ASSUME HarmlessOnly, NoReplacement PROVE Spec => NoCallAfterCancel
      OBVIOUS
  <1>1. Init => CancelInv
    <2>1. Init => /\ \A r \in RowId : rows[r].status = "none"
                  /\ \A u \in User : user[u].pc = "idle"
        BY DEF Init, NoneRow, IdleUser
    <2>2. QED
        BY <2>1, InitIInv DEF CancelInv, HasRead, CancelledIsFree
  <1>2. CancelInv /\ [Next]_vars => CancelInv'
      BY CancelStep
  <1>3. CancelInv /\ [Next]_vars =>
           [\A s \in Sid : calls'[s].row # calls[s].row
               => rows[calls'[s].row].status \notin {"cancelled", "skipped"}]_vars
      BY CallsForDispatching
  <1>4. QED
      BY <1>1, <1>2, <1>3, PTL DEF Spec, NoCallAfterCancel

-----------------------------------------------------------------------------
(* Dispatching and live calls over one table.                              *)
(*                                                                         *)
(* CallSession_proofs is about the same actions of live calls with a       *)
(* stand-in for dispatching.  Its invariant and the one above hold of the  *)
(* composition together: session steps keep the first by what is proved    *)
(* there, dispatch steps the second by what is proved above, and what      *)
(* follows is that each side leaves the other's invariant alone.           *)

Proved == INSTANCE CallSession_proofs WITH Faults <- SessionFaults

(* A row whose call has been recorded, and one that has been talked on. *)
Past(r)   == rows[r].status \in {"ringing", "in_progress"} \cup Terminal
Talked(r) == rows[r].status \in {"in_progress", "completed", "missed", "deferred"}

(* What either side knows about the rows of the other: the SID is stored   *)
(* when dispatching is over, callbacks are served for such rows only, and  *)
(* a stream that has joined its call has found the row in progress.  A SID *)
(* that is not in use is nobody's call.                                    *)
Linked ==
    /\ \A s \in Sid : calls[s].phase = "none" => calls[s].row = NoRow
    /\ \A r \in RowId : rows[r].sid # NoSid => Past(r)
    /\ \A h \in Handler : handler[h].pc # "idle" => Past(handler[h].row)
    /\ \A s \in Sid : stream[s].pc \in {"talking", "cleanup", "cas", "missed"}
                         => Talked(calls[s].row)

(* Attempts of a chain are numbered. *)
Numbered ==
    /\ \A r \in Root : rows[r].status # "none" /\ rows[r].attempt \in 1..(MAX_RETRIES + 1)
    /\ \A q, r \in RowId : rows[q].parent = r => rows[q].attempt = rows[r].attempt + 1

LifecycleInv == /\ IInv
                /\ Proved!IInv
                /\ Linked
                /\ Numbered

(* The session's copies of the table's definitions are the table's. *)
LEMMA SameTable ==
    /\ RowsOK <=> Proved!RowsOK
    /\ RowsOK' <=> Proved!RowsOK'
    /\ CallsOK <=> Proved!CallsOK
    /\ CallsOK' <=> Proved!CallsOK'
    /\ Proved!CallLogAssumption
    /\ Proved!SessionAssumption
    /\ \A r \in RowId : RowStepOK(r) <=> Proved!RowStepOK(r)
  <1>1. RowsOK <=> Proved!RowsOK
      BY DEF RowsOK, Row, Status, Succ, Proved!RowsOK, Proved!Row, Proved!Status, Proved!Succ
  <1>2. RowsOK' <=> Proved!RowsOK'
      BY DEF RowsOK, Row, Status, Succ, Proved!RowsOK, Proved!Row, Proved!Status, Proved!Succ
  <1>3. CallsOK <=> Proved!CallsOK
      BY DEF CallsOK, Call, Phase, Proved!CallsOK, Proved!Call, Proved!Phase
  <1>4. CallsOK' <=> Proved!CallsOK'
      BY DEF CallsOK, Call, Phase, Proved!CallsOK, Proved!Call, Proved!Phase
  <1>5. Proved!CallLogAssumption
      BY CallLogAssumption DEF CallLogAssumption, Proved!CallLogAssumption
  <1>6. Proved!SessionAssumption
      BY LifecycleAssumption DEF S!SessionAssumption, S!SessionFault, S!MAX_RETRIES,
         Proved!SessionAssumption, Proved!SessionFault, Proved!MAX_RETRIES
  <1>7. \A r \in RowId : RowStepOK(r) <=> Proved!RowStepOK(r)
      BY DEF RowStepOK, Succ, Proved!RowStepOK, Proved!Succ
  <1>8. QED
      BY <1>1, <1>2, <1>3, <1>4, <1>5, <1>6, <1>7

LEMMA SameSession ==
    /\ S!Init <=> Proved!Init
    /\ S!SessionNext <=> Proved!SessionNext
  BY DEF S!Init, Proved!Init, S!FreshRow, Proved!FreshRow, S!NoneRow, Proved!NoneRow,
     S!NoCall, Proved!NoCall, S!Idle, Proved!Idle, S!NoStream, Proved!NoStream,
     S!SessionNext, Proved!SessionNext, S!Twilio, Proved!Twilio, S!TwilioRings,
     Proved!TwilioRings, S!Enter, Proved!Enter, S!Report, Proved!Report,
     S!TwilioAnswers, Proved!TwilioAnswers, S!TwilioHearsMachine,
     Proved!TwilioHearsMachine, S!TwilioEnds, Proved!TwilioEnds, S!Endings,
     Proved!Endings, S!StreamStep, Proved!StreamStep, S!StreamRead, Proved!StreamRead,
     S!At, Proved!At, S!Snapshot, Proved!Snapshot, S!Closes, Proved!Closes,
     S!StreamJoin, Proved!StreamJoin, S!TryMove, Proved!TryMove, S!CanMove,
     Proved!CanMove, S!Succ, Proved!Succ, S!Moved, Proved!Moved, S!StreamEnds,
     Proved!StreamEnds, S!How, Proved!How, S!CleanupRead, Proved!CleanupRead,
     S!CleanupWrite, Proved!CleanupWrite, S!StreamFollowsUp, Proved!StreamFollowsUp,
     S!FollowUp, Proved!FollowUp, S!Exhausted, Proved!Exhausted, S!Encourages,
     Proved!Encourages, S!Retries, Proved!Retries, S!RetryRow, Proved!RetryRow,
     S!Fault, Proved!Fault, S!StreamDies, Proved!StreamDies, S!HandlerStep,
     Proved!HandlerStep, S!CallbackRead, Proved!CallbackRead, S!InOrder,
     Proved!InOrder, S!Owner, Proved!Owner, S!Consume, Proved!Consume, S!StaleSeq,
     Proved!StaleSeq, S!Enters, Proved!Enters, S!AmdRead, Proved!AmdRead,
     S!CallbackStoresSeq, Proved!CallbackStoresSeq, S!StoreSeq, Proved!StoreSeq,
     S!Leaves, Proved!Leaves, S!CallbackInvalid, Proved!CallbackInvalid,
     S!InternalStatus, Proved!InternalStatus, S!CallbackApply, Proved!CallbackApply,
     S!AmdHangsUp, Proved!AmdHangsUp, S!HangUp, Proved!HangUp, S!AmdReread,
     Proved!AmdReread, S!Terminal, Proved!Terminal, S!AmdApply, Proved!AmdApply,
     S!HandlerFollowsUp, Proved!HandlerFollowsUp, S!HandlerDies, Proved!HandlerDies,
     S!CallbackUnknown, Proved!CallbackUnknown, S!CallbackLost, Proved!CallbackLost,
     S!MAX_RETRIES, Proved!MAX_RETRIES

LEMMA InitLifecycle == LifecycleInit => LifecycleInv
  <1> SUFFICES ASSUME LifecycleInit PROVE LifecycleInv
      OBVIOUS
  <1>1. Proved!Init
      BY SameSession DEF LifecycleInit
  <1>2. Proved!IInv
      BY <1>1, SameTable, Proved!InitIInv
  <1>3. PICK a \in [Root -> RootAttempts] :
           rows = [r \in RowId |-> IF r \in Root THEN [FreshRow EXCEPT !.attempt = a[r]]
                                   ELSE NoneRow]
    <2>1. Proved!FreshRow = FreshRow /\ Proved!NoneRow = NoneRow
        BY DEF Proved!FreshRow, Proved!NoneRow, FreshRow, NoneRow
    <2>2. QED
        BY <1>1, <2>1, Zenon DEF Proved!Init
  <1>4. /\ calls = [s \in Sid |-> NoCall]
        /\ handler = [h \in Handler |-> Proved!Idle]
        /\ stream = [s \in Sid |-> Proved!NoStream]
        /\ budget = MaxFaults
        /\ disp = [d \in Dispatcher |-> IdleDisp]
        /\ task = [t \in TaskId |-> UnusedTask]
        /\ user = [u \in User |-> IdleUser]
      BY <1>1 DEF LifecycleInit, Proved!Init, Proved!NoCall, NoCall
  <1>5. /\ Root \subseteq RowId /\ RootAttempts \subseteq 1..(MAX_RETRIES + 1)
        /\ RootAttempts \subseteq Nat
      BY LifecycleAssumption DEF S!SessionAssumption, S!MAX_RETRIES, MAX_RETRIES
  <1>6. ASSUME NEW r \in Root PROVE rows[r] = [FreshRow EXCEPT !.attempt = a[r]]
      BY <1>3, <1>5
  <1>7. ASSUME NEW r \in RowId \ Root PROVE rows[r] = NoneRow
      BY <1>3
  <1>8. ASSUME NEW r \in Root
        PROVE  /\ rows[r].status = "scheduled" /\ rows[r].sid = NoSid
               /\ rows[r].parent = NoRow /\ rows[r].attempt = a[r]
               /\ rows[r].version = 1
    <2>1. FreshRow \in Row /\ a[r] \in Nat
        BY <1>5, FreshRowIsRow
    <2>2. FreshRow.version = 1
        BY DEF FreshRow, NoneRow
    <2>3. QED
        BY <1>6, <2>1, <2>2, FreshRowIs DEF Row
  <1>9. \A r \in RowId : /\ rows[r].status \in {"none", "scheduled"}
                         /\ rows[r].sid = NoSid /\ rows[r].parent = NoRow
      BY <1>7, <1>8, FreshRowIs
  <1>10. Linked
      BY <1>4, <1>9 DEF Linked, NoCall, Proved!Idle, Proved!NoStream
  <1>11. Numbered
    <2>1. \A r \in Root : rows[r].status # "none" /\ rows[r].attempt \in 1..(MAX_RETRIES + 1)
        BY <1>5, <1>8
    <2>2. \A q, r \in RowId : rows[q].parent # r
        BY <1>9, CallLogAssumption DEF CallLogAssumption
    <2>3. QED
        BY <2>1, <2>2 DEF Numbered
  <1>12. TypeOK
    <2>1. RowsOK /\ CallsOK /\ budget \in Nat
        BY <1>2, <1>4, SameTable, DispatchAssumption DEF Proved!IInv, Proved!TypeOK, DispatchAssumption
    <2>2. DispOK /\ TaskOK
        BY <1>4 DEF DispOK, TaskOK, DispRec, TaskRec, IdleDisp, UnusedTask
    <2>3. UserOK
        BY <1>4, FreshRowIsRow DEF UserOK, UserRec, IdleUser
    <2>4. QED
        BY <2>1, <2>2, <2>3 DEF TypeOK
  <1>13. /\ \A r \in RowId : Free(r)
         /\ \A d \in Dispatcher : disp[d].pc = "idle"
         /\ \A t \in TaskId : task[t].pc = "unused"
         /\ \A s \in Sid : calls[s].phase = "none"
      BY <1>4 DEF NoCall, IdleDisp, UnusedTask, Free, PendingTask, Publishing, CallFor
  <1>14. IInv
    <2>1. KnownRows /\ HolderIsCurrent /\ VersionFixesStatus /\ PlacedHasCall /\ SidIsKnown
        BY <1>13 DEF KnownRows, HolderIsCurrent, VersionFixesStatus, PlacedHasCall, SidIsKnown
    <2>2. OneHolder
        BY <1>13 DEF OneHolder, PendingTask, Publishing, CallFor
    <2>3. ClaimableIsFree /\ HeldRowStatus
        BY <1>13 DEF ClaimableIsFree, HeldRowStatus, Free
    <2>4. QED
        BY <1>12, <2>1, <2>2, <2>3 DEF IInv
  <1>15. QED
      BY <1>2, <1>10, <1>11, <1>14 DEF LifecycleInv

-----------------------------------------------------------------------------
(* What a session step does to the rows.                                   *)

(* A row keeps its place in its chain. *)
Chained(r) == rows'[r].attempt = rows[r].attempt /\ rows'[r].parent = rows[r].parent

(* A retry of a missed row is inserted. *)
Retried(r) ==
    /\ RowInserted(r)
    /\ rows'[r].sid = NoSid
    /\ \E m \in RowId : /\ rows[m].status = "missed"
                        /\ rows'[r].parent = m
                        /\ rows'[r].attempt = rows[m].attempt + 1

SessionRow(r) == \/ (RowKept(r) \/ RowGoesOn(r)) /\ Chained(r)
                 \/ Retried(r)

LEMMA SessionStay == \A r \in RowId : rows'[r] = rows[r] => SessionRow(r)
  BY DEF SessionRow, RowKept, Chained

(* A write of one row that moves it on. *)
LEMMA SessionMove ==
    ASSUME RowsOK, NEW r \in RowId, Past(r), NEW to, to \in Succ[rows[r].status],
           NEW new \in Row, rows' = [rows EXCEPT ![r] = new], new.status = to,
           new.version = rows[r].version + 1, new.sid = rows[r].sid,
           new.attempt = rows[r].attempt, new.parent = rows[r].parent
    PROVE  \A x \in RowId : SessionRow(x)
  <1>1. rows'[r] = new /\ \A x \in RowId \ {r} : rows'[x] = rows[x]
      BY DEF RowsOK
  <1>2. rows[r].status \in {"ringing", "in_progress"}
      BY SuccTable, StatusSet DEF Past, Terminal
  <1>3. to \in {"in_progress"} \cup Terminal
      BY <1>2 DEF Succ, Terminal
  <1>4. SessionRow(r)
      BY <1>1, <1>2, <1>3 DEF SessionRow, RowGoesOn, Chained
  <1>5. QED
      BY <1>1, <1>4, SessionStay

LEMMA SessionTryMove ==
    ASSUME RowsOK, NEW r \in RowId, NEW to \in Status, NEW v,
           Past(r) \/ to = "in_progress", Proved!TryMove(r, v, to)
    PROVE  \A x \in RowId : SessionRow(x)
  <1>1. TryMove(r, v, to)
      BY DEF TryMove, CanMove, Moved, Succ, Proved!TryMove, Proved!CanMove, Proved!Moved, Proved!Succ
  <1>2. CASE CanMove(r, v, to)
    <2>1. rows[r].status \in Status /\ to \in Succ[rows[r].status]
        BY <1>2 DEF CanMove, RowsOK, Row
    <2>2. Past(r)
      <3>1. ASSUME to = "in_progress" PROVE rows[r].status = "ringing"
          BY <2>1, <3>1, StatusSet DEF Succ
      <3>2. QED
          BY <3>1 DEF Past
    <2>3. rows' = [rows EXCEPT ![r] = Moved(r, to)]
        BY <1>1, <1>2 DEF TryMove
    <2>4. QED
        BY <2>1, <2>2, <2>3, MovedRow, SessionMove
  <1>3. CASE ~CanMove(r, v, to)
      BY <1>1, <1>3, SessionStay DEF TryMove
  <1>4. QED
      BY <1>2, <1>3

LEMMA SessionRetry ==
    ASSUME RowsOK, NEW m \in RowId, rows[m].status = "missed", NEW what, Proved!FollowUp(m, what)
    PROVE  \A x \in RowId : SessionRow(x)
  <1>1. CASE UNCHANGED rows
      BY <1>1, SessionStay
  <1>2. CASE \E q \in RowId : /\ rows[q].status = "none"
                              /\ rows' = [rows EXCEPT ![q] = Proved!RetryRow(m)]
    <2>1. PICK q \in RowId : rows[q].status = "none" /\ rows' = [rows EXCEPT ![q] = Proved!RetryRow(m)]
        BY <1>2
    <2>2. Proved!RetryRow(m) = [FreshRow EXCEPT !.attempt = rows[m].attempt + 1, !.parent = m]
        BY DEF Proved!RetryRow, Proved!FreshRow, Proved!NoneRow, FreshRow, NoneRow
    <2>3. FreshRow \in Row /\ rows[m].attempt + 1 \in Nat
        BY FreshRowIsRow DEF RowsOK, Row
    <2>4. /\ Proved!RetryRow(m).status = "scheduled" /\ Proved!RetryRow(m).sid = NoSid
          /\ Proved!RetryRow(m).parent = m
          /\ Proved!RetryRow(m).attempt = rows[m].attempt + 1
        BY <2>2, <2>3, FreshRowIs DEF Row
    <2>5. rows'[q] = Proved!RetryRow(m) /\ \A x \in RowId \ {q} : rows'[x] = rows[x]
        BY <2>1 DEF RowsOK
    <2>6. SessionRow(q)
        BY <2>1, <2>4, <2>5 DEF SessionRow, Retried, RowInserted
    <2>7. QED
        BY <2>5, <2>6, SessionStay
  <1>3. QED
      BY <1>1, <1>2 DEF Proved!FollowUp, Proved!Retries, Proved!Encourages

LEMMA SessionStoresSeq ==
    ASSUME RowsOK, NEW h \in Handler, handler[h].row \in RowId, rows' = Proved!StoreSeq(h)
    PROVE  \A x \in RowId : SessionRow(x)
  <1>1. PICK r \in RowId : r = handler[h].row
      OBVIOUS
  <1>2. PICK n : n = handler[h].ev.seq + 1
      OBVIOUS
  <1>3. rows' = [rows EXCEPT ![r] = [rows[r] EXCEPT !.seq = n]] /\ rows[r] \in Row
      BY <1>1, <1>2 DEF Proved!StoreSeq, RowsOK
  <1>4. rows'[r] = [rows[r] EXCEPT !.seq = n] /\ \A x \in RowId \ {r} : rows'[x] = rows[x]
      BY <1>3 DEF RowsOK
  <1>5. RowKept(r) /\ Chained(r)
      BY <1>3, <1>4 DEF RowKept, Chained, Row
  <1>6. QED
      BY <1>4, <1>5, SessionStay DEF SessionRow

LEMMA SessionCallback ==
    ASSUME LifecycleInv, NEW h \in Handler, Proved!CallbackApply(h)
    PROVE  \A x \in RowId : SessionRow(x)
  <1>1. RowsOK /\ handler[h].pc = "apply"
      BY DEF LifecycleInv, IInv, TypeOK, Proved!CallbackApply
  <1>2. PICK r \in RowId : r = handler[h].row
      BY <1>1 DEF LifecycleInv, Proved!IInv, Proved!TypeOK
  <1>3. PICK to : to = Proved!InternalStatus(handler[h].ev.what)
      OBVIOUS
  <1>4. PICK n : n = handler[h].ev.seq + 1
      OBVIOUS
  <1>5. n \in Nat
      BY <1>1, <1>4 DEF LifecycleInv, Proved!IInv, Proved!Heard, Proved!Serving, Proved!Event
  <1>6. CASE UNCHANGED rows
      BY <1>6, SessionStay
  <1>7. CASE ~UNCHANGED rows
    <2>1. /\ rows[r].status # "none" /\ to \in Succ[rows[r].status]
          /\ rows' = [rows EXCEPT ![r] = [Moved(r, to) EXCEPT !.seq = n]]
        BY <1>2, <1>3, <1>4, <1>7 DEF Proved!CallbackApply, Proved!CanMove, Proved!Moved,
           Proved!Succ, Moved, Succ
    <2>2. Past(r) /\ rows[r].status \in Status
        BY <1>1, <1>2, <2>1 DEF LifecycleInv, Linked, RowsOK, Row
    <2>3. to \in Status
        BY <2>1, <2>2, SuccTable
    <2>4. /\ Moved(r, to) \in Row
          /\ Moved(r, to).status = to
          /\ Moved(r, to).version = rows[r].version + 1
          /\ Moved(r, to).sid = rows[r].sid
          /\ Moved(r, to).attempt = rows[r].attempt
          /\ Moved(r, to).parent = rows[r].parent
        BY <1>1, <2>3, MovedRow
    <2>5. PICK new : new = [Moved(r, to) EXCEPT !.seq = n]
        OBVIOUS
    <2>6. /\ new \in Row /\ new.status = to /\ new.version = rows[r].version + 1
          /\ new.sid = rows[r].sid /\ new.attempt = rows[r].attempt
          /\ new.parent = rows[r].parent
        BY <1>5, <2>4, <2>5 DEF Row
    <2>7. QED
        BY <1>1, <2>1, <2>2, <2>5, <2>6, SessionMove
  <1>8. QED
      BY <1>6, <1>7

LEMMA SessionRows ==
    ASSUME LifecycleInv, Proved!SessionNext
    PROVE  \A x \in RowId : SessionRow(x)
  <1>1. RowsOK /\ CallsOK
      BY DEF LifecycleInv, IInv, TypeOK
  <1>2. ASSUME UNCHANGED rows PROVE \A x \in RowId : SessionRow(x)
      BY <1>2, SessionStay
  <1>3. \A h \in Handler : handler[h].pc # "idle" => handler[h].row \in RowId /\ Past(handler[h].row)
      BY DEF LifecycleInv, Linked, Proved!IInv, Proved!TypeOK
  <1>4. \A s \in Sid : stream[s].pc # "none" => calls[s].row \in RowId
      BY <1>1 DEF LifecycleInv, Proved!IInv, Proved!Streamed, Proved!Streaming, CallsOK
  <1>5. {"in_progress", "completed", "missed"} \subseteq Status
      BY StatusSet
  <1>6. ASSUME NEW h \in Handler, Proved!CallbackStoresSeq(h) \/ Proved!CallbackInvalid(h)
        PROVE  \A x \in RowId : SessionRow(x)
      BY <1>1, <1>3, <1>6, SessionStoresSeq DEF Proved!CallbackStoresSeq, Proved!CallbackInvalid
  <1>7. ASSUME NEW h \in Handler, Proved!AmdApply(h) PROVE \A x \in RowId : SessionRow(x)
      BY <1>1, <1>3, <1>5, <1>7, SessionTryMove DEF Proved!AmdApply
  <1>8. ASSUME NEW h \in Handler, Proved!HandlerFollowsUp(h) PROVE \A x \in RowId : SessionRow(x)
    <2>1. PICK m \in RowId : m = handler[h].row
        BY <1>3, <1>8 DEF Proved!HandlerFollowsUp
    <2>2. rows[m].status = "missed"
        BY <1>8, <2>1 DEF Proved!HandlerFollowsUp, LifecycleInv, Proved!IInv, Proved!Owing,
           Proved!Owed, Proved!HandlerOwes
    <2>3. PICK what : Proved!FollowUp(m, what)
        BY <1>8, <2>1 DEF Proved!HandlerFollowsUp
    <2>4. QED
        BY <1>1, <2>2, <2>3, SessionRetry
  <1>9. ASSUME NEW s \in Sid, Proved!StreamFollowsUp(s) PROVE \A x \in RowId : SessionRow(x)
    <2>1. PICK m \in RowId : m = calls[s].row
        BY <1>4, <1>9 DEF Proved!StreamFollowsUp
    <2>2. rows[m].status = "missed"
        BY <1>9, <2>1 DEF Proved!StreamFollowsUp, LifecycleInv, Proved!IInv, Proved!Owing,
           Proved!Owed, Proved!StreamOwes
    <2>3. Proved!FollowUp(m, "early")
        BY <1>9, <2>1 DEF Proved!StreamFollowsUp
    <2>4. QED
        BY <1>1, <2>2, <2>3, SessionRetry
  <1>10. ASSUME NEW s \in Sid, Proved!StreamJoin(s) PROVE \A x \in RowId : SessionRow(x)
      BY <1>1, <1>4, <1>5, <1>10, SessionTryMove DEF Proved!StreamJoin
  <1>11. ASSUME NEW s \in Sid, Proved!CleanupWrite(s) PROVE \A x \in RowId : SessionRow(x)
    <2>1. PICK r \in RowId : r = calls[s].row
        BY <1>4, <1>11 DEF Proved!CleanupWrite
    <2>2. Past(r)
        BY <1>11, <2>1 DEF Proved!CleanupWrite, LifecycleInv, Linked, Talked, Past, Terminal
    <2>3. \E to \in {"completed", "missed"} : Proved!TryMove(r, stream[s].ver, to)
        BY <1>11, <2>1 DEF Proved!CleanupWrite
    <2>4. QED
        BY <1>1, <1>5, <2>2, <2>3, SessionTryMove
  <1>12. ASSUME NEW s \in Sid,
              \/ Proved!Twilio(s) \/ Proved!StreamRead(s) \/ Proved!StreamEnds(s)
              \/ Proved!CleanupRead(s) \/ Proved!StreamDies(s)
         PROVE  UNCHANGED rows
      BY <1>12 DEF Proved!Twilio, Proved!TwilioRings, Proved!TwilioAnswers,
         Proved!TwilioHearsMachine, Proved!TwilioEnds, Proved!StreamRead, Proved!StreamEnds,
         Proved!CleanupRead, Proved!StreamDies
  <1>13. ASSUME NEW h \in Handler,
              \/ \E e \in net, r \in RowId : Proved!CallbackRead(h, e, r) \/ Proved!AmdRead(h, e, r)
              \/ Proved!AmdHangsUp(h) \/ Proved!AmdReread(h) \/ Proved!HandlerDies(h)
         PROVE  UNCHANGED rows
      BY <1>13 DEF Proved!CallbackRead, Proved!AmdRead, Proved!AmdHangsUp, Proved!AmdReread,
         Proved!HandlerDies
  <1>14. ASSUME NEW e \in net, Proved!CallbackUnknown(e) \/ Proved!CallbackLost(e)
         PROVE  UNCHANGED rows
      BY <1>14 DEF Proved!CallbackUnknown, Proved!CallbackLost
  <1>15. ASSUME NEW h \in Handler, Proved!HandlerStep(h) \/ Proved!HandlerDies(h)
         PROVE  \A x \in RowId : SessionRow(x)
      BY <1>2, <1>6, <1>7, <1>8, <1>13, <1>15, SessionCallback DEF Proved!HandlerStep
  <1>16. ASSUME NEW s \in Sid, Proved!Twilio(s) \/ Proved!StreamStep(s) \/ Proved!StreamDies(s)
         PROVE  \A x \in RowId : SessionRow(x)
      BY <1>2, <1>9, <1>10, <1>11, <1>12, <1>16 DEF Proved!StreamStep
  <1>17. QED
      BY <1>2, <1>14, <1>15, <1>16 DEF Proved!SessionNext

(* Twilio's calls stay those of their rows. *)
LEMMA SessionCalls ==
    ASSUME LifecycleInv, Proved!SessionNext
    PROVE  \A s \in Sid : CallKept(s)
  <1>1. CallsOK
      BY DEF LifecycleInv, IInv, TypeOK
  <1>2. ASSUME UNCHANGED calls PROVE \A s \in Sid : CallKept(s)
      BY <1>2 DEF CallKept
  <1>3. ASSUME NEW s \in Sid, calls[s].phase # "none", NEW p \in Phase \ {"none"},
               Proved!Enter(s, p)
        PROVE  \A q \in Sid : CallKept(q)
      BY <1>1, <1>3 DEF Proved!Enter, CallsOK, Call, CallKept
  <1>4. ASSUME NEW s \in Sid, Proved!Twilio(s)
        PROVE  \/ UNCHANGED calls
               \/ /\ calls[s].phase # "none"
                  /\ \E p \in Phase \ {"none"} : Proved!Enter(s, p)
    <2>1. {"ringing", "answered", "ended"} \subseteq Phase \ {"none"}
        BY DEF Phase
    <2>2. QED
        BY <1>4, <2>1 DEF Proved!Twilio, Proved!TwilioRings, Proved!TwilioAnswers,
           Proved!TwilioHearsMachine, Proved!TwilioEnds
  <1>5. ASSUME NEW h \in Handler, Proved!AmdHangsUp(h) PROVE \A q \in Sid : CallKept(q)
    <2>1. handler[h].ev.sid \in Sid
        BY <1>5 DEF Proved!AmdHangsUp, LifecycleInv, Proved!IInv, Proved!Heard, Proved!Serving,
           Proved!Event
    <2>2. PICK s \in Sid : s = handler[h].ev.sid
        BY <2>1
    <2>3. UNCHANGED calls \/ calls' = [calls EXCEPT ![s].hangup = TRUE]
        BY <1>5, <2>2 DEF Proved!AmdHangsUp, Proved!HangUp
    <2>4. QED
        BY <1>1, <1>2, <2>3 DEF CallsOK, Call, CallKept
  <1>6. ASSUME NEW h \in Handler, Proved!HandlerStep(h) \/ Proved!HandlerDies(h)
        PROVE  UNCHANGED calls \/ Proved!AmdHangsUp(h)
      BY <1>6 DEF Proved!HandlerStep, Proved!HandlerDies, Proved!CallbackRead, Proved!AmdRead,
         Proved!CallbackStoresSeq, Proved!CallbackInvalid, Proved!CallbackApply, Proved!AmdReread,
         Proved!AmdApply, Proved!HandlerFollowsUp
  <1>7. ASSUME NEW s \in Sid, Proved!StreamStep(s) \/ Proved!StreamDies(s) PROVE UNCHANGED calls
      BY <1>7 DEF Proved!StreamStep, Proved!StreamDies, Proved!StreamRead, Proved!StreamJoin,
         Proved!StreamEnds, Proved!CleanupRead, Proved!CleanupWrite, Proved!StreamFollowsUp
  <1>8. ASSUME NEW e \in net, Proved!CallbackUnknown(e) \/ Proved!CallbackLost(e)
        PROVE  UNCHANGED calls
      BY <1>8 DEF Proved!CallbackUnknown, Proved!CallbackLost
  <1>9. QED
      BY <1>2, <1>3, <1>4, <1>5, <1>6, <1>7, <1>8 DEF Proved!SessionNext

(* Who is served, and who talks. *)
LEMMA SessionServes ==
    ASSUME LifecycleInv, Proved!SessionNext, NEW h \in Handler, handler'[h].pc # "idle"
    PROVE  \/ handler[h].pc # "idle" /\ handler'[h].row = handler[h].row
           \/ handler'[h].row \in RowId /\ rows[handler'[h].row].sid \in Sid
  <1> DEFINE Stays == handler[h].pc # "idle" /\ handler'[h].row = handler[h].row
             Called == handler'[h].row \in RowId /\ rows[handler'[h].row].sid \in Sid
  <1>1. /\ handler \in [Handler -> Proved!HandlerRec]
        /\ \A e \in net : e.sid \in Sid
      BY DEF LifecycleInv, Proved!IInv, Proved!TypeOK, Proved!Event
  <1>2. UNCHANGED handler => Stays
      OBVIOUS
  <1>3. ASSUME NEW g \in Handler, Proved!Leaves(g) PROVE Stays
      BY <1>1, <1>3 DEF Proved!Leaves, Proved!Idle
  <1>4. ASSUME NEW g \in Handler, NEW p, NEW e, NEW r, Proved!Enters(g, p, e, r)
        PROVE  IF g = h THEN handler'[h].row = r ELSE Stays
    <2>1. CASE g = h
        BY <1>1, <1>4, <2>1 DEF Proved!Enters
    <2>2. CASE g # h
        BY <1>1, <1>4, <2>2 DEF Proved!Enters
    <2>3. QED
        BY <2>1, <2>2
  <1>5. ASSUME NEW g \in Handler, NEW p, handler[g].pc # "idle",
               handler' = [handler EXCEPT ![g].pc = p]
        PROVE  Stays
    <2>1. CASE g = h
        BY <1>1, <1>5, <2>1 DEF Proved!HandlerRec
    <2>2. CASE g # h
        BY <1>1, <1>5, <2>2
    <2>3. QED
        BY <2>1, <2>2
  <1>6. ASSUME NEW g \in Handler, NEW e \in net, NEW r \in RowId,
               Proved!CallbackRead(g, e, r) \/ Proved!AmdRead(g, e, r)
        PROVE  Stays \/ Called
    <2>1. rows[r].sid \in Sid
        BY <1>1, <1>6 DEF Proved!CallbackRead, Proved!AmdRead, Proved!Owner
    <2>2. PICK p : UNCHANGED handler \/ Proved!Enters(g, p, e, r)
        BY <1>6 DEF Proved!CallbackRead, Proved!AmdRead
    <2>3. QED
        BY <1>2, <1>4, <2>1, <2>2
  <1>7. ASSUME NEW g \in Handler, Proved!AmdReread(g) PROVE Stays
    <2>1. Proved!Leaves(g) \/ Proved!Enters(g, "cas", handler[g].ev, handler[g].row)
        BY <1>7 DEF Proved!AmdReread
    <2>2. CASE g = h
        BY <1>3, <1>4, <1>7, <2>1, <2>2 DEF Proved!AmdReread
    <2>3. QED
        BY <1>3, <1>4, <2>1, <2>2
  <1>8. ASSUME NEW g \in Handler,
               \/ Proved!CallbackStoresSeq(g) \/ Proved!CallbackInvalid(g)
               \/ Proved!HandlerFollowsUp(g) \/ Proved!HandlerDies(g)
        PROVE  Proved!Leaves(g)
      BY <1>8 DEF Proved!CallbackStoresSeq, Proved!CallbackInvalid, Proved!HandlerFollowsUp,
         Proved!HandlerDies
  <1>9. ASSUME NEW g \in Handler,
               Proved!CallbackApply(g) \/ Proved!AmdApply(g) \/ Proved!AmdHangsUp(g)
        PROVE  /\ handler[g].pc # "idle"
               /\ \/ Proved!Leaves(g)
                  \/ \E p : handler' = [handler EXCEPT ![g].pc = p]
    <2>1. CASE Proved!CallbackApply(g)
        BY <2>1 DEF Proved!CallbackApply
    <2>2. CASE Proved!AmdApply(g)
        BY <2>2 DEF Proved!AmdApply
    <2>3. CASE Proved!AmdHangsUp(g)
        BY <2>3 DEF Proved!AmdHangsUp
    <2>4. QED
        BY <1>9, <2>1, <2>2, <2>3
  <1>10. ASSUME NEW g \in Handler, Proved!HandlerStep(g) \/ Proved!HandlerDies(g)
         PROVE  Stays \/ Called
      BY <1>3, <1>5, <1>6, <1>7, <1>8, <1>9, <1>10 DEF Proved!HandlerStep
  <1>11. ASSUME NEW s \in Sid, Proved!Twilio(s) \/ Proved!StreamStep(s) \/ Proved!StreamDies(s)
         PROVE  UNCHANGED handler
      BY <1>11 DEF Proved!Twilio, Proved!TwilioRings, Proved!TwilioAnswers,
         Proved!TwilioHearsMachine, Proved!TwilioEnds, Proved!StreamStep, Proved!StreamRead,
         Proved!StreamJoin, Proved!StreamEnds, Proved!CleanupRead, Proved!CleanupWrite,
         Proved!StreamFollowsUp, Proved!StreamDies
  <1>12. ASSUME NEW e \in net, Proved!CallbackUnknown(e) \/ Proved!CallbackLost(e)
         PROVE  UNCHANGED handler
      BY <1>12 DEF Proved!CallbackUnknown, Proved!CallbackLost
  <1>13. QED
      BY <1>2, <1>10, <1>11, <1>12 DEF Proved!SessionNext

(* A stream that talks has found or made its row in progress. *)
LEMMA SessionTalks ==
    ASSUME LifecycleInv, Proved!SessionNext, NEW s \in Sid,
           stream'[s].pc \in {"talking", "cleanup", "cas", "missed"}
    PROVE  \/ stream[s].pc \in {"talking", "cleanup", "cas", "missed"}
           \/ rows'[calls[s].row].status = "in_progress"
  <1> DEFINE Talks == stream[s].pc \in {"talking", "cleanup", "cas", "missed"}
             Joins == rows'[calls[s].row].status = "in_progress"
  <1>1. RowsOK /\ CallsOK /\ stream \in [Sid -> Proved!StreamRec]
      BY DEF LifecycleInv, IInv, TypeOK, Proved!IInv, Proved!TypeOK
  <1>2. UNCHANGED stream => Talks
      OBVIOUS
  <1>3. ASSUME NEW q \in Sid, Proved!Closes(q) PROVE Talks
      BY <1>1, <1>3 DEF Proved!Closes, Proved!NoStream
  <1>4. ASSUME NEW q \in Sid, NEW p, Proved!At(q, p) \/ Proved!Snapshot(q, p)
        PROVE  IF q = s THEN stream'[s].pc = p ELSE Talks
    <2>1. CASE q = s
        BY <1>1, <1>4, <2>1 DEF Proved!At, Proved!Snapshot, Proved!StreamRec
    <2>2. CASE q # s
        BY <1>1, <1>4, <2>2 DEF Proved!At, Proved!Snapshot
    <2>3. QED
        BY <2>1, <2>2
  <1>5. ASSUME NEW q \in Sid, Proved!StreamRead(q) PROVE Talks \/ Joins
    <2>1. CASE rows[calls[q].row].status = "in_progress" /\ Proved!At(q, "talking")
        BY <1>4, <1>5, <2>1 DEF Proved!StreamRead
    <2>2. CASE Proved!Snapshot(q, "join") \/ Proved!Closes(q)
        BY <1>3, <1>4, <2>2
    <2>3. QED
        BY <1>5, <2>1, <2>2 DEF Proved!StreamRead
  <1>6. ASSUME NEW q \in Sid, Proved!StreamJoin(q) PROVE Talks \/ Joins
    <2>1. PICK r \in RowId : r = calls[q].row
        BY <1>1, <1>6 DEF Proved!StreamJoin, LifecycleInv, Proved!IInv, Proved!Streamed,
           Proved!Streaming, CallsOK
    <2>2. Proved!TryMove(r, stream[q].ver, "in_progress")
        BY <1>6, <2>1 DEF Proved!StreamJoin
    <2>3. CASE Proved!Closes(q)
        BY <1>3, <2>3
    <2>4. CASE Proved!CanMove(r, stream[q].ver, "in_progress") /\ Proved!At(q, "talking")
      <3>1. rows' = [rows EXCEPT ![r] = Moved(r, "in_progress")]
          BY <2>2, <2>4 DEF Proved!TryMove, Proved!Moved, Moved
      <3>2. rows'[r].status = "in_progress"
          BY <1>1, <3>1, MovedRow, StatusSet DEF RowsOK
      <3>3. QED
          BY <1>4, <2>1, <2>4, <3>2
    <2>5. CASE /\ ~Proved!CanMove(r, stream[q].ver, "in_progress")
               /\ rows[r].status = "in_progress" /\ Proved!At(q, "talking")
      <3>1. rows' = rows
          BY <2>2, <2>5 DEF Proved!TryMove
      <3>2. QED
          BY <1>4, <2>1, <2>5, <3>1
    <2>6. QED
        BY <1>6, <2>1, <2>3, <2>4, <2>5 DEF Proved!StreamJoin
  <1>7. ASSUME NEW q \in Sid, Proved!CleanupRead(q) \/ Proved!CleanupWrite(q) PROVE Talks
    <2>1. stream[q].pc \in {"cleanup", "cas"}
        BY <1>7 DEF Proved!CleanupRead, Proved!CleanupWrite
    <2>2. Proved!Snapshot(q, "cas") \/ Proved!At(q, "missed") \/ Proved!Closes(q)
        BY <1>7 DEF Proved!CleanupRead, Proved!CleanupWrite
    <2>3. QED
        BY <1>3, <1>4, <2>1, <2>2
  <1>8. ASSUME NEW q \in Sid, Proved!StreamFollowsUp(q) \/ Proved!StreamDies(q) PROVE Talks
      BY <1>3, <1>8 DEF Proved!StreamFollowsUp, Proved!StreamDies
  <1>9. ASSUME NEW q \in Sid, Proved!StreamEnds(q) PROVE Talks
      BY <1>1, <1>9 DEF Proved!StreamEnds, Proved!StreamRec
  <1>10. ASSUME NEW q \in Sid, Proved!Twilio(q) PROVE Talks
    <2>1. CASE Proved!TwilioAnswers(q)
      <3>1. stream' = [stream EXCEPT ![q].pc = "open"]
          BY <2>1 DEF Proved!TwilioAnswers
      <3>2. QED
          BY <1>1, <3>1 DEF Proved!StreamRec
    <2>2. QED
        BY <1>2, <1>10, <2>1 DEF Proved!Twilio, Proved!TwilioRings, Proved!TwilioHearsMachine,
           Proved!TwilioEnds
  <1>11. ASSUME NEW h \in Handler, Proved!HandlerStep(h) \/ Proved!HandlerDies(h)
         PROVE  UNCHANGED stream
      BY <1>11 DEF Proved!HandlerStep, Proved!HandlerDies, Proved!CallbackRead, Proved!AmdRead,
         Proved!CallbackStoresSeq, Proved!CallbackInvalid, Proved!CallbackApply,
         Proved!AmdReread, Proved!AmdHangsUp, Proved!AmdApply, Proved!HandlerFollowsUp
  <1>12. ASSUME NEW e \in net, Proved!CallbackUnknown(e) \/ Proved!CallbackLost(e)
         PROVE  UNCHANGED stream
      BY <1>12 DEF Proved!CallbackUnknown, Proved!CallbackLost
  <1>13. QED
      BY <1>2, <1>5, <1>6, <1>7, <1>8, <1>9, <1>10, <1>11, <1>12
         DEF Proved!SessionNext, Proved!StreamStep

-----------------------------------------------------------------------------
(* Steps of either side.                                                   *)

LEMMA PastStays == \A r \in RowId : RowStepOK(r) /\ RowsOK => (Past(r) => Past(r)')
  <1> SUFFICES ASSUME NEW r \in RowId, RowStepOK(r), RowsOK, Past(r) PROVE Past(r)'
      OBVIOUS
  <1>1. rows[r].status \in {"ringing", "in_progress"} \cup Terminal
      BY DEF Past
  <1>2. CASE rows'[r].status = rows[r].status
      BY <1>1, <1>2 DEF Past
  <1>3. CASE rows'[r].status # rows[r].status
    <2>1. rows'[r].status \in Succ[rows[r].status]
        BY <1>1, <1>3 DEF RowStepOK, Terminal
    <2>2. rows[r].status \in {"ringing", "in_progress"}
        BY <1>1, <2>1, SuccTable
    <2>3. QED
        BY <2>1, <2>2 DEF Succ, Past, Terminal
  <1>4. QED
      BY <1>2, <1>3

LEMMA TalkedStays == \A r \in RowId : RowStepOK(r) => (Talked(r) => Talked(r)')
  <1> SUFFICES ASSUME NEW r \in RowId, RowStepOK(r), Talked(r) PROVE Talked(r)'
      OBVIOUS
  <1>1. rows[r].status \in {"in_progress", "completed", "missed", "deferred"}
      BY DEF Talked
  <1>2. CASE rows'[r].status = rows[r].status
      BY <1>1, <1>2 DEF Talked
  <1>3. CASE rows'[r].status # rows[r].status
    <2>1. rows'[r].status \in Succ[rows[r].status]
        BY <1>1, <1>3 DEF RowStepOK
    <2>2. rows[r].status = "in_progress"
        BY <1>1, <2>1, SuccTable DEF Terminal
    <2>3. QED
        BY <2>1, <2>2 DEF Succ, Talked
  <1>4. QED
      BY <1>2, <1>3

(* A session step keeps the invariant of the other side: it lets the row   *)
(* of a call go on, inserts a retry that nobody holds, and places no call. *)
LEMMA SessionStep ==
    ASSUME LifecycleInv, Proved!SessionNext, UNCHANGED dispatchVars
    PROVE  LifecycleInv'
  <1>1. /\ IInv /\ Proved!IInv /\ RowsOK /\ CallsOK
        /\ UNCHANGED disp /\ UNCHANGED task /\ UNCHANGED user
      BY DEF LifecycleInv, IInv, TypeOK, dispatchVars
  <1>2. [Proved!Next]_Proved!vars
      BY DEF Proved!Next
  <1>3. Proved!IInv'
      BY <1>1, <1>2, SameTable, Proved!InductiveStep
  <1>4. \A x \in RowId : RowStepOK(x)
      BY <1>1, <1>2, SameTable, Proved!TransitionStep
  <1>5. TypeOK'
    <2>1. Proved!TypeOK'
        BY <1>3 DEF Proved!IInv
    <2>2. RowsOK' /\ CallsOK' /\ budget' \in Nat
        BY <2>1, SameTable DEF Proved!TypeOK
    <2>3. DispOK' /\ TaskOK' /\ UserOK'
        BY <1>1 DEF IInv, TypeOK, DispOK, TaskOK, UserOK
    <2>4. QED
        BY <2>2, <2>3 DEF TypeOK
  <1>6. Settling
    <2>1. \A x \in RowId : SessionRow(x)
        BY SessionRows
    <2>2. \A x \in RowId : RowKept(x) \/ RowInserted(x) \/ RowMoved(x) \/ RowGoesOn(x)
        BY <2>1 DEF SessionRow, Retried
    <2>3. \A s \in Sid : CallKept(s)
        BY SessionCalls
    <2>4. QED
        BY <1>1, <2>2, <2>3, UnchangedTables DEF Settling
  <1>7. IInv'
      BY <1>1, <1>5, <1>6, SettlingStep
  <1>8. \A r \in RowId : Past(r) => Past(r)'
      BY <1>1, <1>4, PastStays
  <1>9. \A r \in RowId : rows'[r].sid # NoSid => Past(r)'
    <2> SUFFICES ASSUME NEW r \in RowId, rows'[r].sid # NoSid PROVE Past(r)'
        OBVIOUS
    <2>1. SessionRow(r)
        BY SessionRows
    <2>2. rows'[r].sid = rows[r].sid
        BY <2>1 DEF SessionRow, RowKept, RowGoesOn, Retried
    <2>3. QED
        BY <1>8, <2>2 DEF LifecycleInv, Linked
  <1>10. \A h \in Handler : handler'[h].pc # "idle" =>
            rows'[handler'[h].row].status \in {"ringing", "in_progress"} \cup Terminal
    <2> SUFFICES ASSUME NEW h \in Handler, handler'[h].pc # "idle"
                 PROVE  rows'[handler'[h].row].status \in {"ringing", "in_progress"} \cup Terminal
        OBVIOUS
    <2>1. PICK r \in RowId : r = handler'[h].row
        BY <1>3 DEF Proved!IInv, Proved!TypeOK
    <2>2. Past(r)
        BY <2>1, SessionServes, CallLogAssumption DEF LifecycleInv, Linked, CallLogAssumption
    <2>3. QED
        BY <1>8, <2>1, <2>2 DEF Past
  <1>11. \A s \in Sid : stream'[s].pc \in {"talking", "cleanup", "cas", "missed"}
                           => rows'[calls'[s].row].status \in
                                 {"in_progress", "completed", "missed", "deferred"}
    <2> SUFFICES ASSUME NEW s \in Sid, stream'[s].pc \in {"talking", "cleanup", "cas", "missed"}
                 PROVE  rows'[calls'[s].row].status \in
                            {"in_progress", "completed", "missed", "deferred"}
        OBVIOUS
    <2>1. calls'[s].row = calls[s].row /\ (calls'[s].phase = "none" <=> calls[s].phase = "none")
        BY SessionCalls DEF CallKept
    <2>2. calls'[s].phase # "none"
        BY <1>3 DEF Proved!IInv, Proved!Streamed, Proved!Streaming
    <2>3. PICK r \in RowId : r = calls[s].row
        BY <1>1, <2>1, <2>2 DEF CallsOK
    <2>4. Talked(r) \/ rows'[r].status = "in_progress"
        BY <2>3, SessionTalks DEF LifecycleInv, Linked
    <2>5. Talked(r)'
        BY <1>4, <2>4, TalkedStays DEF Talked
    <2>6. QED
        BY <2>1, <2>3, <2>5 DEF Talked
  <1>12. Linked'
      BY <1>9, <1>10, <1>11, SessionCalls DEF LifecycleInv, Linked, Past, Talked, CallKept
  <1>13. Numbered'
    <2>1. \A r \in Root : rows'[r].status # "none" /\ rows'[r].attempt \in 1..(MAX_RETRIES + 1)
      <3> SUFFICES ASSUME NEW r \in Root
                   PROVE  rows'[r].status # "none" /\ rows'[r].attempt \in 1..(MAX_RETRIES + 1)
          OBVIOUS
      <3>1. r \in RowId /\ rows[r].status # "none" /\ rows[r].attempt \in 1..(MAX_RETRIES + 1)
          BY LifecycleAssumption DEF LifecycleInv, Numbered, S!SessionAssumption
      <3>2. (RowKept(r) \/ RowGoesOn(r)) /\ Chained(r)
          BY <3>1, SessionRows DEF SessionRow, Retried, RowInserted
      <3>3. QED
          BY <3>1, <3>2 DEF RowKept, RowGoesOn, Chained, Terminal
    <2>2. ASSUME NEW q \in RowId, NEW r \in RowId, rows'[q].parent = r
          PROVE  rows'[q].attempt = rows'[r].attempt + 1
      <3>1. SessionRow(q) /\ SessionRow(r)
          BY SessionRows
      <3>2. CASE Chained(q)
        <4>1. rows[q].parent = r /\ rows[q].attempt = rows[r].attempt + 1
            BY <2>2, <3>2 DEF Chained, LifecycleInv, Numbered
        <4>2. rows[r].status = "missed"
            BY <1>1, <4>1 DEF Proved!IInv, Proved!OneFollowUpPerMiss
        <4>3. Chained(r)
            BY <3>1, <4>2 DEF SessionRow, Retried, RowInserted
        <4>4. QED
            BY <3>2, <4>1, <4>3 DEF Chained
      <3>3. CASE Retried(q)
        <4>1. rows[r].status = "missed" /\ rows'[q].attempt = rows[r].attempt + 1
            BY <2>2, <3>3 DEF Retried
        <4>2. Chained(r)
            BY <3>1, <4>1 DEF SessionRow, Retried, RowInserted
        <4>3. QED
            BY <4>1, <4>2 DEF Chained
      <3>4. QED
          BY <3>1, <3>2, <3>3 DEF SessionRow
    <2>3. QED
        BY <2>1, <2>2 DEF Numbered
  <1>14. QED
      BY <1>3, <1>7, <1>12, <1>13 DEF LifecycleInv

(* What a dispatch step does to a row and to a call: the row keeps its     *)
(* place and its SID unless it is moved to another time or the SID is      *)
(* recorded, and becomes a missed one only if it has not been called.      *)
Recorded(r) ==
    /\ rows'[r].status = "ringing"
    /\ \E t \in TaskId : /\ task[t].pc = "placed" /\ task[t].row = r
                         /\ rows'[r].sid = task[t].sid
DispatchRow(r) ==
    /\ Chained(r)
    /\ rows'[r].status = "none" <=> rows[r].status = "none"
    /\ rows'[r].sid \in {rows[r].sid, NoSid} \/ Recorded(r)
    /\ rows'[r].status = "missed" /\ rows[r].status # "missed" => Free(r) /\ UNCHANGED calls
DispatchCall(s) ==
    IF calls[s].phase # "none"
    THEN calls'[s].row = calls[s].row /\ calls'[s].phase = calls[s].phase
    ELSE \/ calls'[s].phase = "none" /\ calls'[s].row = calls[s].row
         \/ UNCHANGED rows /\ calls'[s].phase # "none" /\ rows[calls'[s].row].status # "missed"

LEMMA DispatchStay == \A r \in RowId : rows'[r] = rows[r] => DispatchRow(r)
  BY DEF DispatchRow, Chained

LEMMA DispatchMove ==
    ASSUME RowsOK, NEW r \in RowId, NEW to \in Status, rows[r].status # "none",
           to = "missed" => Free(r) /\ UNCHANGED calls,
           rows' = [rows EXCEPT ![r] = Moved(r, to)]
    PROVE  \A x \in RowId : DispatchRow(x)
  <1>1. rows'[r] = Moved(r, to) /\ \A x \in RowId \ {r} : rows'[x] = rows[x]
      BY DEF RowsOK
  <1>2. /\ rows'[r].status = to /\ rows'[r].sid = rows[r].sid
        /\ rows'[r].attempt = rows[r].attempt /\ rows'[r].parent = rows[r].parent
    <2>1. /\ Moved(r, to).status = to /\ Moved(r, to).sid = rows[r].sid
          /\ Moved(r, to).attempt = rows[r].attempt /\ Moved(r, to).parent = rows[r].parent
        BY MovedRow
    <2>2. QED
        BY <1>1, <2>1
  <1>3. to # "none"
      BY StatusSet
  <1>4. DispatchRow(r)
      BY <1>2, <1>3 DEF DispatchRow, Chained
  <1>5. QED
      BY <1>1, <1>4, DispatchStay

LEMMA DispatchTryMove ==
    ASSUME RowsOK, NEW r \in RowId, NEW to \in Status, NEW v, TryMove(r, v, to),
           CanMove(r, v, to) /\ to = "missed" => Free(r) /\ UNCHANGED calls
    PROVE  \A x \in RowId : DispatchRow(x)
  <1>1. CASE CanMove(r, v, to)
      BY <1>1, DispatchMove DEF TryMove, CanMove
  <1>2. CASE ~CanMove(r, v, to)
      BY <1>2, DispatchStay DEF TryMove
  <1>3. QED
      BY <1>1, <1>2

LEMMA DispatchRows ==
    ASSUME IInv, DispatchNext
    PROVE  \A x \in RowId : DispatchRow(x)
  <1>1. RowsOK /\ DispOK /\ TaskOK /\ UserOK /\ KnownRows
      BY DEF IInv, TypeOK
  <1>2. ASSUME UNCHANGED rows PROVE \A x \in RowId : DispatchRow(x)
      BY <1>2, DispatchStay
  <1>3. ASSUME NEW r \in RowId, BecomeDue(r) \/ Age(r) PROVE \A x \in RowId : DispatchRow(x)
    <2>1. CASE BecomeDue(r)
        BY <1>1, <2>1 DEF BecomeDue, RowsOK, Row, DispatchRow, Chained
    <2>2. CASE Age(r)
        BY <1>1, <2>2 DEF Age, RowsOK, Row, DispatchRow, Chained
    <2>3. QED
        BY <1>3, <2>1, <2>2
  <1>4. CASE Sweep
    <2> SUFFICES ASSUME NEW x \in RowId PROVE DispatchRow(x)
        OBVIOUS
    <2>1. CASE Stuck(x)
      <3>1. rows'[x] = Moved(x, "scheduled") /\ "scheduled" \in Status
          BY <1>4, <2>1, StatusSet DEF Sweep
      <3>2. /\ rows'[x].status = "scheduled" /\ rows'[x].sid = rows[x].sid
            /\ rows'[x].attempt = rows[x].attempt /\ rows'[x].parent = rows[x].parent
        <4>1. /\ Moved(x, "scheduled").status = "scheduled"
              /\ Moved(x, "scheduled").sid = rows[x].sid
              /\ Moved(x, "scheduled").attempt = rows[x].attempt
              /\ Moved(x, "scheduled").parent = rows[x].parent
            BY <1>1, <3>1, MovedRow
        <4>2. QED
            BY <3>1, <4>1
      <3>3. QED
          BY <2>1, <3>2 DEF DispatchRow, Chained, Stuck
    <2>2. CASE ~Stuck(x)
        BY <1>4, <2>2, DispatchStay DEF Sweep
    <2>3. QED
        BY <2>1, <2>2
  <1>5. ASSUME NEW d \in Dispatcher, Claim(d) \/ Revert(d) \/ StoreTaskId(d)
        PROVE  \A x \in RowId : DispatchRow(x)
    <2>1. PICK r \in RowId : r = disp[d].row /\ rows[r].status # "none"
        BY <1>1, <1>5 DEF Claim, Revert, StoreTaskId, DispOK, KnownRows
    <2>2. CASE Claim(d) \/ Revert(d)
      <3>1. \/ UNCHANGED rows
            \/ \E to \in {"dispatching", "scheduled"} : rows' = [rows EXCEPT ![r] = Moved(r, to)]
          BY <2>1, <2>2 DEF Claim, Revert
      <3>2. QED
          BY <1>1, <1>2, <2>1, <3>1, DispatchMove, StatusSet
    <2>3. CASE StoreTaskId(d)
      <3>1. rows' = [rows EXCEPT ![r].task = disp[d].task, ![r].aged = FALSE]
          BY <2>1, <2>3 DEF StoreTaskId
      <3>2. QED
          BY <1>1, <3>1 DEF RowsOK, Row, DispatchRow, Chained
    <2>4. QED
        BY <1>5, <2>2, <2>3
  <1>6. ASSUME NEW t \in TaskId, MarkRinging(t) PROVE \A x \in RowId : DispatchRow(x)
    <2>1. PICK r \in RowId : task[t].row = r /\ task[t].pc = "placed"
        BY <1>1, <1>6 DEF MarkRinging, TaskOK
    <2>2. CASE CanMove(r, task[t].ver, "ringing")
      <3>1. rows' = [rows EXCEPT ![r] = [Moved(r, "ringing") EXCEPT !.sid = task[t].sid]]
          BY <1>6, <2>1, <2>2 DEF MarkRinging
      <3>2. /\ Moved(r, "ringing") \in Row
            /\ Moved(r, "ringing").status = "ringing"
            /\ Moved(r, "ringing").attempt = rows[r].attempt
            /\ Moved(r, "ringing").parent = rows[r].parent
          BY <1>1, MovedRow, StatusSet
      <3>3. /\ rows'[r].status = "ringing"
            /\ rows'[r].sid = task[t].sid
            /\ rows'[r].attempt = rows[r].attempt
            /\ rows'[r].parent = rows[r].parent
            /\ \A x \in RowId : x # r => rows'[x] = rows[x]
          BY <1>1, <3>1, <3>2 DEF RowsOK, Row
      <3>4. Recorded(r) /\ Chained(r) /\ rows[r].status # "none"
          BY <2>1, <2>2, <3>3 DEF CanMove, Recorded, Chained
      <3>5. DispatchRow(r)
          BY <3>3, <3>4 DEF DispatchRow
      <3>6. QED
          BY <3>3, <3>5, DispatchStay
    <2>3. CASE ~CanMove(r, task[t].ver, "ringing")
        BY <1>6, <2>1, <2>3, DispatchStay DEF MarkRinging
    <2>4. QED
        BY <2>2, <2>3
  <1>7. ASSUME NEW t \in TaskId, SettleError(t) PROVE \A x \in RowId : DispatchRow(x)
    <2>1. PICK r \in RowId : task[t].row = r /\ task[t].pc \in {"revert", "reject"}
        BY <1>1, <1>7 DEF SettleError, TaskOK
    <2>2. PICK to \in {"scheduled", "missed"} : TryMove(r, task[t].ver, to)
        BY <1>7, <2>1 DEF SettleError
    <2>3. CanMove(r, task[t].ver, to) => Free(r)
        BY <2>1 DEF CanMove, IInv, VersionFixesStatus, ClaimableIsFree
    <2>4. QED
        BY <1>1, <1>7, <2>2, <2>3, DispatchTryMove, StatusSet DEF SettleError
  <1>8. ASSUME NEW u \in User, UserWrite(u) PROVE \A x \in RowId : DispatchRow(x)
    <2>1. PICK r \in RowId : user[u].row = r
        BY <1>1, <1>8 DEF UserWrite, UserOK
    <2>2. user[u].op \in UserOp
        BY <1>1, <1>8 DEF UserWrite, UserOK, UserRec
    <2>3. CASE user[u].op = "reschedule"
      <3>1. UNCHANGED rows \/ (rows[r].status = "scheduled" /\ rows' = [rows EXCEPT ![r] = Rescheduled(r)])
          BY <1>8, <2>1, <2>3 DEF UserWrite
      <3>2. CASE rows[r].status = "scheduled" /\ rows' = [rows EXCEPT ![r] = Rescheduled(r)]
          BY <1>1, <3>2 DEF RowsOK, Row, Rescheduled, DispatchRow, Chained
      <3>3. QED
          BY <1>2, <3>1, <3>2
    <2>4. CASE user[u].op # "reschedule"
      <3>1. PICK to \in {"skipped", "cancelled"} : TryMove(r, user[u].snap.version, to)
          BY <1>8, <2>1, <2>2, <2>4 DEF UserWrite, UserOp
      <3>2. QED
          BY <1>1, <3>1, DispatchTryMove, StatusSet
    <2>5. QED
        BY <2>3, <2>4
  <1>9. ASSUME NEW t \in TaskId, TaskStep(t) \/ TaskDies(t)
        PROVE  UNCHANGED rows \/ MarkRinging(t) \/ SettleError(t)
      BY <1>9 DEF TaskStep, TaskDies, TaskBegin, CallPlaced, TwilioError, CallRefused
  <1>10. ASSUME NEW u \in User, UserStep(u) PROVE UNCHANGED rows \/ UserWrite(u)
      BY <1>10 DEF UserStep, UserRead, TwoLayerCancel
  <1>11. QED
      BY <1>2, <1>3, <1>4, <1>5, <1>6, <1>7, <1>8, <1>9, <1>10, DispatcherLeaves DEF DispatchNext

LEMMA DispatchCalls ==
    ASSUME HarmlessOnly, IInv, DispatchNext
    PROVE  \A s \in Sid : DispatchCall(s)
  <1>1. CallsOK /\ TaskOK /\ UserOK
      BY DEF IInv, TypeOK
  <1>2. ASSUME UNCHANGED calls PROVE \A s \in Sid : DispatchCall(s)
      BY <1>2 DEF DispatchCall
  <1>3. ASSUME NEW t \in TaskId, NEW q \in Sid, CallPlaced(t, q)
        PROVE  \A s \in Sid : DispatchCall(s)
    <2>1. PICK r \in RowId : r = task[t].row /\ PendingTask(t, r)
        BY <1>1, <1>3 DEF CallPlaced, TaskOK, PendingTask
    <2>2. rows[r].status # "missed"
        BY <2>1 DEF IInv, HeldRowStatus
    <2>3. /\ calls[q].phase = "none" /\ UNCHANGED rows
          /\ calls' = [calls EXCEPT ![q] = [row |-> r, phase |-> "queued", hangup |-> FALSE]]
        BY <1>3, <2>1 DEF CallPlaced, PlaceCall
    <2>4. calls'[q].row = r /\ \A s \in Sid \ {q} : calls'[s] = calls[s]
        BY <1>1, <2>3 DEF CallsOK
    <2>5. QED
        BY <2>2, <2>3, <2>4 DEF DispatchCall
  <1>4. ASSUME NEW u \in User, TwoLayerCancel(u) PROVE \A s \in Sid : DispatchCall(s)
    <2>1. user[u].snap.sid \in Sid \cup {NoSid}
        BY <1>1 DEF UserOK, UserRec, Row
    <2>2. UNCHANGED calls \/ \E q \in Sid : calls' = [calls EXCEPT ![q].hangup = TRUE]
        BY <1>4, <2>1 DEF TwoLayerCancel, HangUp
    <2>3. ASSUME NEW q \in Sid, calls' = [calls EXCEPT ![q].hangup = TRUE]
          PROVE  \A s \in Sid : DispatchCall(s)
        BY <1>1, <2>3 DEF CallsOK, Call, DispatchCall
    <2>4. QED
        BY <1>2, <2>2, <2>3
  <1>5. ASSUME NEW t \in TaskId, TaskStep(t) \/ TaskDies(t), calls' # calls
        PROVE  \E q \in Sid : CallPlaced(t, q)
      BY <1>5 DEF TaskStep, TaskDies, TaskBegin, TwilioError, CallRefused, MarkRinging,
         SettleError, Fault, HarmlessOnly, HarmlessFault
  <1>6. \A x \in RowId : BecomeDue(x) \/ Age(x) => UNCHANGED calls
      BY DEF BecomeDue, Age
  <1>7. \A u \in User : UserStep(u) => UNCHANGED calls \/ TwoLayerCancel(u)
      BY DEF UserStep, UserRead, UserWrite
  <1>8. Sweep => UNCHANGED calls
      BY DEF Sweep
  <1>9. QED
      BY <1>2, <1>3, <1>4, <1>5, <1>6, <1>7, <1>8, DispatcherLeaves DEF DispatchNext

(* A dispatch step keeps the invariant of live calls: it starts a call for *)
(* a row that has none, and leaves the calls under way to their callbacks. *)
LEMMA DispatchStep ==
    ASSUME HarmlessOnly, LifecycleInv, DispatchNext, UNCHANGED sessionVars
    PROVE  LifecycleInv'
  <1>1. /\ IInv /\ Proved!IInv /\ RowsOK /\ CallsOK /\ TypeOK /\ Linked /\ Numbered
        /\ UNCHANGED net /\ UNCHANGED outcome /\ UNCHANGED machines
        /\ UNCHANGED handler /\ UNCHANGED stream /\ UNCHANGED encouraged
      BY DEF LifecycleInv, IInv, TypeOK, sessionVars
  <1>2. Next
      BY DEF DispatchNext, Next
  <1>3. IInv'
      BY <1>1, <1>2, InductiveStep
  <1>4. \A r \in RowId : RowStepOK(r) /\ DispatchRow(r)
      BY <1>1, <1>2, TransitionStep, DispatchRows
  <1>5. \A s \in Sid : DispatchCall(s)
      BY <1>1, DispatchCalls
  <1>6. ASSUME NEW s \in Sid, NEW r \in RowId, CallFor(s, r) PROVE CallFor(s, r)'
      BY <1>5, <1>6 DEF CallFor, DispatchCall
  <1>7. ASSUME NEW r \in RowId, rows[r].status = "missed" PROVE rows'[r].status = "missed"
    <2>1. Succ["missed"] = {}
        BY SuccTable DEF Terminal
    <2>2. QED
        BY <1>4, <1>7, <2>1 DEF RowStepOK
  <1>8. Proved!TypeOK'
    <2>1. RowsOK' /\ CallsOK' /\ budget' \in Nat
        BY <1>3 DEF IInv, TypeOK
    <2>2. QED
        BY <1>1, <2>1, SameTable DEF Proved!IInv, Proved!TypeOK
  <1>9. Proved!Placed'
    <2>1. \A s, q \in Sid, r \in RowId : Proved!CallFor(s, r)' /\ Proved!CallFor(q, r)' => s = q
        BY <1>3 DEF IInv, OneHolder, CallFor, Proved!CallFor
    <2>2. ASSUME NEW s \in Sid, calls'[s].phase # "none"
          PROVE  rows'[calls'[s].row].status \notin {"none", "scheduled"}
      <3>1. PICK r \in RowId : r = calls'[s].row
          BY <1>3, <2>2 DEF IInv, TypeOK, CallsOK
      <3>2. ~Free(r)'
          BY <2>2, <3>1 DEF Free, CallFor
      <3>3. rows'[r].status \notin {"none", "scheduled"}
          BY <1>3, <3>2 DEF IInv, ClaimableIsFree
      <3>4. QED
          BY <3>1, <3>3
    <2>3. ASSUME NEW r \in RowId, rows'[r].sid # NoSid
          PROVE  \E s \in Sid : s = rows'[r].sid /\ CallFor(s, r)
      <3>1. CASE rows'[r].sid = rows[r].sid
        <4>1. Proved!CallFor(rows[r].sid, r) /\ rows[r].sid \in Sid
            BY <1>1, <2>3, <3>1 DEF Proved!IInv, Proved!Placed, RowsOK, Row
        <4>2. QED
            BY <3>1, <4>1 DEF CallFor, Proved!CallFor
      <3>2. CASE Recorded(r)
          BY <1>1, <3>2 DEF Recorded, IInv, PlacedHasCall
      <3>3. QED
          BY <1>4, <2>3, <3>1, <3>2 DEF DispatchRow
    <2>4. ASSUME NEW r \in RowId, rows'[r].sid # NoSid
          PROVE  calls'[rows'[r].sid].row = r /\ calls'[rows'[r].sid].phase # "none"
        BY <1>6, <2>3, <2>4 DEF CallFor
    <2>5. \A s \in Sid : outcome'[s] # "none" => calls'[s].phase = "ended"
        BY <1>1, <1>5 DEF DispatchCall, Proved!IInv, Proved!Placed
    <2>6. QED
        BY <2>1, <2>2, <2>4, <2>5 DEF Proved!Placed, Proved!CallFor
  <1>10. Proved!Heard'
    <2>1. \A e \in Proved!Event : Proved!Truthful(e) => Proved!Truthful(e)'
        BY <1>1, <1>5 DEF Proved!Event, Proved!Truthful, DispatchCall
    <2>2. \A e \in net' : Proved!Truthful(e)'
        BY <1>1, <2>1 DEF Proved!IInv, Proved!Heard, Proved!TypeOK
    <2>3. ASSUME NEW h \in Handler PROVE Proved!Serving(h)'
      <3>1. Proved!Serving(h)
          BY <1>1 DEF Proved!IInv, Proved!Heard
      <3>2. CASE handler[h].pc = "idle"
          BY <1>1, <3>2 DEF Proved!Serving
      <3>3. CASE handler[h].pc # "idle"
        <4>1. PICK e \in Proved!Event : e = handler[h].ev /\ Proved!Truthful(e)
            BY <3>1, <3>3 DEF Proved!Serving
        <4>2. PICK s \in Sid, r \in RowId : s = e.sid /\ r = handler[h].row /\ CallFor(s, r)
            BY <1>1, <3>1, <3>3, <4>1 DEF Proved!Serving, Proved!Event, Proved!CallFor, CallFor,
               Proved!IInv, Proved!TypeOK
        <4>3. CallFor(s, r)' /\ Proved!Truthful(e)'
            BY <1>6, <2>1, <4>1, <4>2
        <4>4. QED
            BY <1>1, <3>1, <3>3, <4>1, <4>2, <4>3 DEF Proved!Serving, Proved!CallFor, CallFor,
               Proved!Truthful
      <3>4. QED
          BY <3>2, <3>3
    <2>4. QED
        BY <2>2, <2>3 DEF Proved!Heard
  <1>11. Proved!Streamed'
      BY <1>1, <1>5 DEF DispatchCall, Proved!IInv, Proved!Streamed, Proved!Streaming
  <1>12. ASSUME NEW s \in Sid, stream[s].pc # "none" PROVE calls'[s].row = calls[s].row /\ calls[s].row \in RowId
      BY <1>1, <1>5, <1>12 DEF DispatchCall, Proved!IInv, Proved!Streamed, Proved!Streaming, CallsOK
  <1>13. Proved!Owing'
    <2> SUFFICES ASSUME NEW r \in RowId
                 PROVE  /\ \A h, g \in Handler :
                              Proved!HandlerOwes(h, r)' /\ Proved!HandlerOwes(g, r)' => h = g
                        /\ \A h \in Handler, s \in Sid :
                              ~(Proved!HandlerOwes(h, r)' /\ Proved!StreamOwes(s, r)')
                        /\ Proved!Owed(r)' => /\ rows'[r].status = "missed" /\ r \notin encouraged'
                                              /\ \A q \in RowId : rows'[q].parent # r
                        /\ r \in encouraged' => rows'[r].status = "missed"
                        /\ rows'[r].status = "none" => rows'[r].parent = NoRow
        BY DEF Proved!Owing
    <2>1. \A h \in Handler : Proved!HandlerOwes(h, r)' <=> Proved!HandlerOwes(h, r)
        BY <1>1 DEF Proved!HandlerOwes
    <2>2. \A s \in Sid : Proved!StreamOwes(s, r)' => Proved!StreamOwes(s, r)
        BY <1>1, <1>12 DEF Proved!StreamOwes
    <2>3. Proved!Owed(r)' => Proved!Owed(r)
        BY <2>1, <2>2 DEF Proved!Owed
    <2>4. \A q \in RowId : rows'[q].parent = rows[q].parent
        BY <1>4 DEF DispatchRow, Chained
    <2>5. rows'[r].status = "none" => rows[r].status = "none"
        BY <1>4 DEF DispatchRow
    <2>6. QED
        BY <1>1, <1>7, <2>1, <2>2, <2>3, <2>4, <2>5 DEF Proved!IInv, Proved!Owing
  <1>14. Proved!OneFollowUpPerMiss'
      BY <1>1, <1>4, <1>7 DEF Proved!IInv, Proved!OneFollowUpPerMiss, DispatchRow, Chained
  <1>15. Proved!MissHasCause'
    <2> SUFFICES ASSUME NEW s \in Sid, calls'[s].phase # "none",
                        rows'[calls'[s].row].status = "missed"
                 PROVE  \/ outcome'[s] \in {"busy", "no-answer", "failed"}
                        \/ stream'[s].how \in {"early", "failed"}
                        \/ s \in machines'
        BY DEF Proved!MissHasCause
    <2>1. calls[s].phase # "none" /\ calls'[s].row = calls[s].row
        BY <1>5 DEF DispatchCall
    <2>2. PICK r \in RowId : r = calls[s].row /\ ~Free(r)
        BY <1>1, <2>1 DEF CallsOK, Free, CallFor
    <2>3. rows[r].status = "missed"
        BY <1>4, <2>1, <2>2 DEF DispatchRow
    <2>4. QED
        BY <1>1, <2>1, <2>2, <2>3 DEF Proved!IInv, Proved!MissHasCause
  <1>16. Proved!IInv'
      BY <1>8, <1>9, <1>10, <1>11, <1>13, <1>14, <1>15 DEF Proved!IInv
  <1>17. Linked'
    <2>1. \A r \in RowId : Past(r) => Past(r)'
        BY <1>1, <1>4, PastStays
    <2>2. ASSUME NEW r \in RowId, rows'[r].sid # NoSid PROVE Past(r)'
      <3>1. CASE rows'[r].sid = rows[r].sid
          BY <1>1, <2>1, <2>2, <3>1 DEF Linked
      <3>2. CASE Recorded(r)
          BY <3>2 DEF Recorded, Past
      <3>3. QED
          BY <1>4, <2>2, <3>1, <3>2 DEF DispatchRow
    <2>3. ASSUME NEW h \in Handler, handler[h].pc # "idle" PROVE Past(handler[h].row)'
      <3>1. PICK r \in RowId : r = handler[h].row /\ Past(r)
          BY <1>1, <2>3 DEF Linked, Proved!IInv, Proved!TypeOK
      <3>2. QED
          BY <1>1, <2>1, <3>1 DEF Past
    <2>4. ASSUME NEW s \in Sid, stream[s].pc \in {"talking", "cleanup", "cas", "missed"}
          PROVE  rows'[calls'[s].row].status \in {"in_progress", "completed", "missed", "deferred"}
      <3>1. PICK r \in RowId : r = calls[s].row /\ r = calls'[s].row /\ Talked(r)
          BY <1>1, <1>12, <2>4 DEF Linked
      <3>2. Talked(r)'
          BY <1>4, <3>1, TalkedStays
      <3>3. QED
          BY <3>1, <3>2 DEF Talked
    <2>5. \A s \in Sid : calls'[s].phase = "none" => calls'[s].row = NoRow
        BY <1>1, <1>5 DEF DispatchCall, Linked
    <2>6. QED
        BY <1>1, <2>2, <2>3, <2>4, <2>5 DEF Linked, Past, Talked
  <1>18. Numbered'
      BY <1>1, <1>4, LifecycleAssumption DEF Numbered, DispatchRow, Chained, S!SessionAssumption
  <1>19. QED
      BY <1>3, <1>16, <1>17, <1>18 DEF LifecycleInv

LEMMA LifecycleStep ==
    HarmlessOnly /\ LifecycleInv /\ [LifecycleNext]_<<vars, sessionVars>> => LifecycleInv'
  <1> SUFFICES ASSUME HarmlessOnly, LifecycleInv, [LifecycleNext]_<<vars, sessionVars>>
               PROVE  LifecycleInv'
      OBVIOUS
  <1>1. CASE DispatchNext /\ UNCHANGED sessionVars
      BY <1>1, DispatchStep
  <1>2. CASE S!SessionNext /\ UNCHANGED dispatchVars
      BY <1>2, SameSession, SessionStep
  <1>3. CASE UNCHANGED <<vars, sessionVars>>
    <2>1. /\ UNCHANGED rows /\ UNCHANGED calls /\ UNCHANGED handler /\ UNCHANGED stream
          /\ UNCHANGED vars /\ UNCHANGED Proved!vars
        BY <1>3 DEF vars, sessionVars, Proved!vars, Proved!own
    <2>2. IInv'
        BY <2>1, InductiveStep DEF LifecycleInv
    <2>3. Proved!IInv'
        BY <2>1, SameTable, Proved!InductiveStep DEF LifecycleInv
    <2>4. Linked' /\ Numbered'
        BY <2>1 DEF LifecycleInv, Linked, Numbered, Past, Talked
    <2>5. QED
        BY <2>2, <2>3, <2>4 DEF LifecycleInv
  <1>4. QED
      BY <1>1, <1>2, <1>3 DEF LifecycleNext

(* The invariant of the composition: that of dispatching, that of callbacks *)
(* and streams, and what either has to know of the other's rows and calls.  *)
THEOREM LifecycleInvariance == HarmlessOnly => (LifecycleSpec => []LifecycleInv)
  <1> SUFFICES ASSUME HarmlessOnly PROVE LifecycleSpec => []LifecycleInv
      OBVIOUS
  <1>1. LifecycleInit => LifecycleInv
      BY InitLifecycle
  <1>2. LifecycleInv /\ [LifecycleNext]_<<vars, sessionVars>> => LifecycleInv'
      BY LifecycleStep
  <1>3. QED
      BY <1>1, <1>2, PTL DEF LifecycleSpec

(* What was proved of the halves holds of the whole, with real dispatching *)
(* in place of a stand-in: one call per row, which the row records, one    *)
(* follow-up per miss, and no miss without a cause.                        *)
THEOREM HalvesTogether ==
    HarmlessOnly => (LifecycleSpec => [](/\ AtMostOneCall
                                         /\ CallIsRecorded
                                         /\ S!OneFollowUpPerMiss
                                         /\ S!MissHasCause))
  <1> SUFFICES ASSUME HarmlessOnly
               PROVE  LifecycleSpec => [](/\ AtMostOneCall
                                          /\ CallIsRecorded
                                          /\ S!OneFollowUpPerMiss
                                          /\ S!MissHasCause)
      OBVIOUS
  <1>1. LifecycleInv => AtMostOneCall
      BY DEF LifecycleInv, IInv, TypeOK, CallsOK, OneHolder, CallFor, AtMostOneCall
  <1>2. LifecycleInv => CallIsRecorded
      BY DEF LifecycleInv, IInv, SidIsKnown, CallIsRecorded
  <1>3. LifecycleInv => S!OneFollowUpPerMiss
      BY DEF LifecycleInv, Proved!IInv, Proved!OneFollowUpPerMiss, S!OneFollowUpPerMiss,
         S!MAX_RETRIES, Proved!MAX_RETRIES
  <1>4. LifecycleInv => S!MissHasCause
      BY DEF LifecycleInv, Proved!IInv, Proved!MissHasCause, S!MissHasCause
  <1>5. QED
      BY <1>1, <1>2, <1>3, <1>4, LifecycleInvariance, PTL

(* A call whose row was cancelled is not being talked on: a cancellation   *)
(* and a stream that race for a ringing row cannot both win.               *)
THEOREM NoTalkAfterCancel == HarmlessOnly => (LifecycleSpec => []CancelledNeverTalks)
  <1> SUFFICES ASSUME HarmlessOnly PROVE LifecycleSpec => []CancelledNeverTalks
      OBVIOUS
  <1>1. LifecycleInv => CancelledNeverTalks
      BY DEF LifecycleInv, Linked, Talked, CancelledNeverTalks
  <1>2. QED
      BY <1>1, LifecycleInvariance, PTL

-----------------------------------------------------------------------------
(* Calls per chain.                                                        *)

LEMMA FewElements ==
    ASSUME NEW E, \A x, y \in E : x = y
    PROVE  /\ IsFiniteSet(E)
           /\ Cardinality(E) \in Nat
           /\ Cardinality(E) <= 1
  <1>1. CASE E = {}
      BY <1>1, FS_EmptySet
  <1>2. CASE E # {}
    <2>1. PICK x : E = {x}
        BY <1>2
    <2>2. IsFiniteSet({x}) /\ Cardinality({x}) = 1
        BY FS_Singleton
    <2>3. QED
        BY <2>1, <2>2
  <1>3. QED
      BY <1>1, <1>2

LEMMA CardinalityOfUnion ==
    ASSUME NEW A, IsFiniteSet(A), NEW B, IsFiniteSet(B)
    PROVE  /\ IsFiniteSet(A \cup B)
           /\ Cardinality(A \cup B) \in Nat
           /\ Cardinality(A \cup B) <= Cardinality(A) + Cardinality(B)
  <1>1. IsFiniteSet(A \cap B)
      BY FS_Intersection
  <1>2. /\ Cardinality(A) \in Nat /\ Cardinality(B) \in Nat /\ Cardinality(A \cap B) \in Nat
      BY <1>1, FS_CardinalityType
  <1>3. /\ IsFiniteSet(A \cup B)
        /\ Cardinality(A \cup B) = Cardinality(A) + Cardinality(B) - Cardinality(A \cap B)
      BY FS_Union
  <1>4. Cardinality(A \cup B) \in Nat
      BY <1>3, FS_CardinalityType
  <1>5. QED
      BY <1>2, <1>3, <1>4

(* The calls of the rows x that P selects, when there is one such row.     *)
LEMMA OneCallOf ==
    ASSUME LifecycleInv, NEW X \in SUBSET RowId, \A x, y \in X : x = y
    PROVE  \A s, q \in {z \in Sid : calls[z].row \in X} : s = q
  <1> SUFFICES ASSUME NEW s \in Sid, NEW q \in Sid, calls[s].row \in X, calls[q].row \in X
               PROVE  s = q
      OBVIOUS
  <1>1. PICK r \in RowId : r = calls[s].row /\ r = calls[q].row
      OBVIOUS
  <1>2. CallFor(s, r) /\ CallFor(q, r)
      BY <1>1, CallLogAssumption DEF LifecycleInv, Linked, CallFor, CallLogAssumption
  <1>3. QED
      BY <1>2 DEF LifecycleInv, IInv, OneHolder

LEMMA ChainIsShort == LifecycleInv => CallsPerChain
  <1> SUFFICES ASSUME LifecycleInv, NEW r \in Root
               PROVE  Cardinality({s \in Sid : calls[s].row \in ChainOf(r)})
                         <= MAX_RETRIES + 2 - rows[r].attempt
      BY DEF CallsPerChain
  <1> DEFINE Child == {q \in RowId : rows[q].parent = r}
             Grandchild == {q \in RowId : rows[q].parent \in Child}
             C0 == {s \in Sid : calls[s].row \in {r}}
             C1 == {s \in Sid : calls[s].row \in Child}
             C2 == {s \in Sid : calls[s].row \in Grandchild}
             a == rows[r].attempt
  <1>1. /\ r \in RowId
        /\ a \in 1..(MAX_RETRIES + 1)
        /\ MAX_RETRIES = 2
      BY LifecycleAssumption DEF LifecycleInv, Numbered, S!SessionAssumption, MAX_RETRIES
  <1>2. ASSUME NEW q \in RowId, NEW p \in RowId, rows[q].parent = p
        PROVE  /\ \A x \in RowId : rows[x].parent = p => x = q
               /\ rows[q].attempt = rows[p].attempt + 1
               /\ rows[q].attempt <= 3
      BY <1>1, <1>2 DEF LifecycleInv, Numbered, Proved!IInv, Proved!OneFollowUpPerMiss,
         Proved!MAX_RETRIES
  <1>3. \A x, y \in Child : x = y
      BY <1>1, <1>2
  <1>4. \A x, y \in Grandchild : x = y
      BY <1>1, <1>2
  <1>5. \A s, q \in C0 : s = q
    <2>1. {r} \in SUBSET RowId /\ \A x, y \in {r} : x = y
        BY <1>1
    <2>2. QED
        BY <2>1, OneCallOf
  <1>6. \A s, q \in C1 : s = q
      BY <1>3, OneCallOf
  <1>7. \A s, q \in C2 : s = q
      BY <1>4, OneCallOf
  <1>8. a > 2 => C1 = {}
    <2>1. ASSUME NEW q \in Child PROVE a + 1 <= 3
        BY <1>1, <1>2
    <2>2. QED
        BY <1>1, <2>1
  <1>9. a > 1 => C2 = {}
    <2>1. ASSUME NEW q \in Grandchild PROVE a + 2 <= 3
      <3>1. PICK p \in Child : rows[q].parent = p
          OBVIOUS
      <3>2. rows[p].attempt = a + 1
          BY <1>1, <1>2
      <3>3. rows[q].attempt = rows[p].attempt + 1 /\ rows[q].attempt <= 3
          BY <1>2, <3>1
      <3>4. QED
          BY <1>1, <3>2, <3>3
    <2>2. QED
        BY <1>1, <2>1
  <1>10. {s \in Sid : calls[s].row \in ChainOf(r)} = (C0 \cup C1) \cup C2
    <2>1. ChainOf(r) = ({r} \cup Child) \cup Grandchild
        BY DEF ChainOf
    <2>2. QED
        BY <2>1
  <1> HIDE DEF C0, C1, C2
  <1>11. /\ IsFiniteSet(C0) /\ Cardinality(C0) \in Nat /\ Cardinality(C0) <= 1
         /\ IsFiniteSet(C1) /\ Cardinality(C1) \in Nat /\ Cardinality(C1) <= 1
         /\ IsFiniteSet(C2) /\ Cardinality(C2) \in Nat /\ Cardinality(C2) <= 1
      BY <1>5, <1>6, <1>7, FewElements
  <1>12. /\ a > 2 => Cardinality(C1) = 0
         /\ a > 1 => Cardinality(C2) = 0
      BY <1>8, <1>9, FS_EmptySet
  <1>13. /\ IsFiniteSet(C0 \cup C1) /\ Cardinality(C0 \cup C1) \in Nat
         /\ Cardinality(C0 \cup C1) <= Cardinality(C0) + Cardinality(C1)
      BY <1>11, CardinalityOfUnion
  <1>14. /\ Cardinality((C0 \cup C1) \cup C2) \in Nat
         /\ Cardinality((C0 \cup C1) \cup C2) <= Cardinality(C0 \cup C1) + Cardinality(C2)
      BY <1>11, <1>13, CardinalityOfUnion
  <1>15. Cardinality((C0 \cup C1) \cup C2) <= 4 - a
    <2>1. a = 1 \/ a = 2 \/ a = 3
        BY <1>1
    <2>2. PICK k \in Nat : k = Cardinality((C0 \cup C1) \cup C2)
        BY <1>14
    <2>3. k <= Cardinality(C0) + Cardinality(C1) + Cardinality(C2)
        BY <1>11, <1>13, <1>14, <2>2
    <2>4. k <= 3 /\ (a > 1 => k <= 2) /\ (a > 2 => k <= 1)
        BY <1>11, <1>12, <2>1, <2>3
    <2>5. k <= 4 - a
        BY <2>1, <2>4
    <2>6. QED
        BY <2>2, <2>5
  <1>16. MAX_RETRIES + 2 - a = 4 - a
      BY <1>1
  <1>17. QED
      BY <1>10, <1>15, <1>16

(* A scheduled call rings the user at most 1 + MAX_RETRIES times: every    *)
(* row of its chain is called once, every miss is followed up once, and    *)
(* the attempts are numbered, whoever races to settle each of them.        *)
THEOREM ChainsAreShort == HarmlessOnly => (LifecycleSpec => []CallsPerChain)
  <1> SUFFICES ASSUME HarmlessOnly PROVE LifecycleSpec => []CallsPerChain
      OBVIOUS
  <1>1. LifecycleInv => CallsPerChain
      BY ChainIsShort
  <1>2. QED
      BY <1>1, LifecycleInvariance, PTL

-----------------------------------------------------------------------------
(* Action properties of the composition.                                   *)

(* The version fence holds of all writers together.                        *)
THEOREM LifecycleFence == HarmlessOnly => (LifecycleSpec => ValidTransitions)
  <1> SUFFICES ASSUME HarmlessOnly PROVE LifecycleSpec => ValidTransitions
      OBVIOUS
  <1>1. LifecycleInv /\ [LifecycleNext]_<<vars, sessionVars>> => [\A r \in RowId : RowStepOK(r)]_rows
    <2> SUFFICES ASSUME LifecycleInv, [LifecycleNext]_<<vars, sessionVars>>
                 PROVE  [\A r \in RowId : RowStepOK(r)]_rows
        OBVIOUS
    <2>1. CASE DispatchNext
        BY <2>1, TransitionStep DEF LifecycleInv, IInv, DispatchNext, Next
    <2>2. CASE S!SessionNext
      <3>1. [Proved!Next]_Proved!vars
          BY <2>2, SameSession DEF Proved!Next
      <3>2. QED
          BY <3>1, SameTable, Proved!TransitionStep DEF LifecycleInv
    <2>3. CASE UNCHANGED <<vars, sessionVars>>
        BY <2>3 DEF vars
    <2>4. QED
        BY <2>1, <2>2, <2>3 DEF LifecycleNext
  <1>2. [\A r \in RowId : RowStepOK(r)]_rows =>
        [\A r \in RowId :
          /\ rows'[r].status # rows[r].status =>
                \/ rows[r].status = "none" /\ rows'[r].status = "scheduled"
                \/ rows'[r].status \in Succ[rows[r].status]
          /\ rows[r].status # "none" =>
                /\ rows'[r].version \in {rows[r].version, rows[r].version + 1}
                /\ rows'[r].status # rows[r].status =>
                      rows'[r].version = rows[r].version + 1]_rows
      BY DEF RowStepOK
  <1>3. QED
      BY <1>1, <1>2, LifecycleInvariance, PTL DEF LifecycleSpec, ValidTransitions

(* Session steps cancel no row that somebody is about to call, and leave   *)
(* every snapshot of a user operation either current or outdated.          *)
LEMMA CancelSessionStep ==
    ASSUME LifecycleInv, CancelInv, IInv', Proved!SessionNext, UNCHANGED dispatchVars
    PROVE  CancelInv'
  <1>1. /\ RowsOK /\ IInv
        /\ UNCHANGED disp /\ UNCHANGED task /\ UNCHANGED user
      BY DEF LifecycleInv, IInv, TypeOK, dispatchVars
  <1>2. \A r \in RowId : RowKept(r) \/ RowGoesOn(r) \/ RowInserted(r)
      BY SessionRows DEF SessionRow, Retried
  <1>3. ASSUME NEW u \in User PROVE HasRead(u)'
    <2>1. CASE user[u].pc \notin {"cancel", "write"}
        BY <1>1, <2>1 DEF HasRead
    <2>2. CASE user[u].pc \in {"cancel", "write"}
      <3>1. PICK r \in RowId : r = user[u].row
          BY <2>2 DEF IInv, TypeOK, UserOK, LifecycleInv
      <3>2. /\ user[u].op \in Ops /\ user[u].snap.status \in Eligible(user[u].op)
            /\ rows[r].status # "none"
            /\ user[u].snap.version <= rows[r].version
            /\ user[u].snap.version = rows[r].version => user[u].snap.status = rows[r].status
          BY <2>2, <3>1 DEF CancelInv, HasRead
      <3>3. user[u].snap.version \in Nat /\ rows[r].version \in Nat
          BY <1>1 DEF IInv, TypeOK, UserOK, UserRec, RowsOK, Row
      <3>4. /\ rows'[r].status # "none"
            /\ user[u].snap.version <= rows'[r].version
            /\ user[u].snap.version = rows'[r].version => user[u].snap.status = rows'[r].status
        <4>1. CASE RowKept(r)
            BY <3>2, <4>1 DEF RowKept
        <4>2. CASE RowGoesOn(r)
            BY <3>2, <3>3, <4>2 DEF RowGoesOn, Terminal
        <4>3. QED
            BY <1>2, <3>2, <4>1, <4>2 DEF RowInserted
      <3>5. QED
          BY <1>1, <3>1, <3>2, <3>4 DEF HasRead
    <2>3. QED
        BY <2>1, <2>2
  <1>4. ASSUME NEW r \in RowId, rows'[r].status = "cancelled"
        PROVE  /\ \A t \in TaskId : ~PendingTask(t, r)'
               /\ \A d \in Dispatcher : ~Publishing(d, r)'
    <2>1. /\ \A t \in TaskId : ~PendingTask(t, r)
          /\ \A d \in Dispatcher : ~Publishing(d, r)
      <3>1. CASE rows[r].status = "cancelled"
          BY <3>1 DEF CancelInv, CancelledIsFree
      <3>2. CASE rows[r].status \in {"ringing", "in_progress"}
          BY <1>1, <3>2 DEF IInv, HeldRowStatus
      <3>3. QED
          BY <1>2, <1>4, <3>1, <3>2 DEF RowKept, RowGoesOn, RowInserted
    <2>2. QED
        BY <1>1, <2>1 DEF PendingTask, Publishing
  <1>5. QED
      BY <1>3, <1>4 DEF CancelInv, CancelledIsFree

(* Nor does anything a live call does bring a call to an entry that has    *)
(* been cancelled or skipped.                                              *)
THEOREM NoneAfterCancelLive ==
    HarmlessOnly /\ NoReplacement => (LifecycleSpec => NoCallAfterCancel)
  <1> SUFFICES ASSUME HarmlessOnly, NoReplacement PROVE LifecycleSpec => NoCallAfterCancel
      OBVIOUS
  <1> DEFINE Quiet == \A s \in Sid : calls'[s].row # calls[s].row
                         => rows[calls'[s].row].status \notin {"cancelled", "skipped"}
  <1>1. LifecycleInit => CancelInv
    <2> SUFFICES ASSUME LifecycleInit PROVE CancelInv
        OBVIOUS
    <2>1. LifecycleInv
        BY InitLifecycle
    <2>2. ASSUME NEW u \in User PROVE HasRead(u)
        BY DEF LifecycleInit, IdleUser, HasRead
    <2>3. CancelledIsFree
        BY DEF LifecycleInit, IdleDisp, UnusedTask, CancelledIsFree, PendingTask, Publishing
    <2>4. QED
        BY <2>1, <2>2, <2>3 DEF LifecycleInv, CancelInv
  <1>2. LifecycleInv /\ LifecycleInv' /\ CancelInv /\ [LifecycleNext]_<<vars, sessionVars>>
           => CancelInv' /\ [Quiet]_vars
    <2> SUFFICES ASSUME LifecycleInv, LifecycleInv', CancelInv,
                        [LifecycleNext]_<<vars, sessionVars>>
                 PROVE  CancelInv' /\ [Quiet]_vars
        OBVIOUS
    <2>1. CASE [Next]_vars
        BY <2>1, CancelStep, CallsForDispatching
    <2>2. CASE S!SessionNext /\ UNCHANGED dispatchVars
      <3>1. Proved!SessionNext
          BY <2>2, SameSession
      <3>2. CancelInv'
          BY <2>2, <3>1, CancelSessionStep DEF LifecycleInv
      <3>3. Quiet
          BY <3>1, SessionCalls DEF CallKept
      <3>4. QED
          BY <3>2, <3>3
    <2>3. QED
        BY <2>1, <2>2 DEF LifecycleNext, DispatchNext, Next, vars, sessionVars
  <1>3. QED
      BY <1>1, <1>2, LifecycleInvariance, PTL DEF LifecycleSpec, NoCallAfterCancel
=============================================================================
