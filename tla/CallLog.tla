------------------------------ MODULE CallLog ------------------------------
(***************************************************************************)
(* The call_logs table and the one way its status is meant to change:      *)
(* CallLogService.update_status, a compare-and-swap on `version` that is   *)
(* validated against VALID_TRANSITIONS (app/services/call_log_service.py). *)
(* The modules about dispatching and about live calls extend this one and  *)
(* share its two variables.                                                *)
(***************************************************************************)
EXTENDS Naturals, FiniteSets

CONSTANTS
    RowId,      \* primary keys a run may use
    Sid,        \* Twilio call SIDs a run may use
    TaskId,     \* Celery ids of trigger_call_task messages
    NoRow, NoSid, NoTask

ASSUME CallLogAssumption ==
    /\ NoRow \notin RowId
    /\ NoSid \notin Sid
    /\ NoTask \notin TaskId

(* VALID_TRANSITIONS. *)
Succ == [scheduled   |-> {"dispatching", "ringing", "missed", "cancelled",
                          "skipped", "deferred"},
         dispatching |-> {"ringing", "scheduled", "missed", "cancelled"},
         ringing     |-> {"in_progress", "missed", "cancelled"},
         in_progress |-> {"completed", "missed", "deferred"},
         completed   |-> {},
         missed      |-> {},
         deferred    |-> {},
         cancelled   |-> {},
         skipped     |-> {}]

Status   == DOMAIN Succ
Terminal == {"completed", "missed", "deferred", "cancelled", "skipped"}

(* Retries after a missed call (scheduling_helpers.MAX_RETRIES). *)
MAX_RETRIES == 2

VARIABLES
    rows,   \* rows[r]: the columns of row r the protocols read or write
    calls   \* calls[s]: the Twilio side of the call with SID s

(* `none` is an id not inserted yet.  due: scheduled_time <= now.  aged:   *)
(* updated_at lies more than STALE_DISPATCHING_SECONDS in the past.  seq:  *)
(* last_twilio_sequence_number + 1 (0 when NULL).  parent: the missed row  *)
(* a retry was made for (attempt_number counts its ancestors).             *)
Row == [status  : Status \cup {"none"},
        version : Nat,
        due     : BOOLEAN,
        aged    : BOOLEAN,
        task    : TaskId \cup {NoTask},
        sid     : Sid \cup {NoSid},
        seq     : Nat,
        attempt : Nat,
        parent  : RowId \cup {NoRow}]

NoneRow == [status |-> "none", version |-> 0, due |-> FALSE, aged |-> FALSE,
            task |-> NoTask, sid |-> NoSid, seq |-> 0, attempt |-> 0,
            parent |-> NoRow]

(* A row as create_call_log and the planner insert it. *)
FreshRow == [NoneRow EXCEPT !.status = "scheduled", !.version = 1, !.attempt = 1]

(* Mutant: the occurrence kind is written to the status column. *)
RetryRowKind(r) == [FreshRow EXCEPT !.status = "retry", !.attempt = rows[r].attempt + 1,
                                    !.parent = r]

(* A retry of row r (api/voice.py builds the same row in two places). *)
RetryRow(r) == [FreshRow EXCEPT !.attempt = rows[r].attempt + 1, !.parent = r]

(* Twilio's view: which row the call was placed for and how far it is.     *)
(* `hangup` is a call our side asked Twilio to cancel or complete.         *)
Phase == {"none", "queued", "ringing", "answered", "ended"}
Call  == [row : RowId \cup {NoRow}, phase : Phase, hangup : BOOLEAN]
NoCall == [row |-> NoRow, phase |-> "none", hangup |-> FALSE]

RowsOK  == rows \in [RowId -> Row]
CallsOK == /\ calls \in [Sid -> Call]
           /\ \A s \in Sid : calls[s].phase # "none" => calls[s].row \in RowId

-----------------------------------------------------------------------------
(* Mutant: the update does not compare versions. *)
CanMoveUnfenced(r, v, to) == rows[r].status # "none" /\ to \in Succ[rows[r].status]

(* update_status(r, to, expected_version = v): the transition must be      *)
(* valid and the row must still be at version v.                           *)
CanMove(r, v, to) == /\ rows[r].status # "none"
                     /\ to \in Succ[rows[r].status]
                     /\ rows[r].version = v

(* The row that update writes; updated_at becomes now. *)
Moved(r, to) == [rows[r] EXCEPT !.status = to, !.version = @ + 1, !.aged = FALSE]

(* update_status and its failure: StaleVersionError and                    *)
(* InvalidTransitionError leave the row as it is.                          *)
TryMove(r, v, to) ==
    rows' = IF CanMove(r, v, to) THEN [rows EXCEPT ![r] = Moved(r, to)] ELSE rows

(* A call is placed with Twilio for row r under SID s. *)
PlaceCall(r, s) ==
    /\ calls[s].phase = "none"
    /\ calls' = [calls EXCEPT ![s] = [row |-> r, phase |-> "queued", hangup |-> FALSE]]

CallsOf(r) == {s \in Sid : calls[s].row = r}

(* calls(sid).update(status="canceled" / "completed"). *)
HangUp(s) == [calls EXCEPT ![s].hangup = TRUE]

-----------------------------------------------------------------------------
(* The status of a row only ever moves along VALID_TRANSITIONS, and every  *)
(* move takes the version one further: no writer acts on a snapshot that   *)
(* another writer has invalidated.                                         *)
ValidTransitions ==
    [][\A r \in RowId :
          /\ rows'[r].status # rows[r].status =>
                \/ rows[r].status = "none" /\ rows'[r].status = "scheduled"
                \/ rows'[r].status \in Succ[rows[r].status]
          /\ rows[r].status # "none" =>
                /\ rows'[r].version \in {rows[r].version, rows[r].version + 1}
                /\ rows'[r].status # rows[r].status =>
                      rows'[r].version = rows[r].version + 1]_rows
=============================================================================
