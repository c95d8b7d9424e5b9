---------------------------- MODULE CallLog_proofs ----------------------------
(***************************************************************************)
(* Facts about the call_logs table and its one status update, which the    *)
(* proofs about dispatching and about live calls rest on.                  *)
(***************************************************************************)
EXTENDS CallLog, TLAPS

-----------------------------------------------------------------------------
(* Facts about the operators of CallLog.                                   *)

LEMMA StatusSet ==
    Status = {"scheduled", "dispatching", "ringing", "in_progress", "completed",
              "missed", "deferred", "cancelled", "skipped"}
  BY DEF Status, Succ

LEMMA SuccTable ==
    /\ \A st \in Status : Succ[st] \subseteq Status
    /\ {"dispatching", "ringing", "cancelled", "skipped"} \subseteq Succ["scheduled"]
    /\ {"scheduled", "ringing", "missed", "cancelled"} \subseteq Succ["dispatching"]
    /\ \A st \in Status : "dispatching" \in Succ[st] => st = "scheduled"
    /\ \A st \in Status : "scheduled" \in Succ[st] => st = "dispatching"
    /\ \A st \in Status : "skipped" \in Succ[st] => st = "scheduled"
    /\ \A st \in Terminal : Succ[st] = {}
  <1>1. Succ["scheduled"] = {"dispatching", "ringing", "missed", "cancelled",
                             "skipped", "deferred"}
      BY DEF Succ
  <1>2. Succ["dispatching"] = {"ringing", "scheduled", "missed", "cancelled"}
      BY DEF Succ
  <1>3. Succ["ringing"] = {"in_progress", "missed", "cancelled"}
      BY DEF Succ
  <1>4. Succ["in_progress"] = {"completed", "missed", "deferred"}
      BY DEF Succ
  <1>5. \A st \in {"completed", "missed", "deferred", "cancelled", "skipped"} : Succ[st] = {}
      BY DEF Succ
  <1>6. QED
      BY <1>1, <1>2, <1>3, <1>4, <1>5, StatusSet DEF Terminal

(* Updates of one column keep a row a row. *)
LEMMA ColumnUpdate ==
    ASSUME NEW q \in Row
    PROVE  /\ \A to \in Status : [q EXCEPT !.status = to] \in Row
           /\ \A n \in Nat : [q EXCEPT !.version = n] \in Row
           /\ \A b \in BOOLEAN : [q EXCEPT !.due = b] \in Row
           /\ \A b \in BOOLEAN : [q EXCEPT !.aged = b] \in Row
           /\ \A t \in TaskId \cup {NoTask} : [q EXCEPT !.task = t] \in Row
           /\ \A s \in Sid \cup {NoSid} : [q EXCEPT !.sid = s] \in Row
           /\ \A n \in Nat : [q EXCEPT !.seq = n] \in Row
           /\ \A n \in Nat : [q EXCEPT !.attempt = n] \in Row
           /\ \A n \in Nat : /\ [q EXCEPT !.attempt = n].sid = q.sid
                             /\ [q EXCEPT !.attempt = n].parent = q.parent
           /\ q.version \in Nat
  BY DEF Row

(* The row a move writes. *)
LEMMA MovedRow ==
    ASSUME RowsOK, NEW r \in RowId, NEW to \in Status
    PROVE  /\ Moved(r, to) \in Row
           /\ Moved(r, to).status = to
           /\ Moved(r, to).version = rows[r].version + 1
           /\ Moved(r, to).aged = FALSE
           /\ Moved(r, to).sid = rows[r].sid
           /\ Moved(r, to).attempt = rows[r].attempt
           /\ Moved(r, to).parent = rows[r].parent
  <1> DEFINE q == rows[r]
             q1 == [q EXCEPT !.status = to]
             q2 == [q1 EXCEPT !.version = q.version + 1]
             q3 == [q2 EXCEPT !.aged = FALSE]
  <1>1. q \in Row
      BY DEF RowsOK
  <1>2. q1 \in Row
      BY <1>1, ColumnUpdate
  <1>3. q.version + 1 \in Nat
      BY <1>1, ColumnUpdate
  <1>4. q2 \in Row
      BY <1>2, <1>3, ColumnUpdate
  <1>5. q3 \in Row
      BY <1>4, ColumnUpdate
  <1>6. Moved(r, to) = q3
      BY DEF Moved
  <1>7. /\ q3.status = to
        /\ q3.version = rows[r].version + 1
        /\ q3.aged = FALSE
        /\ q3.sid = rows[r].sid
        /\ q3.attempt = rows[r].attempt
        /\ q3.parent = rows[r].parent
      BY <1>1 DEF Row
  <1>8. QED
      BY <1>5, <1>6, <1>7

LEMMA FreshRowIsRow == FreshRow \in Row /\ NoneRow \in Row
  BY StatusSet DEF FreshRow, NoneRow, Row

LEMMA FreshRowIs ==
    /\ FreshRow.status = "scheduled" /\ FreshRow.sid = NoSid /\ FreshRow.parent = NoRow
    /\ NoneRow.status = "none" /\ NoneRow.sid = NoSid /\ NoneRow.parent = NoRow
  BY DEF FreshRow, NoneRow

(* Every row update of the protocol leaves a table of rows. *)
LEMMA RowsUpdate ==
    ASSUME RowsOK, NEW r \in RowId, NEW q \in Row
    PROVE  [rows EXCEPT ![r] = q] \in [RowId -> Row]
  BY DEF RowsOK

LEMMA TryMoveType ==
    ASSUME RowsOK, NEW r \in RowId, NEW to \in Status, NEW v, TryMove(r, v, to)
    PROVE  RowsOK'
  BY MovedRow, RowsUpdate DEF RowsOK, TryMove

LEMMA PlaceCallType ==
    ASSUME CallsOK, NEW s \in Sid, NEW r \in RowId, PlaceCall(r, s)
    PROVE  CallsOK'
  BY DEF CallsOK, PlaceCall, Call, Phase

LEMMA HangUpType ==
    ASSUME CallsOK, NEW s \in Sid, calls' = HangUp(s)
    PROVE  CallsOK'
  BY DEF CallsOK, HangUp, Call

-----------------------------------------------------------------------------
(* Moves and the version fence.                                            *)

(* What ValidTransitions says of one row in one step. *)
RowStepOK(r) ==
    /\ rows'[r].status # rows[r].status =>
          \/ rows[r].status = "none" /\ rows'[r].status = "scheduled"
          \/ rows'[r].status \in Succ[rows[r].status]
    /\ rows[r].status # "none" =>
          /\ rows'[r].version \in {rows[r].version, rows[r].version + 1}
          /\ rows'[r].status # rows[r].status => rows'[r].version = rows[r].version + 1

LEMMA StayOK == \A r \in RowId : rows'[r] = rows[r] => RowStepOK(r)
  BY DEF RowStepOK

LEMMA MoveOK ==
    ASSUME RowsOK, NEW r \in RowId, NEW to \in Status,
           to \in Succ[rows[r].status],
           rows' = [rows EXCEPT ![r] = Moved(r, to)]
    PROVE  \A x \in RowId : RowStepOK(x)
  <1>1. rows'[r].status = to /\ rows'[r].version = rows[r].version + 1
      BY MovedRow DEF RowsOK
  <1>2. RowStepOK(r)
      BY <1>1 DEF RowStepOK
  <1>3. \A x \in RowId : x # r => rows'[x] = rows[x]
      BY DEF RowsOK
  <1>4. QED
      BY <1>2, <1>3, StayOK

LEMMA TryMoveOK ==
    ASSUME RowsOK, NEW r \in RowId, NEW to \in Status, NEW v, TryMove(r, v, to)
    PROVE  \A x \in RowId : RowStepOK(x)
  BY MoveOK, StayOK DEF TryMove, CanMove
=============================================================================
