----------------------------- MODULE CallSession -----------------------------
(***************************************************************************)
(* A placed call until it is settled and followed up (app/api/voice.py):   *)
(*   - POST /voice/status-callback, Twilio's report of the call's progress,*)
(*   - POST /voice/amd-callback, the answering-machine verdict,            *)
(*   - the WebSocket /voice/stream that carries the conversation, with its *)
(*     early-disconnect detection and post_call_cleanup,                   *)
(*   - the retry row or the WhatsApp encouragement after a missed call.    *)
(* All of them run concurrently in the API process and write the same row  *)
(* through update_status on a snapshot they read in an earlier statement,  *)
(* so each is a read step, a write step and a follow-up step.              *)
(*                                                                         *)
(* AMD verdicts other than a machine only fill the answered_by column and  *)
(* are left out.                                                           *)
(***************************************************************************)
EXTENDS CallLog

CONSTANTS
    Handler,        \* callback requests being served at one time
    Root,           \* rows that exist from the start
    RootAttempts,   \* attempt numbers these may have
    Faults,         \* what goes wrong
    MaxFaults       \* bound: faults in a behaviour

(* reorder: callbacks of a call overtake each other or are served at the   *)
(* same time.  early: one arrives before the task has stored the SID.      *)
(* duplicate, lost: Twilio sends one twice or never gets it through.       *)
(* handler_dies, stream_dies: the API process restarts or an exception     *)
(* ends the request.  retry_refused: the insert of a retry row fails (an   *)
(* active on-demand call violates the unique index).                       *)
SessionFault == {"reorder", "early", "duplicate", "lost", "handler_dies",
                 "stream_dies", "retry_refused"}

ASSUME SessionAssumption ==
    /\ Root \subseteq RowId
    /\ RootAttempts \subseteq 1..(MAX_RETRIES + 1)
    /\ Faults \subseteq SessionFault
    /\ MaxFaults \in Nat

VARIABLES
    net,        \* callbacks Twilio has sent and nobody has taken
    outcome,    \* outcome[s]: final CallStatus of call s (history)
    machines,   \* calls on which a machine was heard (history)
    handler,    \* handler[h]: a status or AMD callback being served
    stream,     \* stream[s]: the WebSocket of call s
    encouraged, \* rows whose miss led to _send_missed_encouragement
    budget      \* faults left (bound)

own  == <<net, outcome, machines, handler, stream, encouraged, budget>>
vars == <<rows, calls, own>>

(* TWILIO_STATUS_MAP; `initiated` maps to no status. *)
Final == {"completed", "busy", "no-answer", "failed", "canceled"}
What  == Final \cup {"initiated", "ringing", "in-progress", "machine"}
InternalStatus(what) ==
    CASE what = "ringing" -> "ringing"
      [] what = "in-progress" -> "in_progress"
      [] what = "completed" -> "completed"
      [] what = "canceled" -> "cancelled"
      [] what \in {"busy", "no-answer", "failed"} -> "missed"
Event == [sid : Sid, what : What, seq : 0..3]

HandlerRec == [pc : {"idle", "seq", "apply", "hangup", "reread", "cas", "missed"},
               ev : Event \cup {NoSid}, row : RowId \cup {NoRow},
               st : Status \cup {"none"}, ver : Nat]
How       == {"none", "early", "failed", "normal"}
StreamRec == [pc : {"none", "open", "join", "talking", "cleanup", "cas", "missed", "done"},
              how : How, st : Status \cup {"none"}, ver : Nat]

Idle     == [pc |-> "idle", ev |-> NoSid, row |-> NoRow, st |-> "none", ver |-> 0]
NoStream == [pc |-> "none", how |-> "none", st |-> "none", ver |-> 0]

TypeOK ==
    /\ RowsOK
    /\ CallsOK
    /\ net \subseteq Event
    /\ outcome \in [Sid -> Final \cup {"none"}]
    /\ machines \subseteq Sid
    /\ handler \in [Handler -> HandlerRec]
    /\ \A h \in Handler : handler[h].pc # "idle" => handler[h].row \in RowId
    /\ stream \in [Sid -> StreamRec]
    /\ encouraged \subseteq RowId
    /\ budget \in Nat

Init ==
    /\ \E a \in [Root -> RootAttempts] :
          rows = [r \in RowId |-> IF r \in Root THEN [FreshRow EXCEPT !.attempt = a[r]]
                                  ELSE NoneRow]
    /\ calls = [s \in Sid |-> NoCall]
    /\ net = {}
    /\ outcome = [s \in Sid |-> "none"]
    /\ machines = {}
    /\ handler = [h \in Handler |-> Idle]
    /\ stream = [s \in Sid |-> NoStream]
    /\ encouraged = {}
    /\ budget = MaxFaults

(* A fault of kind f happens. *)
Fault(f) == f \in Faults /\ budget > 0 /\ budget' = budget - 1

-----------------------------------------------------------------------------
(* Dispatching, reduced to its undisturbed path; CallDispatch has it all.  *)

(* The row is claimed and trigger_call_task places its call. *)
Dial(r, s) ==
    /\ rows[r].status = "scheduled"
    /\ rows' = [rows EXCEPT ![r] = Moved(r, "dispatching")]
    /\ PlaceCall(r, s)
    /\ UNCHANGED own

(* trigger_call_task commits ringing and the SID. *)
Record(s) ==
    LET r == calls[s].row IN
    /\ calls[s].phase # "none"
    /\ rows[r].status = "dispatching"
    /\ rows' = [rows EXCEPT ![r] = [Moved(r, "ringing") EXCEPT !.sid = s]]
    /\ UNCHANGED <<calls, own>>

-----------------------------------------------------------------------------
(* Twilio.  A call is sent callbacks for initiated, ringing, answered and  *)
(* completed, with increasing SequenceNumbers.                             *)

Enter(s, p) == calls' = [calls EXCEPT ![s].phase = p]
Report(s, what, n) == [sid |-> s, what |-> what, seq |-> n]

TwilioRings(s) ==
    /\ calls[s].phase = "queued"
    /\ Enter(s, "ringing")
    /\ net' = net \cup {Report(s, "initiated", 0), Report(s, "ringing", 1)}
    /\ UNCHANGED <<rows, outcome, machines, handler, stream, encouraged, budget>>

(* The callee answers: the TwiML opens the stream, detection starts. *)
TwilioAnswers(s) ==
    /\ calls[s].phase = "ringing"
    /\ Enter(s, "answered")
    /\ net' = net \cup {Report(s, "in-progress", 2)}
    /\ stream' = [stream EXCEPT ![s].pc = "open"]
    /\ UNCHANGED <<rows, outcome, machines, handler, encouraged, budget>>

TwilioHearsMachine(s) ==
    /\ calls[s].phase = "answered"
    /\ s \notin machines
    /\ machines' = machines \cup {s}
    /\ net' = net \cup {Report(s, "machine", 0)}
    /\ UNCHANGED <<rows, calls, outcome, handler, stream, encouraged, budget>>

(* The call is over: it was answered and either side hung up, we cancelled *)
(* it, or nobody answered.                                                 *)
Endings(s) == IF calls[s].phase = "answered" THEN {"completed"}
              ELSE IF calls[s].hangup THEN {"canceled"} ELSE {"busy", "no-answer", "failed"}

TwilioEnds(s) ==
    /\ calls[s].phase \in {"ringing", "answered"}
    /\ Enter(s, "ended")
    /\ \E f \in Endings(s) :
          /\ outcome' = [outcome EXCEPT ![s] = f]
          /\ net' = net \cup {Report(s, f, IF f = "completed" THEN 3 ELSE 2)}
    /\ UNCHANGED <<rows, machines, handler, stream, encouraged, budget>>

Twilio(s) == TwilioRings(s) \/ TwilioAnswers(s) \/ TwilioHearsMachine(s) \/ TwilioEnds(s)

-----------------------------------------------------------------------------
(* POST /voice/status-callback.                                            *)

(* find_by_twilio_sid. *)
Owner(s) == {r \in RowId : rows[r].sid = s}

(* Without `reorder`, the callbacks of a call are served one by one in the *)
(* order of their sequence numbers.                                        *)
InOrder(e) ==
    \/ "reorder" \in Faults
    \/ /\ \A x \in net : x.sid = e.sid /\ x.what # "machine" => e.seq <= x.seq
       /\ \A h \in Handler : handler[h].pc # "idle" /\ handler[h].ev.what # "machine"
                                => handler[h].ev.sid # e.sid

(* The request leaves the network; a duplicate of it may follow. *)
Consume(e) == \/ net' = net \ {e} /\ UNCHANGED budget
              \/ Fault("duplicate") /\ UNCHANGED net

Enters(h, p, e, r) ==
    handler' = [handler EXCEPT ![h] = [pc |-> p, ev |-> e, row |-> r,
                                       st |-> rows[r].status, ver |-> rows[r].version]]
Leaves(h) == handler' = [handler EXCEPT ![h] = Idle]

(* No row has the SID yet: 200, and the callback is forgotten. *)
CallbackUnknown(e) ==
    /\ e \in net
    /\ Owner(e.sid) = {}
    /\ Fault("early")
    /\ net' = net \ {e}
    /\ UNCHANGED <<rows, calls, outcome, machines, handler, stream, encouraged>>

(* Mutant: the next number is taken for the last one. *)
StaleSeqOffByOne(e, r) == e.seq <= rows[r].seq

(* The row is read; a sequence number not above the stored one is stale.   *)
StaleSeq(e, r) == e.seq + 1 <= rows[r].seq

CallbackRead(h, e, r) ==
    /\ handler[h].pc = "idle"
    /\ e \in net
    /\ e.what # "machine"
    /\ InOrder(e)
    /\ r \in Owner(e.sid)
    /\ Consume(e)
    /\ IF StaleSeq(e, r) THEN UNCHANGED handler
       ELSE Enters(h, IF e.what = "initiated" THEN "seq" ELSE "apply", e, r)
    /\ UNCHANGED <<rows, calls, outcome, machines, stream, encouraged>>

(* UPDATE ... SET last_twilio_sequence_number WHERE id. *)
StoreSeq(h) == [rows EXCEPT ![handler[h].row].seq = handler[h].ev.seq + 1]

(* queued and initiated only store the sequence number. *)
CallbackStoresSeq(h) ==
    /\ handler[h].pc = "seq"
    /\ rows' = StoreSeq(h)
    /\ Leaves(h)
    /\ UNCHANGED <<calls, net, outcome, machines, stream, encouraged, budget>>

(* The transition is not valid from the status that was read: the sequence *)
(* number is stored all the same.                                          *)
CallbackInvalid(h) ==
    /\ handler[h].pc = "apply"
    /\ InternalStatus(handler[h].ev.what) \notin Succ[handler[h].st]
    /\ rows' = StoreSeq(h)
    /\ Leaves(h)
    /\ UNCHANGED <<calls, net, outcome, machines, stream, encouraged, budget>>

(* Mutant: the row is updated by its id. *)
CallbackApplyById(h) ==
    LET to == InternalStatus(handler[h].ev.what) IN
    /\ handler[h].pc = "apply"
    /\ to \in Succ[handler[h].st]
    /\ rows' = [rows EXCEPT ![handler[h].row] = Moved(handler[h].row, to)]
    /\ Leaves(h)
    /\ UNCHANGED <<calls, net, outcome, machines, stream, encouraged, budget>>

(* update_status with the version that was read; a stale version drops     *)
(* the callback.                                                           *)
CallbackApply(h) ==
    LET r  == handler[h].row
        to == InternalStatus(handler[h].ev.what)
    IN
    /\ handler[h].pc = "apply"
    /\ to \in Succ[handler[h].st]
    /\ IF CanMove(r, handler[h].ver, to)
       THEN /\ rows' = [rows EXCEPT ![r] = [Moved(r, to) EXCEPT !.seq = handler[h].ev.seq + 1]]
            /\ IF to = "missed" THEN handler' = [handler EXCEPT ![h].pc = "missed"]
               ELSE Leaves(h)
       ELSE UNCHANGED rows /\ Leaves(h)
    /\ UNCHANGED <<calls, net, outcome, machines, stream, encouraged, budget>>

-----------------------------------------------------------------------------
(* What follows a miss: _handle_missed_call_retry, and the same steps in   *)
(* _handle_early_disconnect_retry.                                         *)

(* Mutant: one retry too many. *)
ExhaustedLate(r) == rows[r].attempt > MAX_RETRIES + 1

Exhausted(r) == rows[r].attempt > MAX_RETRIES

(* A retry row in ten minutes' time. *)
Retries(r) ==
    /\ ~Exhausted(r)
    /\ \/ /\ \E q \in RowId : /\ rows[q].status = "none"
                               /\ rows' = [rows EXCEPT ![q] = RetryRow(r)]
          /\ UNCHANGED budget
       \/ Fault("retry_refused") /\ UNCHANGED rows
    /\ UNCHANGED encouraged

(* Out of retries, or the retry would fall outside the call window. *)
Encourages(r) == encouraged' = encouraged \cup {r} /\ UNCHANGED <<rows, budget>>

(* Mutant: the AMD callback passes its own verdict, which is not retried. *)
FollowUpCallStatus(r, what) ==
    IF what \in {"failed", "machine"}
    THEN \/ Exhausted(r) /\ Encourages(r)
         \/ ~Exhausted(r) /\ UNCHANGED <<rows, encouraged, budget>>
    ELSE Retries(r) \/ Encourages(r)

(* `failed` is not retried, and encourages only when retries are exhausted.*)
FollowUp(r, what) ==
    IF what = "failed"
    THEN \/ Exhausted(r) /\ Encourages(r)
         \/ ~Exhausted(r) /\ UNCHANGED <<rows, encouraged, budget>>
    ELSE Retries(r) \/ Encourages(r)

HandlerFollowsUp(h) ==
    /\ handler[h].pc = "missed"
    /\ FollowUp(handler[h].row, handler[h].ev.what)
    /\ Leaves(h)
    /\ UNCHANGED <<calls, net, outcome, machines, stream>>

-----------------------------------------------------------------------------
(* POST /voice/amd-callback with a machine or fax verdict.                 *)

AmdRead(h, e, r) ==
    /\ handler[h].pc = "idle"
    /\ e \in net
    /\ e.what = "machine"
    /\ r \in Owner(e.sid)
    /\ Consume(e)
    /\ Enters(h, "hangup", e, r)
    /\ UNCHANGED <<rows, calls, outcome, machines, stream, encouraged>>

(* calls(sid).update(status="completed"); a failure is only logged. *)
AmdHangsUp(h) ==
    /\ handler[h].pc = "hangup"
    /\ calls' = HangUp(handler[h].ev.sid) \/ UNCHANGED calls
    /\ handler' = [handler EXCEPT ![h].pc = "reread"]
    /\ UNCHANGED <<rows, net, outcome, machines, stream, encouraged, budget>>

(* The row is read again in a new session; nothing to do on a settled one. *)
AmdReread(h) ==
    LET r == handler[h].row IN
    /\ handler[h].pc = "reread"
    /\ IF rows[r].status \in Terminal THEN Leaves(h)
       ELSE Enters(h, "cas", handler[h].ev, r)
    /\ UNCHANGED <<rows, calls, net, outcome, machines, stream, encouraged, budget>>

(* Mutant: a lost race is followed up like a won one. *)
AmdRetriesAnyway(h) ==
    /\ handler[h].pc = "cas"
    /\ TryMove(handler[h].row, handler[h].ver, "missed")
    /\ handler' = [handler EXCEPT ![h].pc = "missed"]
    /\ UNCHANGED <<calls, net, outcome, machines, stream, encouraged, budget>>

AmdApply(h) ==
    LET r == handler[h].row IN
    /\ handler[h].pc = "cas"
    /\ TryMove(r, handler[h].ver, "missed")
    /\ IF CanMove(r, handler[h].ver, "missed")
       THEN handler' = [handler EXCEPT ![h].pc = "missed"] ELSE Leaves(h)
    /\ UNCHANGED <<calls, net, outcome, machines, stream, encouraged, budget>>

-----------------------------------------------------------------------------
(* WebSocket /voice/stream.                                                *)

At(s, p) == stream' = [stream EXCEPT ![s].pc = p]
Snapshot(s, p) == stream' = [stream EXCEPT ![s].pc = p, ![s].st = rows[calls[s].row].status,
                                           ![s].ver = rows[calls[s].row].version]
Closes(s) == stream' = [stream EXCEPT ![s] = [NoStream EXCEPT !.pc = "done", !.how = stream[s].how]]

(* _transition_call_to_in_progress reads the row the token names; the      *)
(* callSid of the stream is not compared with the row's.                   *)
StreamRead(s) ==
    LET st == rows[calls[s].row].status IN
    /\ stream[s].pc = "open"
    /\ \/ st = "in_progress" /\ At(s, "talking")
       \/ st = "ringing" /\ Snapshot(s, "join")
       \/ st \notin {"in_progress", "ringing"} /\ Closes(s)
    /\ UNCHANGED <<rows, calls, net, outcome, machines, handler, encouraged, budget>>

(* Mutant: the stream goes on although it could not move the row. *)
StreamJoinAnyway(s) ==
    /\ stream[s].pc = "join"
    /\ TryMove(calls[s].row, stream[s].ver, "in_progress")
    /\ At(s, "talking")
    /\ UNCHANGED <<calls, net, outcome, machines, handler, encouraged, budget>>

(* ... and moves it; if that fails it may still find it in progress. *)
StreamJoin(s) ==
    LET r == calls[s].row IN
    /\ stream[s].pc = "join"
    /\ TryMove(r, stream[s].ver, "in_progress")
    /\ IF CanMove(r, stream[s].ver, "in_progress") \/ rows[r].status = "in_progress"
       THEN At(s, "talking") ELSE Closes(s)
    /\ UNCHANGED <<calls, net, outcome, machines, handler, encouraged, budget>>

(* The pipeline returns: is_early_disconnect, an error, or a conversation. *)
StreamEnds(s) ==
    /\ stream[s].pc = "talking"
    /\ \E how \in How \ {"none"} :
          stream' = [stream EXCEPT ![s].pc = "cleanup", ![s].how = how]
    /\ UNCHANGED <<rows, calls, net, outcome, machines, handler, encouraged, budget>>

(* The row is read; a failed or a normal end only acts on in_progress. *)
CleanupRead(s) ==
    /\ stream[s].pc = "cleanup"
    /\ IF stream[s].how = "early" \/ rows[calls[s].row].status = "in_progress"
       THEN Snapshot(s, "cas") ELSE Closes(s)
    /\ UNCHANGED <<rows, calls, net, outcome, machines, handler, encouraged, budget>>

(* Mutant: the two outcomes are swapped. *)
CleanupWriteSwapped(s) ==
    /\ stream[s].pc = "cas"
    /\ TryMove(calls[s].row, stream[s].ver,
               IF stream[s].how = "normal" THEN "missed" ELSE "completed")
    /\ Closes(s)
    /\ UNCHANGED <<calls, net, outcome, machines, handler, encouraged, budget>>

(* update_status: completed after a conversation, otherwise missed; only   *)
(* an early disconnect is followed up.                                     *)
CleanupWrite(s) ==
    LET r  == calls[s].row
        to == IF stream[s].how = "normal" THEN "completed" ELSE "missed"
    IN
    /\ stream[s].pc = "cas"
    /\ TryMove(r, stream[s].ver, to)
    /\ IF CanMove(r, stream[s].ver, to) /\ stream[s].how = "early"
       THEN At(s, "missed") ELSE Closes(s)
    /\ UNCHANGED <<calls, net, outcome, machines, handler, encouraged, budget>>

StreamFollowsUp(s) ==
    /\ stream[s].pc = "missed"
    /\ FollowUp(calls[s].row, "early")
    /\ Closes(s)
    /\ UNCHANGED <<calls, net, outcome, machines, handler>>

-----------------------------------------------------------------------------
(* Losses.                                                                 *)

CallbackLost(e) ==
    /\ e \in net
    /\ Fault("lost")
    /\ net' = net \ {e}
    /\ UNCHANGED <<rows, calls, outcome, machines, handler, stream, encouraged>>

HandlerDies(h) ==
    /\ handler[h].pc # "idle"
    /\ Fault("handler_dies")
    /\ Leaves(h)
    /\ UNCHANGED <<rows, calls, net, outcome, machines, stream, encouraged>>

StreamDies(s) ==
    /\ stream[s].pc \notin {"none", "done"}
    /\ Fault("stream_dies")
    /\ Closes(s)
    /\ UNCHANGED <<rows, calls, net, outcome, machines, handler, encouraged>>

-----------------------------------------------------------------------------
HandlerStep(h) ==
    \/ \E e \in net, r \in RowId : CallbackRead(h, e, r) \/ AmdRead(h, e, r)
    \/ CallbackStoresSeq(h) \/ CallbackInvalid(h) \/ CallbackApply(h)
    \/ AmdHangsUp(h) \/ AmdReread(h) \/ AmdApply(h) \/ HandlerFollowsUp(h)

StreamStep(s) == \/ StreamRead(s) \/ StreamJoin(s) \/ StreamEnds(s)
                 \/ CleanupRead(s) \/ CleanupWrite(s) \/ StreamFollowsUp(s)

SessionNext == \/ \E s \in Sid : Twilio(s) \/ StreamStep(s) \/ StreamDies(s)
               \/ \E h \in Handler : HandlerStep(h) \/ HandlerDies(h)
               \/ \E e \in net : CallbackUnknown(e) \/ CallbackLost(e)

Next == \/ \E r \in RowId, s \in Sid : Dial(r, s)
        \/ \E s \in Sid : Record(s)
        \/ SessionNext

Spec == Init /\ [][Next]_vars

(* Handlers and streams run, Twilio reports how a call ends; nobody has to *)
(* answer the phone or to be a machine.                                    *)
Fairness == /\ \A h \in Handler : WF_vars(HandlerStep(h))
            /\ \A s \in Sid : /\ WF_vars(StreamStep(s))
                              /\ WF_vars(Record(s))
                              /\ WF_vars(TwilioRings(s) \/ TwilioEnds(s))

LiveSpec == Spec /\ Fairness

-----------------------------------------------------------------------------
(* Properties.                                                             *)

(* However the status callback, the AMD callback and the stream race for a *)
(* missed call, it is retried at most once, never beyond MAX_RETRIES, and  *)
(* nobody who is being retried is sent the encouragement of a chain that   *)
(* has ended.                                                              *)
OneFollowUpPerMiss ==
    \A r, q \in RowId : rows[q].parent = r =>
        /\ rows[r].status = "missed"
        /\ \A p \in RowId : rows[p].parent = r => p = q
        /\ r \notin encouraged
        /\ rows[q].attempt <= MAX_RETRIES + 1

(* A call is only recorded missed for a reason: nobody picked up, the      *)
(* stream ended early or in an error, or a machine answered.  A reordered  *)
(* or repeated callback never turns a conversation into a miss.            *)
MissHasCause ==
    \A s \in Sid : calls[s].phase # "none" /\ rows[calls[s].row].status = "missed" =>
        \/ outcome[s] \in {"busy", "no-answer", "failed"}
        \/ stream[s].how \in {"early", "failed"}
        \/ s \in machines

(* When callbacks arrive in order and none is lost, the row of a call that *)
(* has ended does not stay ringing or in progress.                         *)
EndedCallSettles ==
    \A r \in RowId, s \in Sid :
        (calls[s].row = r /\ calls[s].phase = "ended") ~> rows[r].status \in Terminal

(* And a call missed because nobody or a machine answered, or because the  *)
(* caller left early, leads to a retry or to an encouragement.             *)
WorthFollowing(r, s) == /\ calls[s].row = r
                        /\ rows[r].status = "missed"
                        /\ \/ outcome[s] \in {"busy", "no-answer"}
                           \/ stream[s].how = "early"
                           \/ s \in machines /\ stream[s].how # "failed"
FollowedUp(r) == r \in encouraged \/ \E q \in RowId : rows[q].parent = r
MissIsFollowedUp ==
    \A r \in RowId, s \in Sid : WorthFollowing(r, s) ~> FollowedUp(r)
=============================================================================
