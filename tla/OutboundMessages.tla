-------------------------- MODULE OutboundMessages --------------------------
(***************************************************************************)
(* app/services/outbound_message_service.py: DB-backed deduplication of    *)
(* proactive WhatsApp sends (recap, check-in, weekly summary, draft        *)
(* review, missed-call encouragement).                                     *)
(*                                                                         *)
(* One row per dedup key in outbound_messages; one ATTEMPT per execution   *)
(* of send_template_dedup / send_freeform_dedup.  The random claim_token   *)
(* of an execution is the attempt itself (uuid4 tokens never collide).     *)
(* Every helper of the service commits on its own, so each is one step and *)
(* other workers interleave between any two.  A template is a message of   *)
(* one chunk; a free-form body is split by split_message into Chunks[k]    *)
(* chunks (none when the body is empty).                                   *)
(*                                                                         *)
(* Time is the flag `stale`: created_at lies more than CLAIM_TTL_SECONDS   *)
(* in the past.  What the deployment guarantees about time and crashes is  *)
(* in two constants, so that what the protocol gives unconditionally and   *)
(* what it gives only under an assumption are stated separately.           *)
(***************************************************************************)
EXTENDS Naturals, FiniteSets

CONSTANTS
    Key,            \* dedup keys
    Attempt,        \* executions of a dedup send; also their claim tokens
    NoAttempt,      \* token of a row that does not exist
    NoKey,          \* key of an attempt that has not been dispatched
    Chunks,         \* Chunks[k]: Twilio messages that make up the body of k
    CrashPoints,    \* program points at which a worker may die
    Covered         \* points a live worker leaves before its claim turns stale

(* Program points of an attempt between taking the task and returning.     *)
CallPC == {"calling", "accepted", "partial", "ambiguous", "rejected"}
LivePC == {"queued", "conflict", "claimed"} \cup CallPC
PC     == LivePC \cup {"unused", "done", "refused", "crashed", "requeued", "lost"}

ASSUME OutboundAssumption ==
    /\ NoAttempt \notin Attempt
    /\ NoKey \notin Key
    /\ Chunks \in [Key -> Nat]
    /\ CrashPoints \subseteq LivePC
    /\ Covered \subseteq LivePC

VARIABLES
    rows,       \* rows[k]: the outbound_messages row of k
    pc,         \* pc[a]: where the attempt is
    key,        \* key[a]: the dedup key it works for
    sids,       \* sids[a]: message SIDs Twilio returned to it so far
    delivered,  \* delivered[a]: chunks of it Twilio accepted (history)
    stolen      \* attempts whose row was reclaimed while `sending` (history)

vars == <<rows, pc, key, sids, delivered, stolen>>

RowStatus == {"absent", "pending", "sending", "sent", "failed"}
Claimed   == {"pending", "sending"}
Terminal  == {"sent", "failed"}
Row       == [status : RowStatus, token : Attempt \cup {NoAttempt},
              stale : BOOLEAN]
NoRow     == [status |-> "absent", token |-> NoAttempt, stale |-> FALSE]

TypeOK ==
    /\ rows \in [Key -> Row]
    /\ pc \in [Attempt -> PC]
    /\ key \in [Attempt -> Key \cup {NoKey}]
    /\ \A a \in Attempt : key[a] = NoKey <=> pc[a] = "unused"
    /\ sids \in [Attempt -> Nat]
    /\ delivered \in [Attempt -> Nat]
    /\ stolen \subseteq Attempt

Init ==
    /\ rows = [k \in Key |-> NoRow]
    /\ pc = [a \in Attempt |-> "unused"]
    /\ key = [a \in Attempt |-> NoKey]
    /\ sids = [a \in Attempt |-> 0]
    /\ delivered = [a \in Attempt |-> 0]
    /\ stolen = {}

-----------------------------------------------------------------------------
(* The service.                                                            *)

(* The row of a's key still carries a's token and has one of the statuses: *)
(* the WHERE clause of every UPDATE and DELETE below.                      *)
Owns(a, statuses) == /\ rows[key[a]].token = a
                     /\ rows[key[a]].status \in statuses

Goto(a, p) == pc' = [pc EXCEPT ![a] = p]

(* A fresh claim carrying a's token. *)
ClaimOf(a) == [status |-> "pending", token |-> a, stale |-> FALSE]

(* INSERT ... ON CONFLICT DO NOTHING, the fast path of _try_claim. *)
InsertClaim(a) ==
    /\ pc[a] = "queued"
    /\ IF rows[key[a]].status = "absent"
       THEN /\ rows' = [rows EXCEPT ![key[a]] = ClaimOf(a)]
            /\ Goto(a, "claimed")
       ELSE /\ Goto(a, "conflict")
            /\ UNCHANGED rows
    /\ UNCHANGED <<key, sids, delivered, stolen>>

(* Mutants: any old row is taken over; only a pending one is. *)
ReclaimAnyStale(k)  == rows[k].stale
ReclaimOnlyPending(k) == rows[k].status = "pending" /\ rows[k].stale

(* The row the second statement of _try_claim may take over. *)
Reclaimable(k) == rows[k].status \in Claimed /\ rows[k].stale

(* UPDATE ... WHERE status IN (pending, sending) AND created_at < cutoff:  *)
(* a stale claim gets the new token and becomes fresh, otherwise the send  *)
(* is a dedup hit and the attempt returns.                                 *)
ReclaimStale(a) ==
    /\ pc[a] = "conflict"
    /\ IF Reclaimable(key[a])
       THEN /\ rows' = [rows EXCEPT ![key[a]] = ClaimOf(a)]
            /\ stolen' = IF rows[key[a]].status = "sending"
                         THEN stolen \cup {rows[key[a]].token} ELSE stolen
            /\ Goto(a, "claimed")
       ELSE /\ Goto(a, "done")
            /\ UNCHANGED <<rows, stolen>>
    /\ UNCHANGED <<key, sids, delivered>>

(* Mutant: the lock does not look at the token. *)
LockWithoutToken(a) ==
    /\ pc[a] = "claimed"
    /\ IF rows[key[a]].status \in Claimed
       THEN rows' = [rows EXCEPT ![key[a]].status = "sending"] /\ Goto(a, "calling")
       ELSE Goto(a, "done") /\ UNCHANGED rows
    /\ UNCHANGED <<key, sids, delivered, stolen>>

(* _acquire_send_lock: compare-and-swap pending -> sending on the token.   *)
(* created_at is not refreshed, so the row keeps its age.                  *)
AcquireSendLock(a) ==
    /\ pc[a] = "claimed"
    /\ IF Owns(a, {"pending"})
       THEN /\ rows' = [rows EXCEPT ![key[a]].status = "sending"]
            /\ Goto(a, "calling")
       ELSE /\ Goto(a, "done")
            /\ UNCHANGED rows
    /\ UNCHANGED <<key, sids, delivered, stolen>>

(* Twilio accepts the next chunk and its SID reaches the worker. *)
ChunkAccepted(a) ==
    /\ pc[a] = "calling"
    /\ sids[a] < Chunks[key[a]]
    /\ sids' = [sids EXCEPT ![a] = @ + 1]
    /\ delivered' = [delivered EXCEPT ![a] = @ + 1]
    /\ Goto(a, IF sids[a] + 1 = Chunks[key[a]] THEN "accepted" ELSE "calling")
    /\ UNCHANGED <<rows, key, stolen>>

(* A 4xx: nothing was queued.  On a later chunk the earlier ones stay      *)
(* delivered and WhatsAppPartialSendError is raised.                       *)
ChunkRejected(a) ==
    /\ pc[a] = "calling"
    /\ sids[a] < Chunks[key[a]]
    /\ Goto(a, IF sids[a] = 0 THEN "rejected" ELSE "partial")
    /\ UNCHANGED <<rows, key, sids, delivered, stolen>>

(* A 5xx, a timeout, a lost connection: Twilio may have taken the chunk.   *)
ChunkAmbiguous(a) ==
    /\ pc[a] = "calling"
    /\ sids[a] < Chunks[key[a]]
    /\ \E taken \in {0, 1} :
          delivered' = [delivered EXCEPT ![a] = @ + taken]
    /\ Goto(a, IF sids[a] = 0 THEN "ambiguous" ELSE "partial")
    /\ UNCHANGED <<rows, key, sids, stolen>>

(* send_reply returns an empty list for an empty body. *)
EmptyBody(a) ==
    /\ pc[a] = "calling"
    /\ Chunks[key[a]] = 0
    /\ Goto(a, "rejected")
    /\ UNCHANGED <<rows, key, sids, delivered, stolen>>

(* Mutant: the outcome is recorded by key alone. *)
MarkSentByKey(a) ==
    /\ pc[a] \in {"accepted", "partial"}
    /\ rows' = [rows EXCEPT ![key[a]].status = "sent"]
    /\ Goto(a, "done")
    /\ UNCHANGED <<key, sids, delivered, stolen>>

(* _mark_sent, after a full or a partial send. *)
MarkSent(a) ==
    /\ pc[a] \in {"accepted", "partial"}
    /\ rows' = IF Owns(a, {"sending"})
               THEN [rows EXCEPT ![key[a]].status = "sent"] ELSE rows
    /\ Goto(a, "done")
    /\ UNCHANGED <<key, sids, delivered, stolen>>

(* Mutant: an ambiguous failure is treated like a refusal. *)
ReleaseAmbiguous(a) ==
    /\ pc[a] = "ambiguous"
    /\ rows' = IF Owns(a, Claimed) THEN [rows EXCEPT ![key[a]] = NoRow] ELSE rows
    /\ Goto(a, "done")
    /\ UNCHANGED <<key, sids, delivered, stolen>>

(* _mark_failed, after an ambiguous failure of the first chunk. *)
MarkFailed(a) ==
    /\ pc[a] = "ambiguous"
    /\ rows' = IF Owns(a, {"sending"})
               THEN [rows EXCEPT ![key[a]].status = "failed"] ELSE rows
    /\ Goto(a, "done")
    /\ UNCHANGED <<key, sids, delivered, stolen>>

(* _release_claim: DELETE, so that a later task can send the key. *)
ReleaseClaim(a) ==
    /\ pc[a] = "rejected"
    /\ rows' = IF Owns(a, Claimed) THEN [rows EXCEPT ![key[a]] = NoRow] ELSE rows
    /\ Goto(a, "refused")
    /\ UNCHANGED <<key, sids, delivered, stolen>>

-----------------------------------------------------------------------------
(* The environment: task deliveries, time, crashes.                        *)

(* Bound: Attempt is finite, so a new dispatch or a crash may only happen  *)
(* while an unused attempt is left for the redelivery of every crash.      *)
Unused      == {a \in Attempt : pc[a] = "unused"}
Crashed     == {a \in Attempt : pc[a] = "crashed"}
SpareUnused == Cardinality(Unused) > Cardinality(Crashed)

(* A task that sends k is enqueued; the same logical event may be          *)
(* enqueued any number of times (Celery retries, duplicate dispatch).      *)
Dispatch(a, k) ==
    /\ pc[a] = "unused"
    /\ SpareUnused
    /\ Goto(a, "queued")
    /\ key' = [key EXCEPT ![a] = k]
    /\ UNCHANGED <<rows, sids, delivered, stolen>>

(* More than CLAIM_TTL_SECONDS have passed since the row's created_at.     *)
(* While its owner is at a Covered point that has not happened yet.        *)
Expire(k) ==
    /\ rows[k].status \in Claimed
    /\ ~rows[k].stale
    /\ pc[rows[k].token] \notin Covered
    /\ rows' = [rows EXCEPT ![k].stale = TRUE]
    /\ UNCHANGED <<pc, key, sids, delivered, stolen>>

(* The worker dies with all its processes: its session's uncommitted work  *)
(* is lost, and its task stays unacknowledged.                             *)
Crash(a) ==
    /\ pc[a] \in CrashPoints
    /\ SpareUnused
    /\ Goto(a, "crashed")
    /\ UNCHANGED <<rows, key, sids, delivered, stolen>>

(* An execution that nobody hands out again: the handler that sends the    *)
(* encouragement dies, or a child of the worker is killed, whose task is   *)
(* acknowledged (no task_reject_on_worker_lost), or an exception ends it.  *)
(* A retry of the task is a Dispatch, and comes while the claim is fresh.  *)
Lose(a) ==
    /\ pc[a] \in CrashPoints
    /\ Goto(a, "lost")
    /\ UNCHANGED <<rows, key, sids, delivered, stolen>>

(* task_acks_late: the broker hands the unacknowledged task out again      *)
(* after visibility_timeout (7200 s), long after the dead worker's claim   *)
(* (300 s) has gone stale.                                                 *)
Redeliver(a, b) ==
    /\ pc[a] = "crashed"
    /\ pc[b] = "unused"
    /\ Owns(a, Claimed) => rows[key[a]].stale
    /\ pc' = [pc EXCEPT ![a] = "requeued", ![b] = "queued"]
    /\ key' = [key EXCEPT ![b] = key[a]]
    /\ UNCHANGED <<rows, sids, delivered, stolen>>

Work(a) == \/ InsertClaim(a) \/ ReclaimStale(a) \/ AcquireSendLock(a)
           \/ ChunkAccepted(a) \/ ChunkRejected(a) \/ ChunkAmbiguous(a)
           \/ EmptyBody(a) \/ MarkSent(a) \/ MarkFailed(a) \/ ReleaseClaim(a)

Next == \/ \E a \in Attempt : Work(a) \/ Crash(a) \/ Lose(a)
        \/ \E a \in Attempt, k \in Key : Dispatch(a, k)
        \/ \E a, b \in Attempt : Redeliver(a, b)
        \/ \E k \in Key : Expire(k)

Spec == Init /\ [][Next]_vars

(* A worker that is alive takes its next step, time passes, the broker     *)
(* redelivers what was not acknowledged; nobody is obliged to dispatch a   *)
(* task, to crash, or to do anything for an execution that was lost.       *)
Fairness == /\ \A a \in Attempt : WF_vars(Work(a))
            /\ \A a \in Attempt : WF_vars(\E b \in Attempt : Redeliver(a, b))
            /\ \A k \in Key : WF_vars(Expire(k))

LiveSpec == Spec /\ Fairness

-----------------------------------------------------------------------------
(* Properties.                                                             *)

(* The attempts of which Twilio took at least one chunk. *)
Delivered(k) == {a \in Attempt : key[a] = k /\ delivered[a] > 0}

(* What the claim token guarantees with no assumption on time or crashes:  *)
(* if two executions both reached the user for one key, then one of them   *)
(* lost its row to a reclaim while it was calling Twilio.  Dispatching a   *)
(* task twice, a slow worker before the send lock, a lost INSERT race or a *)
(* 4xx release never lead to a second message.                             *)
FencedDelivery ==
    \A k \in Key : \A a, b \in Delivered(k) :
        a # b => a \in stolen \/ b \in stolen

(* A row recorded `sent` was delivered, by the execution whose token it    *)
(* carries: a stale worker never marks another worker's claim.             *)
SentWasDelivered ==
    \A k \in Key : rows[k].status = "sent" => rows[k].token \in Delivered(k)

(* "at most one message is sent per logical event": what the module's      *)
(* docstring promises (outbound_message_service.py:27).                    *)
AtMostOneMessage == \A k \in Key : Cardinality(Delivered(k)) <= 1

(* sent and failed are final: whatever is redelivered later, the outcome   *)
(* and the token of the worker that produced it stay.                      *)
TerminalRowsFinal ==
    [][\A k \in Key : rows[k].status \in Terminal => rows'[k] = rows[k]]_vars

(* An execution that starts gets its key settled (recorded sent or failed, *)
(* or refused by Twilio and released), unless it finds the fresh claim of  *)
(* a lost one or one more is lost on the way.  So a lost execution costs   *)
(* its own message at most: its claim does not block the key for those     *)
(* that start after the TTL, and one that is redelivered costs nothing.    *)
Refused(k)  == \E a \in Attempt : key[a] = k /\ pc[a] = "refused"
Settled(k)  == rows[k].status \in Terminal \/ Refused(k)
Lost(k)     == {a \in Attempt : key[a] = k /\ pc[a] = "lost"}
Blocked(k)  == /\ rows[k].status \in Claimed /\ ~rows[k].stale
               /\ rows[k].token \in Lost(k)
Starting(k) == ~Blocked(k) /\ \E a \in Attempt : key[a] = k /\ pc[a] = "queued"
EveryDispatchSettles ==
    \A k \in Key : \A n \in 0..Cardinality(Attempt) - 1 :
        Starting(k) /\ Cardinality(Lost(k)) = n
            ~> Settled(k) \/ Cardinality(Lost(k)) > n

(* Under a deployment in which claims outlive their workers and nobody     *)
(* dies while calling Twilio, the service implements AtMostOnceSend.       *)
Promise == INSTANCE AtMostOnceSend WITH
    copies  <- [k \in Key |-> Cardinality(Delivered(k))],
    outcome <- [k \in Key |-> IF rows[k].status \in Terminal
                             THEN rows[k].status ELSE "open"]
ImplementsPromise == Promise!Spec
=============================================================================
