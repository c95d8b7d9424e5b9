# Charu AI: a TLA+ verification project

Charu AI calls its users on the phone at planned times, talks with them about
their goals, and follows up over WhatsApp and Gmail. The program is a FastAPI
service, a set of Celery workers driven by Celery Beat, one PostgreSQL database
and Redis; Twilio places the calls and carries the messages. Nearly everything
that is hard about it happens in the database rows these processes share: a
call log that five kinds of process write, an outbound-message row that stands
between a retried task and a message the user would receive twice, and rows of
drafts, windows, tokens and tasks that requests read, think about and write back.

The project models those protocols in TLA+, checks them with TLC on small
instances, and proves the invariants that matter most with TLAPS for all
instances. Line numbers below refer to `src/app/`.

## 1. Inventory

| Component | State | Operations | Interacts with | Hard because |
|---|---|---|---|---|
| Outbound dedup (`services/outbound_message_service.py`) | `outbound_messages` rows: status, claim token, `created_at` | claim, reclaim, send lock, mark sent / failed, release | Celery tasks, voice API; Twilio | crashes while sending, slow workers, redelivery |
| call_logs state machine (`services/call_log_service.py`) | status, version, times, SID, task id | `update_status`, `update_scheduled_time`, lookups | everything below | optimistic locking across processes |
| Dispatch (`tasks/calls.py`) | the row; messages in Redis | planner inserts, dispatcher, trigger task, stale sweep | Celery, Twilio | at-least-once tasks, partial failures, overlapping runs |
| Call management (`services/call_management_service.py`) | the row | callback, skip, reschedule, cancel | agent and voice tools | races with dispatch and the live call |
| Callbacks and stream (`api/voice.py`, `voice/cleanup.py`, `voice/disconnect.py`) | the row, `last_twilio_sequence_number` | status callback, AMD callback, stream, cleanup, retry | Twilio | three concurrent writers, reordering, loss |
| Planner and windows (`tasks/calls.py`, `services/call_window_service.py`, `services/call_materialization_service.py`) | windows, planned rows | materialise, rematerialise, hard delete | dispatcher | idempotence under a partial unique index |
| Post-call tasks (`voice/cleanup.py`, `tasks/recap.py`, `checkin.py`, `draft_review.py`, `weekly.py`) | Celery messages | recap, check-in, draft review, summary | dedup | long countdowns, status re-checks |
| Email drafts (`services/email_draft_service.py`, `gmail_write_service.py`) | draft rows | create, approve, revise, abandon, expire | WhatsApp webhook, Gmail | send and commit are not atomic |
| Email automation (`services/email_automation_service.py`) | event markers | claim, call or draft, complete | Gmail, call_logs | marker before effect |
| WhatsApp webhook (`api/whatsapp.py`) | processed message ids | insert-first, reply detection, agent | drafts, agent | crash after the marker |
| Google tokens (`api/google_oauth.py`, `services/google_api_wrapper.py`, `ephemeral_token_service.py`) | encrypted tokens, scopes, link tokens | connect, refresh, clear | every Google call | stale writers |
| Identity (`services/user_service.py`) | users | get-or-create, link | webhook, Firebase login | unique constraints under races |
| Tasks and goals (`services/task_service.py`, `goal_service.py`) | rows with a status and its timestamps | save, complete, snooze, reactivate, delete, by title or id | agent, voice tools, dashboard | edits overtake each other |
| Context cache and anti-habituation (`services/call_context_cache.py`, `tasks/prefetch.py`, `services/anti_habituation.py`) | Redis keys; opener, streak and last active date of the user | prefetch, warm, take, write back | dispatch, stream, cleanup | a context outlives what it was read from |
| Scheduling arithmetic (`services/scheduling_helpers.py`) | none | latest first call, jitter, retry fits | planner, callbacks | limits of a window and of a day |
| Agent, voice tools, dashboard | none of their own | begin the operations above | services | several sessions of one user |
| Call timer, pipeline, Google clients | none of their own | I/O | services | external |

What makes each of the modelled components correct is stated by the
properties of section 4. `PROJECT.json` lists the hazards at their lines.

The components fall into four groups that share rows only within the group:
messages sent (dedup), calls made (call_logs, dispatch, callbacks), calls
planned (windows, planner, timing, habits), and the user's data (drafts, webhook,
Google account, identity, automation, tasks). Between groups only identifiers and
finished effects pass: a planned row is handed to the dispatcher, a task to the
dedup service.

## 2. Modules

    AtMostOnceSend  <-- refined by --  OutboundMessages

    CallLog <-- CallDispatch <-- CallLifecycle
            <-- CallSession  <-- (INSTANCE) CallLifecycle

    CallTiming <-- CallPlanning -- INSTANCE --> CallCalendar, CallHabits

    EmailDrafts <-- WhatsAppWebhook <-- (INSTANCE) Services
    CallCalendar, GoogleAccount, UserIdentity, EmailAutomation, TaskList
                                    <-- (INSTANCE) Services

| Proofs | About |
|---|---|
| OutboundMessages_proofs | OutboundMessages, its refinement of AtMostOnceSend |
| CallLog_proofs | operators of CallLog: rows, moves, the version fence |
| CallSession_proofs | CallSession |
| CallLifecycle_proofs | CallDispatch, and CallLifecycle by an instance of CallSession_proofs |
| CallCalendar_proofs | CallCalendar |
| CallPlanning_proofs | CallTiming, CallHabits, and CallCalendar within CallPlanning |
| WhatsAppWebhook_proofs | EmailDrafts and the handlers over it |
| Services_proofs | UserIdentity, TaskList, EmailAutomation, GoogleAccount within Services |

`CallLifecycle` composes components that interact: dispatch and session over one
table. `WhatsAppWebhook` does too: handlers approve and abandon the drafts of
`EmailDrafts` while tools create and revise them. `CallPlanning` and `Services`
put components side by side that share no variable; each behaviour runs one of
them (`part`), because an interleaving of independent parts shows nothing that
each does not show alone.

**OutboundMessages.** `rows[k]` is the row of a dedup key; an *attempt* is one
execution of `send_template_dedup` or `send_freeform_dedup` and is its own claim
token (uuid4 tokens do not collide). Every helper of the service commits by
itself, so each is an action: `InsertClaim` and `ReclaimStale` are the two
statements of `_try_claim`, `AcquireSendLock`, `MarkSent`, `MarkFailed` and
`ReleaseClaim` the helpers of the same name. The Twilio call is one action per
chunk and outcome: accepted, a 4xx, or an ambiguous failure after which the
chunk may or may not have been taken. Time is the flag `stale` (older than
`CLAIM_TTL_SECONDS`). `CrashPoints` and `Covered` say where executions may end and
which program points a live worker leaves before its claim goes stale. An execution
ends in one of two ways. `Crash` is the death of a whole worker, whose task the
broker hands out again (`Redeliver`). `Lose` is an end after which nobody does: of
the FastAPI handler that sends the encouragement for a missed call
(`api/voice.py:828`), of a child process whose task Celery acknowledges
(`celery_app.py:54` has no `task_reject_on_worker_lost`), or by an exception, where
the retry of a task is a `Dispatch` of its own.

**CallLog.** `rows[r]` has the columns the protocols read or write; `due` and
`aged` replace the two clocks (`scheduled_time <= now`, `updated_at` older than
`STALE_DISPATCHING_SECONDS`). `calls[s]` is Twilio's side of the call with SID
`s`. `CanMove`, `Moved` and `TryMove` are `update_status`: the transition must be
in `VALID_TRANSITIONS` and the version the one that was read.

**CallDispatch.** A dispatcher run is `SelectDue`, then for each row `ReadFresh`,
`Claim`, `Publish` (or `PublishFails` and `Revert`) and `StoreTaskId`; a task is
`TaskBegin`, the Twilio request (`CallPlaced`, `TwilioError`, `CallRefused`) and
the recording update (`MarkRinging`, `SettleError`); `Sweep` is
`stale_dispatching_sweep`. A user operation is `UserRead`, `TwoLayerCancel` and
`UserWrite`; cancelling all calls of a day is one operation per row, all of which
may be read before the first is written. The reset of `updated_at` when the task
id is stored is the work of a database trigger in `migrations/`.

**CallSession.** A callback request is a read (`CallbackRead`, `AmdRead`), a write
on the snapshot (`CallbackStoresSeq`, `CallbackInvalid`, `CallbackApply`,
`AmdApply`) and, after a miss, `HandlerFollowsUp`. The stream is `StreamRead` and
`StreamJoin` (`_transition_call_to_in_progress`), `StreamEnds` (early disconnect,
pipeline failure, conversation), `CleanupRead`, `CleanupWrite` and
`StreamFollowsUp`. `Dial` and `Record` stand in for dispatching.

**CallLifecycle.** The dispatch actions of `CallDispatch` and the session actions
of `CallSession` over shared `rows` and `calls`; the stand-ins of either module
are not part of it.

**CallCalendar.** The windows, zone and planned rows of one user. An operation
is a transaction `txn[p]` of at most three steps: a `...Begins` action reads, then
`Change` flushes the settings and deletes rows (locks held, nothing visible), then
a `...Commits` action inserts and commits, all on what was read first.
`PlannerBegins`, `SweepBegins` and `PlanCommits` are `_run_daily_planner` and
`_run_catchup_sweep`; `SaveBegins`, `UpdateBegins`, `RemoveBegins` are the window
tools and endpoints, `RematerializeAgain` the second rematerialisation every one
of them runs in a transaction of its own; `OnboardBegins`/`OnboardCommits` is
`complete_onboarding`, `ZoneBegins`/`ZoneCommits` the agent's change of time zone
and `DashboardZone` the dashboard's. `UserDrops`, `UserMoves` and `Dial` are skip,
reschedule and the dispatcher's claim. The unique index on planned rows is in
`Free` (an insert that meets a row is skipped) and `Commit` (it waits for an
uncommitted one). A window is its state and one time: start and end only decide
that time.

**CallTiming.** One call and its retries in seconds: `Plan` chooses a jittered
time, `Move` reschedules, `Edit` changes the window under it, `Dial`, `Answer` and
`Miss` (`handle_missed_call` with `_retry_fits_in_window`) each come with a delay.

**CallHabits.** `cache[c]` is the context in Redis of a call at its time; the
prefetch task (`PrefetchReads`, `PrefetchStores`), the warm-up of
`trigger_call_task` (`WarmReads`, `WarmStores`) and the stream (`PickUp`) each
prepare or take one, and `CleanupLoads`/`CleanupWrites` write opener and streak
back, only in the columns that differ. A call whose stream is over is another one
of the user's from then on, with a key of its own (`Forgotten`).

**EmailDrafts.** `work[p]` is the operation in session p's transaction. Approving
is `ApproveBegins` (read), `ApproveLocks` (the flush that takes the row's lock and
looks for a recorded reply), the call to Gmail with its outcomes (`GmailAccepts`,
`GmailRefuses`, `GmailAnswersLate`, `GmailRetried`) and `ApproveCommits`;
`ApproveDies` is a crash on either side of Gmail. Every other operation reads and,
in a later step, overwrites. `Sweep` is the UPDATE of the Celery task
(`tasks/cleanup.py:68`), which Beat runs; the service has a method of the same purpose
that only tests call.

**WhatsAppWebhook.** `Receive` commits the marker; `ReadsCheckin`, `TakesCheckin`,
`Decides` and `AsksAgent` are the order in which the webhook looks at a message;
`ReadsMapping` to `AdoptsMapping` are `_resolve_session`; `Answers` ends the agent's
run. `lock` is the check-in's row as this transaction has flushed it, which a commit
or a rollback inside `_resolve_session` ends; `answer` is that the message was taken
for the answer, which stands until the request is over. `answers` counts by the
second. The ADK session store, the check-in task and the agent are external.

**GoogleAccount.** The row's scopes and tokens, each token the number of the
consent it came from. `LinkVisited`..`CallbackCommits` is the OAuth flow,
`Disconnect...` the dashboard, `CallRefreshed` and `CallRefused`/`CallClears` what
`google_api_call` does to the row.

**UserIdentity.** `owner[ph]` is the row of a phone; `Inserts`, `Links`, `Rereads`
and `Compares` are the branches of `ensure_from_firebase`, conflicts included.

**EmailAutomation.** `Checks` (score, quiet hours, limits), `Claims` (the event
marker), the action (`SavesTask`, `CreatesCall`, `CallConflicts`), `Completes` or
`Fails`, and `Dies` anywhere between.

**TaskList.** Each operation reads a row and later writes the columns that differ
(`Merged`): the operators `Completed`, `SnoozedById`, ... say what it makes of it.

## 3. Assumptions and bounds

*Faults.* `CallDispatch` separates harmless faults, which lose work but no
knowledge about a call, from costly ones: a publish or Twilio request that fails
after it took effect, a task that dies between placing a call and recording it,
a redelivery by the broker, work slower than the ten-minute sweep. The code has
no defence against the costly ones (there is no idempotency key on
`calls.create`), so the safety properties are stated for the harmless faults
and the liveness property for all. `CallSession` names its faults the same way.
`MaxFaults` bounds how many happen in one behaviour: one or two are enough for
every single-fault path and, in `DispatchHarmless`, one fault next to every
overlap of two dispatchers and two rows.

*Instances.* Dedup keys with a body of two chunks and, in `OutboundSafeTiming`,
with an empty one, and three or four attempts: an owner, a thief and a redelivery,
and one more. One or two rows,
two overlapping dispatchers, three task messages: a claim, a second claim after a
revert, and a third. One call with two concurrent callback requests, its stream
and ids for two retries: the follow-up of a miss is what could go wrong twice.
`LifecycleChain` lets a second and a third attempt run; it has two named action
constraints in `MCCallLifecycle`: a retry becomes due when its parent's call is
over and nothing of it is pending (ten minutes lie between them), and the user cancels only in a
chain that starts at its last attempt. The one user operation of this run is
replacement, which cancels in every state any operation cancels in. A chain
starts at the second or the third of its three attempts; the one from the first
repeats the same steps and is not itself explored. No faults happen in this run,
and a call's status callbacks are served in order: faults and reordering are the
subject of the runs of the two parts, `OneFollowUpPerMiss` above all.

`Calendar`: a day of two hours, a clock that runs to three and the zones 0 and 1,
so that midnight comes early or late; a user who starts before onboarding without
windows or after it with them (`UserSpec`), the other starts being an edit away;
one window type, because rows of two
types never meet except in a change of zone; two editing sessions with two
operations, beside planner and sweep, so that any two transactions overlap.
`MaxFails` is 0 there: a transaction that dies has no effect, which only liveness
can notice; `Fail` still ends transactions in deadlock, and `Services` lets one
die at will. The windows of `CallTiming` are one of the least width, one that a
call and two retries just fill, and one that ends with the day; the delays are
none and 400 seconds, more than the longest talk. Two calls under
way at a time, each followed by others, a prefetch task, two openers, and two days
after the possible day of an earlier call: a context can be prepared, made stale by
the other call, and taken before or after midnight. The constraint `Uncrossed` ends
a behaviour where two cleanups have overtaken each other, after which nothing is
claimed of streak or opener.
`Mail`: two drafts of one thread, so that a second reply is possible; two handlers
and a tool session; one misleading fault and one lost session. `Services`: two
threads and two sweeps, so that the daily cap of one can be passed; three requests
on two phones and two uids; two sessions on one task; two connection visits, two
consents, one API call and the disconnection of one service after the other.

*Symmetry* is used for attempts, dispatchers, tasks, SIDs, users, handlers and
retry ids, for editing sessions, messages and webhook handlers, never in a run with a
liveness property, and not for dedup keys, whose bodies differ.

*Fairness.* `OutboundMessages`: a live worker takes its next step, time passes,
and the broker hands out again what was never acknowledged (`task_acks_late`, with
a visibility timeout longer than the claim TTL). That is assumed of `Crash` only:
after `Lose` nobody has to do anything. `CallDispatch`: Beat starts the dispatcher every
minute and the sweep every five (`celery_app.py:157-167`), live tasks proceed,
time passes; nobody has to act. `CallSession`: requests and streams are served
and Twilio ends a call (`time_limit` and the ring timeout); nobody has to answer.

`CallCalendar`: Beat starts the sweep every fifteen minutes and a transaction that
has begun goes on; nobody has to edit, the planner need not run at all.
`WhatsAppWebhook`: handlers and transactions proceed, the clock makes a draft
late, and Beat starts the expiry sweep. The sweep alone has strong fairness: its
UPDATE waits for a locked row in PostgreSQL's queue, and later sessions do not keep
passing it.

*Excuses.* Some properties name the accepted causes of an exception in a history
variable (`excused`, `crossed`, `doubt`, `raced`, `unseen`, `stolen`). Each is set
where the code works on what it read earlier, or where an outside party misleads
it; the property then says that nothing else breaks it. The interleaving that sets
an excuse is therefore *not* caught by that property: in `PROJECT.json` such a hazard
has no property and a note instead, or a note on what of it remains excused. `raced`
and `doubt` are counts, so that one cause excuses one exception.

*Deadlock* is not checked: each instance has finitely many attempts, tasks and
SIDs, and stops when they are used up.

## 4. Runs

| Run | Checks | Shows |
|---|---|---|
| OutboundAnyTiming | FencedDelivery, SentWasDelivered, TerminalRowsFinal, EveryDispatchSettles | with nothing assumed, a second message needs a reclaim of a `sending` row; outcomes are true and final; an execution that starts settles its key, or finds the fresh claim of a lost one, or one more is lost |
| OutboundSafeTiming | AtMostOneMessage, ImplementsPromise | if claims outlive live workers and nobody dies while calling Twilio, the service implements AtMostOnceSend |
| DispatchHarmless | AtMostOneCall, CallIsRecorded, ValidTransitions, NoCallAfterCancel | two dispatchers, two rows, one fault, user operations other than replacement |
| DispatchLive | DueIsDialled | every fault, every operation: no due row is forgotten |
| DispatchReplaced | NoCallAfterCancel (violated) | a callback request cancels a `dispatching` row whose task then calls |
| SessionAnyFault | TypeOK, OneFollowUpPerMiss, MissHasCause, ValidTransitions | all races over one call, any one fault |
| SessionLive | EndedCallSettles, MissIsFollowedUp | ordered, lossless callbacks settle a call and follow up a miss |
| LifecycleChain | CallsPerChain, CancelledNeverTalks | a chain never rings more often than it has attempts left; a cancelled call is never in conversation |
| Calendar | StalePlanHasCause, CallsPerDay, DroppedStaysDropped | planner, sweep, edits, zone changes and the end of onboarding overlap: planned rows follow the settings, ring once per slot, and a dropped call stays dropped |
| | DueInWindow, BudgetHolds | every attempt is due in its window; the reserved minutes are enough for all retries and the last talk |
| | StreakEarned, NoRepeat | prefetched contexts never invent a day, nor repeat an opener without one of the named causes |
| CalendarFirstCall | PutOffToTomorrow (violated) | the sweep plans today's call of a user who was told tomorrow |
| Mail | OneReplyPerThread, DroppedIsNotSent, SentIsRecorded | what approvals, edits and abandonments make of the drafts of a thread, whatever the order |
| | CheckinAnsweredOnce, OneConversation | two messages at once, a crash, a lost session: one answer to a check-in and one more per cause, whatever the conversation lookup commits or rolls back; one conversation |
| Services | NoHalfConnection, ClearedForCause | callbacks, disconnection and API calls over one row |
| | LoginOwnsPhone | logins and messages race for phones and uids |
| | ActedOnce, UrgentCallsCapped | overlapping sweeps that die at any commit |
| | StampsMatchStatus | edits by title, by id and by reactivation |
| | DraftSettles, PlannedEventually, ServicesTypeOK | drafts are decided or expire; every active window gets its call of today and tomorrow |

Every module with state has a type invariant. Two are properties of runs (`TypeOK` of
`CallSession`, `ServicesTypeOK`); section 5 proves these and the others' too.

Every property of a passing run has a mutant: a plausible slip in one mapped
definition that TLC must catch.

The two violated runs are findings; the code's own words are quoted in
`PROJECT.json`. Reading and modelling brought up more that no sentence of the
repository decides; it is modelled as it is and recorded here:

*Messages.* An execution that is lost leaves its claim fresh for 300 seconds. A
Celery retry comes after 30 or 60 (`tasks/*.py`), finds the claim, takes it for a duplicate
and ends as a success: the message of a task that fails, on a commit say, between
claim and release is then never sent. A task whose process is killed and the
encouragement after a missed call are not tried again at all. The send lock keeps the age of the claim
(`services/outbound_message_service.py:356`): a worker that was slow *before* the
lock is reclaimed while it sends; `SafeTiming` excludes it. A midday check-in is
stamped after it is sent, so a worker that dies in between leaves it unanswerable.
A weekly summary that runs after local midnight of its week takes the dedup key of
the next. A recap is skipped for good when Twilio's `completed` arrives after the
recap task has looked.

*Calls.* A row rescheduled between the dispatcher's SELECT and its fresh read is
dialled at the old time (`tasks/calls.py:347`). Twilio's `completed` may overtake
the stream's cleanup, and a call that failed in conversation is then recorded
completed, without outcome (`voice/cleanup.py:43`). A redelivered task can place a
second call (fault `task_redelivered`). The sequence number of a call can move
backwards (`api/voice.py:986`, `1055`). The compensation of `schedule_callback`
can write `in_progress` over a call that has ended meanwhile, and a conflict of its
last insert is not compensated.

*Planning.* The dashboard's change of time zone writes the column and plans
nothing anew (`api/dashboard.py:893`), unlike the agent's; it is one of the named
causes of `StalePlanHasCause`. A slot rescheduled away is free for the sweep, which
plans a second call of that day (the `1 +` of `CallsPerDay`). A retry that
falls past midnight is compared with the window's end on the day after
(`api/voice.py:797`), so it is placed in the night. The dashboard does not check
windows for overlap, the tools do. Saving an inactive window with its old times
plans nothing by itself; it relies on its callers' second rematerialisation. An
old prefetch that stores last puts an older context over a newer one. Each cleanup
writes the columns that differ from what it loaded; when two calls end at once
around midnight the row can have the streak of one and the date of the other.

*Mail.* Nothing is ever committed as `approved`. A refusal by Gmail writes
`pending` over a draft that was abandoned meanwhile. A sent but unreported reply
can be approved again (the `doubt` of `OneReplyPerThread`). A handler that loses
the race for a conversation rolls back the check-in mark it had flushed, and a
stale mapping is deleted by the phone, whoever wrote it.

*Account, automation, tasks.* A connection link opens three visits, while its
module speaks of single use (`services/ephemeral_token_service.py:75`).
`include_granted_scopes` brings a disconnected service back with the next consent.
A conflict with an on-demand call leaves the session of the automation sweep
un-rolled-back: the event stays `processing` and the sweep ends. A completed task
brought back by its id keeps its time of completion. Two `save_task` calls at once
save one task twice.

## 5. Proofs

`OutboundMessages_proofs` proves type correctness, `FencedDelivery`,
`SentWasDelivered` and `TerminalRowsFinal` for any keys, attempts, bodies and
crash points, and `AtMostOneMessage` under the assumption `SafeTiming`. The
inductive invariant says, per attempt and program point, what the attempt's token
in the row still means: an attempt between lock and outcome either owns its
`sending` row or is in `stolen`, only attempts past the lock have delivered, and
a terminal row's token is the token of the attempt that delivered (or may have).
Without the middle part neither fencing nor the truth of `sent` is inductive.
Under `SafeTiming` the invariant adds that an attempt inside its window is never
reclaimed, so `stolen` has no member that delivered. `Implements` then proves the
refinement: the initial states map to those of `AtMostOnceSend`, and each step is
a `Deliver`, a `Record` or a stutter, by one lemma for the steps that leave copies
and outcomes alone, one for the chunks and one for the two outcomes. `OneCopy`, that
a key's copies are none or one and that one has an attempt behind it, is what
connects the count of the promise with the set of deliverers.

`CallLifecycle_proofs` proves, of `CallDispatch`, type correctness,
`ValidTransitions` under every fault, and `AtMostOneCall` with `CallIsRecorded`
under harmless faults. The invariant ties each placed call to exactly one holder:
the row that stores its SID or the task that is about to store it. A dispatching
row has at most one engaged dispatcher or task, a row is only `aged` when it has
none, and a version held by a task matches its row as long as the row is
dispatching; the sweep can therefore only release rows without a call. Most steps
take rights away and give none (`Settling`); they share one lemma, `SettlingStep`.
`NoneAfterCancel` proves `NoCallAfterCancel` under harmless faults when no operation
is a replacement (the run `DispatchReplaced` shows that this is needed): a snapshot
that is still at its row's version still tells its status, so an operation that
cancels has found the row scheduled or ringing, and such a row has no holder.

`CallSession_proofs` proves type correctness, `OneFollowUpPerMiss`, `MissHasCause`
and `ValidTransitions` for any number of calls and callbacks, under every fault.
None of the two invariants is inductive. `Placed` says that a row has one call,
that of its SID, and that only ended calls have an outcome; `Heard`, that a callback
on its way or being served is about a call that is as it says; `Streamed`, how far a
call is whose stream is at a given point; `Owing`, that at most one handler or stream
has made a given row a missed one and has yet to follow it up, and that until then the
row has neither retry nor encouragement. A miss passes the version fence once, which
is why one of the racing writers owes the follow-up and the others do not.

The composition keeps both invariants. A session step is a `Settling` step of
dispatching (the row of a call goes on, or a retry is inserted that nobody holds); a
dispatch step starts a call for a row that has none and leaves the calls under way
alone (`DispatchRow`, `DispatchCall`). What either side has to know of the other is
`Linked`: SIDs are stored when dispatching is over, callbacks are served for such rows
only, and a stream that has joined its call has found the row in progress.
`NoTalkAfterCancel` (`CancelledNeverTalks`) follows from the last, because no
transition leads from there to `cancelled`. `ChainsAreShort` (`CallsPerChain`) adds
`Numbered`, that attempts are counted along a chain: a chain is a row, its retry and
its retry's, each called once. `HalvesTogether`, `LifecycleFence` and
`NoneAfterCancelLive` carry the other properties of the halves over to real
dispatching. All are for harmless faults of dispatching and any faults of callbacks
and streams.

`CallPlanning_proofs` proves, of `CallTiming`, type correctness, `DueInWindow` and
`BudgetHolds` for any windows, minutes and delays. The invariant bounds, for the attempt numbered n
of an unedited chain in a wide window, the time it is due by the latest first call
plus n - 1 rounds of ringing and waiting plus the delays so far. That bound, not
the window's end, is what a step preserves: the check that a retry fits then
follows from the buffer, as long as the delays are below the longest talk.

Of `CallHabits` it proves `StreakEarned` and `NoRepeat`. As long as nothing is
crossed, what a context says (in Redis, in a prefetch, in a call) and what a cleanup
has loaded is backed: each day its streak counts had a call, except its own day of a
context, whose call has yet to be talked through; a context that was prepared after the last count opens
unlike it, and every other one is marked old or its call excused. The second part is
what `NoRepeat` needs at the step where a call is picked up, the first what
`StreakEarned` needs when a stale context is written back.

`CallCalendar_proofs` proves the invariant behind `StalePlanHasCause`, `CallsPerDay`
and `DroppedStaysDropped`, for any windows, zones, days and number of editors. Of the
rows it says that a slot has one planned row, that rescheduled rows are numbered by
their move, that the calls of a slot that were dialled are counted, and that a slot
the user dropped keeps its row. Of the transactions (`Agree`) it says what a reviewer
would want to know of read-then-write code: the rows one deletes are planned and no other deletes them
(`GoneOK`); one that is not marked as overlapping a change overlaps none (`Alone`), so
what it read still holds (`Current`); two do not change the same setting (`Exclusive`);
and one that changes settings has deleted every planned row they concern that is not
excused (`Clears`). A planned row is then current or excused by one of the named
causes.

`WhatsAppWebhook_proofs` proves the properties of the run `Mail`. For the drafts, a row
has one lock holder, a thread one row that is active or locked, and a session that is
about to send has no reply of its thread on record: copies with Gmail are then those on
record plus the doubtful ones, plus this one once Gmail has taken it. Folds cannot be
reasoned about, so `OneReplyPerThread` is carried per draft, and the sum over a thread
follows from that its other drafts have none. For the handlers, the
answers given and the requests that are still to give one are together no more than
the causes and the mark, committed or flushed (`CheckinOK`), which no commit or rollback
on a request's way changes: a commit turns a flushed mark into a committed one, and a
rollback is a cause. A session that a handler created and has not
mapped is its own, and a mapping leads to a session unless that was lost.

`Services_proofs` proves `LoginOwnsPhone` from where each request stands: what it has
read of an owner still holds, because an owner that is a login never changes. It proves
`StampsMatchStatus`: what an edit is about to write matches its status if what it read
did, and an edit whose row has changed since then marks the row as crossed when it
writes. It proves `ActedOnce`, because a claimed event has one sweep and no effect yet,
and `UrgentCallsCapped`, because what a sweep counted is below the cap and stays a part
of the calls; `NoHalfConnection` and `ClearedForCause`, because tokens are of consents
that were given, what a callback brings is a whole connection, and a call that was
refused holds a token that is not good any more unless Google erred.

`CallPlanning` and `Services` put components side by side, and what TLC checks are
their `PlanSpec` and `Spec`. The lemmas speak of a component's own steps
(`Habits!Next`, `Tasks!Next`, ...); `IsHabits`, `IsTasks`, ... say that a behaviour of
the composition is one of the component, whose steps are its steps or stutters. Where a
component has a proof module of its own, that module is instantiated as well, and
`SameCalendar`, `SameMail`, `SameSession` and `SameTable` show by expanding both
instances that they define the same.

The theorems assume only what the modules name: `OutboundAssumption`,
`CallLogAssumption`, `DispatchAssumption`, `SessionAssumption`, `LifecycleAssumption`
(that of the session with the lifecycle's constants), `TimingAssumption`,
`CalendarAssumption`, `DraftsAssumption`, `WebhookAssumption`, and `PlanAssumption` and
`ServicesAssumption`, which collect those of the components (`HabitsAssumption`,
`UidAssumption`, `TaskAssumption`, `AutomationAssumption`, `GoogleAssumption`). TLC
evaluates them all in the runs. `HarmlessOnly`, `NoReplacement` and `SafeTiming` are
hypotheses of the theorems that need them, never assumptions of a module.

Only model-checked: liveness (`EveryDispatchSettles`, `DueIsDialled`,
`EndedCallSettles`, `MissIsFollowedUp`, `DraftSettles`, `PlannedEventually`), which
TLAPS 1.4.5 does not reach. Every invariant and action property of a passing run is
stated by a theorem.

## 6. Plan

What could follow, the most valuable first:

1. `OnDemand`: `schedule_callback` in its deferred mode with its compensation, and
   the one-active-on-demand index it shares with the automation.
2. `PostCall`: recap, check-in, weekly summary and draft review over
   `AtMostOnceSend`, with countdowns longer than the visibility timeout.

## 7. Not modelled

The audio pipeline and its two timers, the language-model agent's prompts, the
formatting of templates, the Google clients and the read-only endpoints: I/O and
wording around the services above. AMD verdicts other than a machine only fill a
column. Transcripts and outcomes written by the cleanup are columns no protocol
reads. Database failures inside `update_status` count as a crash of its caller.

`schedule_callback` when it defers the call in progress, and the countdowns and
re-checks of the post-call tasks, are planned (section 6). `CallTiming` leaves out
the days on which the offset of a zone changes: `resolve_local_time` is library
arithmetic on dates. `CallHabits` leaves out the approach, rotated like the opener,
and a change of zone while a context waits. `TaskList` takes the likeness of titles
for equality, `EmailAutomation` the score of an email for a free choice, and
`GoogleAccount` keeps no record of encryption or of the two Redis keys of a link.
