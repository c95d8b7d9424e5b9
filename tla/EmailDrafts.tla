---------------------------- MODULE EmailDrafts ----------------------------
(***************************************************************************)
(* Email drafts of one user: email_draft_service.py keeps the draft rows,  *)
(* gmail_write_service.py sends an approved one and records the reply, and *)
(* a sweep abandons what nobody decided.  Approving is one transaction     *)
(* around a slow call to Gmail; it holds the row's lock from its first     *)
(* flush, and `approved` is seen by nobody before it is overwritten.       *)
(*                                                                         *)
(* The other operations read a row, decide, and write it by its id: their  *)
(* write waits for the lock and then overwrites whatever it finds.         *)
(***************************************************************************)
EXTENDS Naturals, Sequences, FiniteSetsExt

CONSTANTS
    Thread,         \* Gmail threads
    Actor,          \* database sessions: webhook handlers, agent and voice tools
    MaxRevisions,   \* MAX_REVISIONS
    MaxDrafts,      \* bound: rows ever created
    MaxFaults       \* bound: crashes and answers of Gmail that mislead

ASSUME DraftsAssumption ==
    /\ Thread # {} /\ IsFiniteSet(Actor)
    /\ MaxRevisions \in Nat /\ MaxDrafts \in Nat /\ MaxFaults \in Nat

VARIABLES
    drafts,     \* email_draft_states, as committed; an id is an index
    replied,    \* sent_replies: threads with a recorded reply
    work,       \* work[p]: the operation in p's transaction
    gmail,      \* gmail[d]: replies Gmail accepted for draft d (external)
    faults,
    doubt,      \* history: those of gmail[d] the service never heard of
    told,       \* history: drafts of which the user read "No email was sent."
    crossed     \* history: drafts overwritten by a decision on a stale status

draftVars == <<drafts, replied, work, gmail, faults, doubt, told, crossed>>
outcome   == <<gmail, faults, doubt>>
decisions == <<told, crossed>>

Id    == 1..MaxDrafts
Draft == [thread : Thread, status : {"pending", "approved", "abandoned", "sent"},
          revision : 0..MaxRevisions, late : BOOLEAN]     \* late: past expires_at
Work  == [op : {"none", "create", "update", "approve", "abandon"},
          pc : {"idle", "read", "sending", "accepted"},
          draft : 0..MaxDrafts, thread : Thread, revision : 0..MaxRevisions,
          seen : {"pending", "approved", "abandoned", "sent"}]

DraftsTypeOK ==
    /\ drafts \in Seq(Draft) /\ Len(drafts) <= MaxDrafts
    /\ replied \subseteq Thread /\ work \in [Actor -> Work]
    /\ gmail \in [Id -> Nat] /\ doubt \in [Id -> Nat] /\ faults \in 0..MaxFaults
    /\ told \subseteq Id /\ crossed \subseteq Id

-----------------------------------------------------------------------------
(* Rows and their locks.                                                   *)

Rows == DOMAIN drafts

(* The statuses of the partial unique index on (user, thread). *)
Active(d) == drafts[d].status \in {"pending", "approved"}

Held(d) == \E p \in Actor : work[p].draft = d /\ work[p].pc \in {"sending", "accepted"}

(* Other active rows of a thread: an insert, or a row that becomes active, *)
(* meets them in the index; it waits for a locked one and fails at others. *)
Rivals(t, d) == {e \in Rows \ {d} : drafts[e].thread = t /\ (Active(e) \/ Held(e))}

ActiveDraft(t) == LET S == {d \in Rows : drafts[d].thread = t /\ Active(d)}
                  IN IF S = {} THEN 0 ELSE Max(S)

Rest == [op |-> "none", pc |-> "idle", draft |-> 0, thread |-> CHOOSE t \in Thread : TRUE,
         revision |-> 0, seen |-> "pending"]

Resting(p) == work[p].pc = "idle"
Reading(p, op) == work[p].op = op /\ work[p].pc = "read"

Start(p, w) == /\ Resting(p)
               /\ work' = [work EXCEPT ![p] = [w EXCEPT !.pc = "read"]]
               /\ UNCHANGED <<drafts, replied, outcome, decisions>>

Finish(p) == work' = [work EXCEPT ![p] = Rest]

Status(d, s) == drafts' = [drafts EXCEPT ![d].status = s]

(* p overwrites d, which is no longer as p read it. *)
Crosses(p, d) == crossed' = IF d \in Rows /\ drafts[d].status # work[p].seen
                            THEN crossed \cup {d} ELSE crossed

-----------------------------------------------------------------------------
(* create_draft and update_draft.                                          *)

CreateBegins(p, t) ==
    /\ Len(drafts) + Cardinality({q \in Actor : work[q].op = "create"}) < MaxDrafts
    /\ Start(p, [Rest EXCEPT !.op = "create", !.thread = t, !.draft = ActiveDraft(t)])

(* The draft it read is abandoned and the new row inserted, in one commit; *)
(* a rival row fails both.                                                 *)
CreateCommits(p) ==
    LET old == work[p].draft
        t   == work[p].thread
        new == [thread |-> t, status |-> "pending", revision |-> 0, late |-> FALSE] IN
    /\ Reading(p, "create")
    /\ ~\E e \in Rivals(t, 0) : Held(e)
    /\ IF Rivals(t, old) = {}
       THEN /\ drafts' = Append([d \in Rows |-> IF d = old
                              THEN [drafts[d] EXCEPT !.status = "abandoned"]
                              ELSE drafts[d]], new)
            /\ Crosses(p, old)
       ELSE UNCHANGED <<drafts, crossed>>
    /\ Finish(p)
    /\ UNCHANGED <<replied, outcome, told>>

(* Mutant: no cap on revisions. *)
UpdateBeginsUncapped(p, d) ==
    /\ drafts[d].status = "pending"
    /\ Start(p, [Rest EXCEPT !.op = "update", !.draft = d, !.revision = drafts[d].revision])

UpdateBegins(p, d) ==
    /\ drafts[d].status = "pending" /\ drafts[d].revision < MaxRevisions
    /\ Start(p, [Rest EXCEPT !.op = "update", !.draft = d, !.revision = drafts[d].revision])

(* The status it writes is the one it read, so the UPDATE leaves it out. *)
UpdateCommits(p) ==
    /\ Reading(p, "update") /\ ~Held(work[p].draft)
    /\ drafts' = [drafts EXCEPT ![work[p].draft].revision = work[p].revision + 1]
    /\ Finish(p)
    /\ UNCHANGED <<replied, outcome, decisions>>

-----------------------------------------------------------------------------
(* approve_draft and, inside its transaction, send_approved_reply.         *)

(* Mutant: a draft may be approved whatever its status. *)
ApproveBeginsAny(p, d) ==
    Start(p, [Rest EXCEPT !.op = "approve", !.draft = d, !.seen = drafts[d].status])

ApproveBegins(p, d) ==
    /\ drafts[d].status = "pending"
    /\ Start(p, [Rest EXCEPT !.op = "approve", !.draft = d])

(* The flush of `approved` takes the row's lock.  An abandoned draft that  *)
(* becomes active again meets its successor in the index and fails.        *)
ApproveFails(p) ==
    LET d == work[p].draft IN
    /\ Reading(p, "approve") /\ ~Active(d)
    /\ Rivals(drafts[d].thread, d) # {} /\ ~\E e \in Rivals(drafts[d].thread, d) : Held(e)
    /\ Finish(p)
    /\ UNCHANGED <<drafts, replied, outcome, decisions>>

(* Mutant: whether the thread has its reply is not asked. *)
ApproveLocksBlindly(p) ==
    LET d == work[p].draft IN
    /\ Reading(p, "approve") /\ ~Held(d)
    /\ Active(d) \/ Rivals(drafts[d].thread, d) = {}
    /\ Crosses(p, d)
    /\ work' = [work EXCEPT ![p].pc = "sending"]
    /\ UNCHANGED <<drafts, replied, outcome, told>>

(* A thread with a recorded reply gets no other: `already_sent`. *)
ApproveLocks(p) ==
    LET d == work[p].draft IN
    /\ Reading(p, "approve") /\ ~Held(d)
    /\ Active(d) \/ Rivals(drafts[d].thread, d) = {}
    /\ Crosses(p, d)
    /\ IF drafts[d].thread \in replied
       THEN Status(d, "sent") /\ Finish(p)
       ELSE work' = [work EXCEPT ![p].pc = "sending"] /\ UNCHANGED drafts
    /\ UNCHANGED <<replied, outcome, told>>

Sending(p) == work[p].pc = "sending"

Accepts(d) == gmail' = [gmail EXCEPT ![d] = @ + 1]

Misleads(d) == /\ faults < MaxFaults /\ faults' = faults + 1
               /\ doubt' = [doubt EXCEPT ![d] = @ + 1]

GmailAccepts(p) ==
    /\ Sending(p) /\ Accepts(work[p].draft)
    /\ work' = [work EXCEPT ![p].pc = "accepted"]
    /\ UNCHANGED <<drafts, replied, faults, doubt, decisions>>

(* Mutant: what google_api_call answered is not looked at. *)
GmailRefusesUnseen(p) ==
    /\ Sending(p) /\ Status(work[p].draft, "sent") /\ Finish(p)
    /\ UNCHANGED <<replied, outcome, decisions>>

(* google_api_call answers with an error: the draft is put back. *)
GmailRefuses(p) ==
    /\ Sending(p) /\ Status(work[p].draft, "pending") /\ Finish(p)
    /\ UNCHANGED <<replied, outcome, decisions>>

(* An error it does not handle, or the end of the process: rolled back.    *)
(* Gmail may have the message all the same.                                *)
ApproveDies(p) ==
    /\ work[p].pc \in {"sending", "accepted"}
    /\ IF Sending(p) THEN UNCHANGED <<faults, doubt>> ELSE Misleads(work[p].draft)
    /\ Finish(p)
    /\ UNCHANGED <<drafts, replied, gmail, decisions>>

(* The send times out, though its thread goes on to deliver the message. *)
GmailAnswersLate(p) ==
    /\ Sending(p) /\ Accepts(work[p].draft) /\ Misleads(work[p].draft)
    /\ Status(work[p].draft, "pending") /\ Finish(p)
    /\ UNCHANGED <<replied, decisions>>

(* A 5xx for a message that was delivered is tried again. *)
GmailRetried(p) ==
    /\ Sending(p) /\ Accepts(work[p].draft) /\ Misleads(work[p].draft)
    /\ UNCHANGED <<drafts, replied, work, decisions>>

(* SentReply and `sent`, in the transaction of the approval. *)
ApproveCommits(p) ==
    /\ work[p].pc = "accepted"
    /\ replied' = replied \cup {drafts[work[p].draft].thread}
    /\ Status(work[p].draft, "sent") /\ Finish(p)
    /\ UNCHANGED <<outcome, decisions>>

-----------------------------------------------------------------------------
(* abandon_draft, and the two ways a draft runs out of time.               *)

AbandonBegins(p, d) == Start(p, [Rest EXCEPT !.op = "abandon", !.draft = d])

AbandonCommits(p) ==
    LET d == work[p].draft IN
    /\ Reading(p, "abandon") /\ ~Held(d)
    /\ Status(d, "abandoned")
    /\ told' = told \cup {d} /\ Crosses(p, d)
    /\ Finish(p)
    /\ UNCHANGED <<replied, outcome>>

(* Two hours after its creation; revisions do not extend it. *)
Expire(d) ==
    /\ ~drafts[d].late
    /\ drafts' = [drafts EXCEPT ![d].late = TRUE]
    /\ UNCHANGED <<replied, work, outcome, decisions>>

(* Mutant: a revised draft is not taken for stale. *)
OverdueUnrevised == {d \in Rows : Active(d) /\ drafts[d].late /\ drafts[d].revision = 0}

Overdue == {d \in Rows : Active(d) /\ drafts[d].late}

(* _run_expire_stale_drafts: one UPDATE, which waits for locked rows. *)
Sweep ==
    /\ Overdue # {} /\ ~\E d \in Overdue : Held(d)
    /\ drafts' = [d \in Rows |-> IF d \in Overdue
                                 THEN [drafts[d] EXCEPT !.status = "abandoned"]
                                 ELSE drafts[d]]
    /\ UNCHANGED <<replied, work, outcome, decisions>>

-----------------------------------------------------------------------------
DraftsInit ==
    /\ drafts = <<>> /\ replied = {} /\ work = [p \in Actor |-> Rest]
    /\ gmail = [d \in Id |-> 0] /\ doubt = [d \in Id |-> 0] /\ faults = 0
    /\ told = {} /\ crossed = {}

(* The steps of a transaction under way, and the sweep. *)
Proceeds(p) ==
    \/ CreateCommits(p) \/ UpdateCommits(p) \/ AbandonCommits(p)
    \/ ApproveFails(p) \/ ApproveLocks(p) \/ ApproveCommits(p) \/ ApproveDies(p)
    \/ GmailAccepts(p) \/ GmailRefuses(p) \/ GmailAnswersLate(p) \/ GmailRetried(p)

Housekeeping == Sweep \/ \E d \in Rows : Expire(d)

(* What the tools of the agent and of a call begin. *)
ToolBegins(p) == \/ \E t \in Thread : CreateBegins(p, t)
                 \/ \E d \in Rows : UpdateBegins(p, d) \/ ApproveBegins(p, d)

-----------------------------------------------------------------------------
(* Properties.                                                             *)

(* A thread gets one reply, whichever of its drafts are approved, by       *)
(* whatever sessions: a second one reaches Gmail only where an earlier     *)
(* delivery was not reported (crash, late answer, error after delivery).   *)
OneReplyPerThread ==
    \A d \in Rows :
        /\ gmail[d] <= 1 + doubt[d]
        /\ \A e \in Rows \ {d} :
               drafts[e].thread = drafts[d].thread /\ gmail[d] > doubt[d]
                   => gmail[e] <= doubt[e]

(* Gmail has no reply made of a draft of which the user was told that no   *)
(* email was sent, unless its delivery was not reported or the decisions   *)
(* to send and to drop it were taken at once, on the same `pending` row.   *)
DroppedIsNotSent == \A d \in told : gmail[d] > doubt[d] => d \in crossed

(* A draft is `sent` only with a reply of its thread on record, and there  *)
(* is a record only of what Gmail accepted and reported.                   *)
SentIsRecorded ==
    /\ \A d \in Rows : drafts[d].status = "sent" => drafts[d].thread \in replied
    /\ \A t \in replied : \E d \in Rows : drafts[d].thread = t /\ gmail[d] > doubt[d]

(* Every draft is sent or abandoned in the end. *)
DraftSettles == \A d \in Id : (d \in Rows /\ Active(d)) ~> (d \in Rows /\ ~Active(d))
=============================================================================
