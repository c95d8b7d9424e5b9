-------------------------- MODULE WhatsAppWebhook --------------------------
(***************************************************************************)
(* Messages of one user, from Twilio's delivery to an answer: whatsapp.py  *)
(* marks a message as processed, then decides, from what the database says *)
(* at that moment, whether it answers a check-in, decides an email draft   *)
(* or goes to the agent; agent_service.py finds the user's conversation.   *)
(* Handlers run side by side, and Twilio delivers a message again when an  *)
(* answer is slow.                                                         *)
(***************************************************************************)
EXTENDS EmailDrafts

CONSTANTS
    Message,        \* WhatsApp messages, by MessageSid
    Handler,        \* requests in progress
    Tool,           \* sessions the tools of agent runs and of calls open
    MaxSessions,    \* bound: agent sessions ever created
    MaxPurges       \* bound: sessions lost by the session store

ASSUME WebhookAssumption ==
    /\ Message # {} /\ Handler \cap Tool = {} /\ Actor = Handler \cup Tool
    /\ MaxSessions \in Nat \ {0} /\ MaxPurges \in Nat

VARIABLES
    marks,      \* processed_messages
    hook,       \* hook[h]: the message h works on, and how far it is
    checkin,    \* the latest check-in: nobody answered, answered
    mapping,    \* current_sessions: the user's conversation, 0 if none
    sessions,   \* conversations of the session store (external)
    purges, made,
    answers,    \* history: runs of the agent that took a message as the answer
    raced       \* history: causes for which it is answered once more

hookVars == <<marks, hook, checkin, mapping, sessions, purges, made, answers, raced>>
vars     == <<draftVars, hookVars>>
store    == <<sessions, purges, made>>
history  == <<answers, raced>>

(* answer: the message is taken as the answer to the check-in, to the end  *)
(* of the request; lock: this transaction has marked the check-in's row.   *)
Hook == [msg : Message, session : 0..MaxSessions, answer : BOOLEAN, lock : BOOLEAN,
         stage : {"idle", "marked", "checkin", "resolve", "heal", "new",
                  "map", "lost", "agent"}]

WebhookTypeOK ==
    /\ DraftsTypeOK
    /\ marks \subseteq Message /\ hook \in [Handler -> Hook]
    /\ checkin \in {"none", "open", "answered"}
    /\ mapping \in 0..MaxSessions /\ sessions \subseteq 1..MaxSessions
    /\ purges \in 0..MaxPurges /\ made \in 0..MaxSessions
    /\ answers \in Nat /\ raced \in Nat

NoMessage == CHOOSE m \in Message : TRUE
Away == [msg |-> NoMessage, session |-> 0, answer |-> FALSE, lock |-> FALSE,
         stage |-> "idle"]

At(h, s)  == hook[h].stage = s
GoTo(h, s) == hook' = [hook EXCEPT ![h].stage = s]

(* 1 if it holds. *)
One(b) == IF b THEN 1 ELSE 0

(* The handler's own transaction ends: the check-in's row with it. *)
Commits(h, r) ==
    /\ hook' = [hook EXCEPT ![h] = [r EXCEPT !.lock = FALSE]]
    /\ checkin' = IF hook[h].lock THEN "answered" ELSE checkin

-----------------------------------------------------------------------------
(* whatsapp_webhook.                                                       *)

(* The marker is inserted and committed first: of two deliveries one gets  *)
(* past its primary key, and the other is dropped.                         *)
Receive(h, m) ==
    /\ At(h, "idle") /\ Resting(h) /\ m \notin marks
    /\ marks' = marks \cup {m}
    /\ hook' = [hook EXCEPT ![h] = [Away EXCEPT !.msg = m, !.stage = "marked"]]
    /\ UNCHANGED <<draftVars, checkin, mapping, store, history>>

Pending == {d \in Rows : drafts[d].status = "pending"}

(* find_pending_checkin comes first, then find_pending_draft. *)
ReadsCheckin(h) ==
    /\ At(h, "marked") /\ checkin = "open" /\ GoTo(h, "checkin")
    /\ UNCHANGED <<draftVars, marks, checkin, mapping, store, history>>

(* The latest pending draft is decided by the words of the message, here   *)
(* and now, in this session.                                               *)
Decides(h) ==
    /\ At(h, "marked") /\ checkin # "open" /\ Pending # {}
    /\ ApproveBegins(h, Max(Pending)) \/ AbandonBegins(h, Max(Pending))
    /\ hook' = [hook EXCEPT ![h] = Away]
    /\ UNCHANGED <<marks, checkin, mapping, store, history>>

(* No draft, or a wish to revise it: the agent is asked. *)
AsksAgent(h) ==
    /\ At(h, "marked") /\ checkin # "open" /\ GoTo(h, "resolve")
    /\ UNCHANGED <<draftVars, marks, checkin, mapping, store, history>>

(* Whatever becomes of its row, the message is an answer from here on.     *)
(* mark_checkin_replied reads the row again and leaves it if it is marked; *)
(* else, or when it is handed the row it had read, its flush waits for a   *)
(* handler that has marked it, and marks it over.                          *)
TakesCheckin(h) ==
    /\ At(h, "checkin")
    /\ \E writes \in BOOLEAN :
          /\ IF writes THEN ~\E g \in Handler : hook[g].lock ELSE checkin = "answered"
          /\ hook' = [hook EXCEPT ![h].answer = TRUE, ![h].lock = writes,
                                  ![h].stage = "resolve"]
    /\ raced' = raced + One(checkin = "answered")
    /\ UNCHANGED <<draftVars, marks, checkin, mapping, store, answers>>

-----------------------------------------------------------------------------
(* AgentService.run: the conversation, then the agent.                     *)

ReadsMapping(h) ==
    /\ At(h, "resolve")
    /\ hook' = [hook EXCEPT ![h].session = mapping,
                            ![h].stage = IF mapping = 0 THEN "new"
                                         ELSE IF mapping \in sessions THEN "agent"
                                         ELSE "heal"]
    /\ UNCHANGED <<draftVars, marks, checkin, mapping, store, history>>

(* The mapping of a lost session is deleted, by its key: the phone. *)
Heals(h) ==
    /\ At(h, "heal")
    /\ mapping' = 0
    /\ Commits(h, [hook[h] EXCEPT !.stage = "new"])
    /\ UNCHANGED <<draftVars, marks, store, history>>

CreatesSession(h) ==
    /\ At(h, "new") /\ made < MaxSessions
    /\ made' = made + 1 /\ sessions' = sessions \cup {made + 1}
    /\ hook' = [hook EXCEPT ![h].session = made + 1, ![h].stage = "map"]
    /\ UNCHANGED <<draftVars, marks, checkin, mapping, purges, history>>

(* Another handler's mapping is in the way: the transaction is rolled back, *)
(* and what it had flushed of a check-in.                                   *)
MapsSession(h) ==
    /\ At(h, "map")
    /\ IF mapping = 0
       THEN /\ mapping' = hook[h].session
            /\ Commits(h, [hook[h] EXCEPT !.stage = "agent"])
            /\ UNCHANGED raced
       ELSE /\ hook' = [hook EXCEPT ![h].stage = "lost", ![h].lock = FALSE]
            /\ raced' = raced + One(hook[h].lock)
            /\ UNCHANGED <<mapping, checkin>>
    /\ UNCHANGED <<draftVars, marks, store, answers>>

(* Mutant: the session just created is kept. *)
KeepsOwn(h) ==
    /\ At(h, "lost") /\ GoTo(h, "agent")
    /\ UNCHANGED <<draftVars, marks, checkin, mapping, store, history>>

(* The other's session is used and the one just created deleted. *)
AdoptsMapping(h) ==
    /\ At(h, "lost")
    /\ hook' = [hook EXCEPT ![h].session = IF mapping = 0 THEN @ ELSE mapping,
                            ![h].stage = "agent"]
    /\ sessions' = sessions \ {hook[h].session}
    /\ UNCHANGED <<draftVars, marks, checkin, mapping, purges, made, history>>

(* Mutant: the agent's end commits nothing of the handler. *)
AnswersUnmarked(h) ==
    /\ At(h, "agent") /\ Resting(h)
    /\ answers' = answers + One(hook[h].answer)
    /\ hook' = [hook EXCEPT ![h] = Away] /\ UNCHANGED checkin
    /\ UNCHANGED <<draftVars, marks, mapping, store, raced>>

(* The reply is collected; touching the mapping commits what was flushed.  *)
Answers(h) ==
    /\ At(h, "agent") /\ Resting(h)
    /\ answers' = answers + One(hook[h].answer)
    /\ IF mapping # 0
       THEN Commits(h, Away) /\ UNCHANGED raced
       ELSE hook' = [hook EXCEPT ![h] = Away] /\ UNCHANGED checkin
            /\ raced' = raced + One(hook[h].lock)
    /\ UNCHANGED <<draftVars, marks, mapping, store>>

(* An exception or the end of the process: 200 to Twilio, or nothing.      *)
HandlerDies(h) ==
    /\ ~At(h, "idle") /\ Resting(h) /\ faults < MaxFaults /\ faults' = faults + 1
    /\ hook' = [hook EXCEPT ![h] = Away]
    /\ UNCHANGED <<drafts, replied, work, gmail, doubt, decisions,
                   marks, checkin, mapping, store, history>>

-----------------------------------------------------------------------------
(* Around it.                                                              *)

CheckinSent ==
    /\ checkin = "none" /\ checkin' = "open"
    /\ UNCHANGED <<draftVars, marks, hook, mapping, store, history>>

SessionLost ==
    /\ purges < MaxPurges /\ purges' = purges + 1
    /\ \E s \in sessions : sessions' = sessions \ {s}
    /\ UNCHANGED <<draftVars, marks, hook, checkin, mapping, made, history>>

Init ==
    /\ DraftsInit
    /\ marks = {} /\ hook = [h \in Handler |-> Away]
    /\ checkin = "none"
    /\ made \in 0..1 /\ mapping = made /\ sessions = 1..made /\ purges = 0
    /\ answers = 0 /\ raced = 0

Handles(h) == \/ ReadsCheckin(h) \/ Decides(h) \/ AsksAgent(h) \/ TakesCheckin(h)
              \/ ReadsMapping(h) \/ Heals(h) \/ CreatesSession(h) \/ MapsSession(h)
              \/ AdoptsMapping(h) \/ Answers(h)

DraftWork(p) == Proceeds(p) /\ UNCHANGED hookVars
Cleans       == Sweep /\ UNCHANGED hookVars
Ages(d)      == Expire(d) /\ UNCHANGED hookVars

Next == \/ \E h \in Handler : \/ \E m \in Message : Receive(h, m)
                              \/ Handles(h) \/ HandlerDies(h)
        \/ \E v \in Tool : ToolBegins(v) /\ UNCHANGED hookVars
        \/ \E p \in Actor : DraftWork(p)
        \/ Cleans \/ \E d \in Rows : Ages(d)
        \/ CheckinSent \/ SessionLost

(* Handlers and transactions proceed, the clock runs, and beat starts the  *)
(* sweep every quarter of an hour; its UPDATE waits for a locked row in    *)
(* PostgreSQL's queue, so later sessions do not keep passing it.           *)
Fairness == /\ \A h \in Handler : WF_vars(Handles(h))
            /\ \A p \in Actor : WF_vars(DraftWork(p))
            /\ SF_vars(Cleans) /\ \A d \in Id : WF_vars(d \in Rows /\ Ages(d))

Spec == Init /\ [][Next]_vars /\ Fairness

-----------------------------------------------------------------------------
(* Properties.                                                             *)

(* One message is answered as the answer to a check-in, and one more for   *)
(* each of these: a message that was read as one before another was done   *)
(* with the row, and a mark that was rolled back or left uncommitted by a  *)
(* race for the conversation.  It does not matter where a commit of the    *)
(* conversation lookup cuts the request in two.                            *)
CheckinAnsweredOnce == answers <= 1 + raced

(* All messages of a user go to the conversation that current_sessions     *)
(* names, unless the session store lost one and two handlers mended it.    *)
OneConversation ==
    \A h \in Handler : At(h, "agent") => hook[h].session = mapping \/ purges > 0
=============================================================================
