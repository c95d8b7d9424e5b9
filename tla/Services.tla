------------------------------ MODULE Services ------------------------------
(***************************************************************************)
(* The services that share no table, each under the load of a single user: *)
(* mail, calendar, Google account, identity, automation and tasks.  None   *)
(* reads what another writes, so every interleaving of them is one of each *)
(* side by side, and a behaviour here is a behaviour of one of them: `part`*)
(* says whose, the others stay as they begin.                              *)
(***************************************************************************)
EXTENDS Naturals, FiniteSets

CONSTANTS
    Thread, Message, Handler, Tool, Session, Request, Run, Editor, Visit, Call,
    Phone, Uid, Service, Title, Type, Zone,
    MaxDrafts, MaxFaults, MaxGrants, MaxEdits, LastTick, MaxUses, MaxLinks, DailyCap, MaxRows

Part == {"mail", "calendar", "google", "identity", "automation", "tasks"}

VARIABLES part,
    drafts, replied, work, gmail, faults, doubt, told, mailCrossed,
    marks, hook, checkin, mapping, sessions, purges, made, answers, raced,
    windows, zone, onboarded, log, txn, now, edits, fails, dropped, dialled,
    row, uses, visit, call, leaving, granted, good, issued, grants, refusals, rowCrossed,
    owner, req,
    event, calls, ringing, cooling, run, acts, unseen,
    rows, used, editing, rowsCrossed, reopened

mailVars == <<drafts, replied, work, gmail, faults, doubt, told, mailCrossed,
              marks, hook, checkin, mapping, sessions, purges, made, answers, raced>>
calendarVars == <<windows, zone, onboarded, log, txn, now, edits, fails, dropped, dialled>>
googleVars == <<row, uses, visit, call, leaving, granted, good, issued, grants, refusals,
                rowCrossed>>
identityVars == <<owner, req>>
automationVars == <<event, calls, ringing, cooling, run, acts, unseen>>
taskVars == <<rows, used, editing, rowsCrossed, reopened>>
vars == <<part, mailVars, calendarVars, googleVars, identityVars, automationVars, taskVars>>

Mail == INSTANCE WhatsAppWebhook WITH
    Actor <- Handler \cup Tool, MaxRevisions <- 1, MaxSessions <- 1, MaxPurges <- 0,
    crossed <- mailCrossed
Calendar == INSTANCE CallCalendar WITH
    Hours <- 2, Time <- 0..1, MaxFails <- MaxFaults
Google == INSTANCE GoogleAccount WITH
    MaxRefusals <- MaxFaults, made <- grants, crossed <- rowCrossed
Identity == INSTANCE UserIdentity
Automation == INSTANCE EmailAutomation
Tasks == INSTANCE TaskList WITH work <- editing, crossed <- rowsCrossed

ASSUME ServicesAssumption ==
    /\ {MaxDrafts, MaxFaults, MaxGrants, MaxEdits, LastTick} \subseteq Nat
    /\ Mail!DraftsAssumption /\ Mail!WebhookAssumption
    /\ Identity!UidAssumption /\ Calendar!CalendarAssumption /\ Tasks!TaskAssumption
    /\ Automation!AutomationAssumption /\ Google!GoogleAssumption

Init ==
    /\ part \in Part
    /\ Mail!Init /\ Calendar!Init /\ Google!Init /\ Identity!Init
    /\ Automation!Init /\ Tasks!Init
    /\ part # "mail" => made = 0
    /\ part # "calendar" => ~onboarded /\ \A ty \in Type : windows[ty].state = "none"
    /\ part # "automation" => ~ringing

Next ==
    /\ UNCHANGED part
    /\ \/ part = "mail" /\ Mail!Next
       \/ part # "mail" /\ UNCHANGED mailVars
    /\ \/ part = "calendar" /\ Calendar!Next
       \/ part # "calendar" /\ UNCHANGED calendarVars
    /\ \/ part = "google" /\ Google!Next
       \/ part # "google" /\ UNCHANGED googleVars
    /\ \/ part = "identity" /\ Identity!Next
       \/ part # "identity" /\ UNCHANGED identityVars
    /\ \/ part = "automation" /\ Automation!Next
       \/ part # "automation" /\ UNCHANGED automationVars
    /\ \/ part = "tasks" /\ Tasks!Next
       \/ part # "tasks" /\ UNCHANGED taskVars

(* Of the parts that stay as they begin no fair step is ever enabled. *)
Spec == Init /\ [][Next]_vars /\ Mail!Fairness /\ Calendar!Fairness

ServicesTypeOK ==
    /\ Mail!WebhookTypeOK /\ Calendar!TypeOK /\ Google!TypeOK
    /\ Identity!TypeOK /\ Automation!TypeOK /\ Tasks!TypeOK

DraftSettles      == Mail!DraftSettles
PlannedEventually == Calendar!PlannedEventually
NoHalfConnection  == Google!NoHalfConnection
ClearedForCause   == Google!ClearedForCause
LoginOwnsPhone    == Identity!LoginOwnsPhone
ActedOnce         == Automation!ActedOnce
UrgentCallsCapped == Automation!UrgentCallsCapped
StampsMatchStatus == Tasks!StampsMatchStatus
=============================================================================
