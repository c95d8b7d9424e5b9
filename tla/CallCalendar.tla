---------------------------- MODULE CallCalendar ----------------------------
(***************************************************************************)
(* How the planned calls of one user come to be and go: the daily planner  *)
(* and the catch-up sweep (app/tasks/calls.py), edits of call windows and  *)
(* of the time zone, and the end of onboarding write the same planned      *)
(* call_logs rows, each in a transaction of its own that works on what it  *)
(* read when it began.  A partial unique index on (type, date) of planned  *)
(* rows is all that keeps them apart.                                      *)
(*                                                                         *)
(* Transactions are READ COMMITTED.  One is at most three steps: it reads, *)
(* it changes settings and deletes rows (holding locks, seen by nobody),   *)
(* it inserts and commits.  A statement that meets a row another           *)
(* transaction has deleted but not committed waits, and so does an insert  *)
(* into its index slot.                                                    *)
(***************************************************************************)
EXTENDS Naturals, FiniteSets

CONSTANTS
    Type,       \* window types of the user
    Hours,      \* hours of a day
    Time,       \* the hours a window may be set to
    Zone,       \* time zones, as hours ahead of UTC
    Editor,     \* sessions that edit settings (agent tools, voice, dashboard)
    LastTick,   \* bound: the clock stops here
    MaxEdits,   \* bound: user operations
    MaxFails    \* bound: transactions that die or roll back

(* To be assumed of the constants. *)
CalendarAssumption ==
    /\ IsFiniteSet(Type) /\ Type # {}
    /\ Hours \in Nat \ {0}
    /\ Time \subseteq 0..(Hours - 1) /\ Time # {}
    /\ Zone \subseteq Nat /\ 0 \in Zone
    /\ {LastTick, MaxEdits, MaxFails} \subseteq Nat
    /\ {"planner", "sweeper"} \cap Editor = {}

Proc == {"planner", "sweeper"} \cup Editor

VARIABLES
    windows,    \* call_windows: state and time of the user's window of a type
    zone,       \* users.timezone
    onboarded,  \* users.onboarding_complete
    log,        \* call_logs of the user
    txn,        \* txn[p]: the transaction of p
    now,        \* the clock, in hours UTC
    edits, fails,
    dropped,    \* history: slots (type, day) whose call the user dropped
    dialled     \* history: how many calls of a slot were dialled

vars == <<windows, zone, onboarded, log, txn, now, edits, fails, dropped, dialled>>
clocks == <<now, edits, fails>>
histories == <<dropped, dialled>>

(* A window's start and end are one value: the hour its call is put at.    *)
Settings == [state : {"none", "active", "inactive"}, time : Time]

Day  == Nat
Slot == Type \X (0..((LastTick + Hours) \div Hours + 1))

(* `move` tells rescheduled rows apart.  `excused` is history: the row may *)
(* disagree with the settings for a reason the code accepts.               *)
Entry == [type : Type, day : Day, time : Nat, zone : Zone,
          kind : {"planned", "rescheduled"},
          status : {"scheduled", "dialled", "dropped"},
          move : Nat, excused : BOOLEAN]

Txn == [op : {"none", "plan", "sweep", "save", "remove", "zone", "onboard"},
        pc : {"idle", "read", "changed", "again"},
        type : Type, new : Nat,     \* what a save or a zone change writes
        seen : Settings, zone : Zone, on : BOOLEAN,   \* what it read
        todo : SUBSET Entry,        \* the calls to insert, from what it read
        gone : SUBSET (Type \X Day),   \* whose planned row it has deleted
        lap : BOOLEAN]              \* history: settings changed meanwhile

TypeOK ==
    /\ windows \in [Type -> Settings]
    /\ zone \in Zone /\ onboarded \in BOOLEAN
    /\ IsFiniteSet(log) /\ log \subseteq Entry
    /\ txn \in [Proc -> Txn]
    /\ now \in 0..LastTick /\ edits \in 0..MaxEdits /\ fails \in 0..MaxFails
    /\ dropped \subseteq Type \X Day /\ dialled \in [Slot -> Nat]

-----------------------------------------------------------------------------
(* Time.  Dates are the user's local ones.                                 *)

LocalDay(t, z)  == (t + z) \div Hours
LocalHour(t, z) == (t + z) % Hours

(* resolve_local_time. *)
Due(r) == r.day * Hours + r.time - r.zone

Future(r) == Due(r) > now

(* compute_first_call_date: today if there is lead time left. *)
FirstDay(t, z, hour) == LocalDay(t, z) + (IF LocalHour(t, z) < hour THEN 0 ELSE 1)

-----------------------------------------------------------------------------
(* Rows.                                                                   *)

InSlot(r, ty, d) == r.type = ty /\ r.day = d
SlotOf(r) == <<r.type, r.day>>

Pending == {r \in log : r.kind = "planned" /\ r.status = "scheduled"}

Planned(ty, d) == {r \in log : InSlot(r, ty, d) /\ r.kind = "planned"}

Moves(ty, d) == Cardinality({r \in log : InSlot(r, ty, d) /\ r.kind = "rescheduled"})

(* A row as every planning statement writes it. *)
NewCall(ty, d, hour, z) ==
    [type |-> ty, day |-> d, time |-> hour, zone |-> z, kind |-> "planned",
     status |-> "scheduled", move |-> 0, excused |-> FALSE]

(* Mutant: only rows still scheduled count as duplicates. *)
FreeOfScheduled(S, gone) ==
    {r \in S : SlotOf(r) \in gone \/ \A q \in Planned(r.type, r.day) : q.status # "scheduled"}

(* An insert that meets a planned row of its slot is skipped (IntegrityError *)
(* in a savepoint).                                                          *)
Free(S, gone) == {r \in S : SlotOf(r) \in gone \/ Planned(r.type, r.day) = {}}

(* Mutant: the rows of a window are deleted whatever has become of them. *)
DeletableAnyStatus(types) ==
    {r \in log : r.type \in types /\ r.kind = "planned" /\ Future(r)}

(* Mutant: a window edit leaves the next day alone. *)
DeletableToday(types) ==
    {r \in Pending : r.type \in types /\ Future(r) /\ r.day = LocalDay(now, zone)}

(* _hard_delete_future_planned. *)
Deletable(types) ==
    {r \in Pending : r.type \in types /\ Future(r)}

-----------------------------------------------------------------------------
(* Transactions.                                                           *)

SomeType   == CHOOSE ty \in Type : TRUE
SomeWindow == [state |-> "none", time |-> CHOOSE t \in Time : TRUE]

Idle == [op |-> "none", pc |-> "idle", type |-> SomeType, new |-> 0,
         seen |-> SomeWindow, zone |-> 0, on |-> FALSE, todo |-> {}, gone |-> {},
         lap |-> FALSE]

Changing(p)   == txn[p].pc = "changed"
GoneBut(p)    == UNION {txn[q].gone : q \in Proc \ {p}}

(* A row that a transaction has deleted but not committed. *)
Deleted(gone) == {r \in log : r.kind = "planned" /\ SlotOf(r) \in gone}
Locked(r)     == \E q \in Proc : r \in Deleted(txn[q].gone)

(* p begins an operation: t has what it read of the user and the windows. *)
Begin(p, t) ==
    /\ txn[p].pc = "idle"
    /\ txn' = [txn EXCEPT ![p] = [t EXCEPT !.pc = "read",
                                           !.lap = \E q \in Proc : Changing(q)]]
    /\ UNCHANGED <<windows, zone, onboarded, log, now, fails, histories>>

(* Every other running transaction overlaps a change of settings. *)
Lapped(p, t) == [q \in Proc |-> IF q = p THEN t
                                ELSE IF txn[q].pc = "idle" THEN txn[q]
                                ELSE [txn[q] EXCEPT !.lap = TRUE]]

Excuse(S) == {IF r \in S THEN [r EXCEPT !.excused = TRUE] ELSE r : r \in log}

(* The rows of S that can be inserted are, and p's transaction commits. *)
Commit(p, S, pc) ==
    /\ \A r \in S : SlotOf(r) \notin GoneBut(p)     \* index wait
    /\ log' = (log \ Deleted(txn[p].gone)) \cup
                 {[r EXCEPT !.excused = txn[p].lap] : r \in Free(S, txn[p].gone)}
    /\ txn' = [txn EXCEPT ![p] = IF pc = "idle" THEN Idle
                                 ELSE [@ EXCEPT !.pc = pc, !.gone = {}]]

(* p's transaction has no effect: its process dies, a statement fails or   *)
(* PostgreSQL makes it the victim of a deadlock.                           *)
Stuck(p) == Changing(p) /\ \E q \in Proc \ {p} : Changing(q)

Fail(p) ==
    /\ txn[p].pc # "idle"
    /\ \/ fails < MaxFails /\ fails' = fails + 1
       \/ Stuck(p) /\ fails' = fails
    /\ txn' = [txn EXCEPT ![p] = Idle]
    /\ UNCHANGED <<windows, zone, onboarded, log, now, edits, histories>>

-----------------------------------------------------------------------------
(* The planner and the sweep.  Only onboarded users with a zone are read.  *)

Active == {ty \in Type : windows[ty].state = "active"}

(* _materialize_for_user on a day: a call for every active window. *)
Materialized(d) == {NewCall(ty, d, windows[ty].time, zone) : ty \in Active}

Reads(p, op, calls) ==
    /\ onboarded
    /\ Begin(p, [Idle EXCEPT !.op = op, !.todo = calls])
    /\ UNCHANGED edits

PlannerBegins == Reads("planner", "plan", Materialized(LocalDay(now, zone) + 1))

(* Mutant: the sweep only looks at today. *)
SweepBeginsToday == Reads("sweeper", "sweep", Materialized(LocalDay(now, zone)))

(* _run_catchup_sweep: today, feasible or not, and tomorrow. *)
SweepBegins == Reads("sweeper", "sweep", Materialized(LocalDay(now, zone))
                                           \cup Materialized(LocalDay(now, zone) + 1))

(* One commit for all rows. *)
PlanCommits(p) ==
    /\ txn[p].pc = "read" /\ txn[p].op \in {"plan", "sweep"}
    /\ Commit(p, txn[p].todo, "idle")
    /\ UNCHANGED <<windows, zone, onboarded, clocks, histories>>

-----------------------------------------------------------------------------
(* Edits.                                                                  *)

Edit == edits < MaxEdits /\ edits' = edits + 1

(* save_call_window, update_window behind it; the tools' overlap check     *)
(* only refuses some times.                                                *)
SaveBegins(p, ty, hour) ==
    /\ Edit
    /\ Begin(p, [Idle EXCEPT !.op = "save", !.type = ty, !.new = hour,
                             !.seen = windows[ty], !.zone = zone, !.on = onboarded])

(* The update operations look for an active window before. *)
UpdateBegins(p, ty, hour) == ty \in Active /\ SaveBegins(p, ty, hour)

(* deactivate_window: the target is one of the active windows. *)
RemoveBegins(p, ty) ==
    /\ Edit /\ ty \in Active
    /\ Begin(p, [Idle EXCEPT !.op = "remove", !.type = ty, !.zone = zone,
                             !.on = onboarded])

(* save_user_timezone of the agent. *)
ZoneBegins(p, z) ==
    /\ Edit /\ z # zone
    /\ Begin(p, [Idle EXCEPT !.op = "zone", !.new = z, !.on = onboarded])

(* complete_onboarding: refused when done already or without windows.  A   *)
(* window that is not feasible today starts tomorrow.                      *)
OnboardBegins(p) ==
    /\ ~onboarded /\ Active # {}
    /\ Begin(p, [Idle EXCEPT !.op = "onboard",
                  !.todo = {NewCall(ty, FirstDay(now, zone, windows[ty].time),
                                 windows[ty].time, zone) : ty \in Active}])
    /\ UNCHANGED edits

(* What a transaction writes, judged by what it read: only changed columns *)
(* go into its UPDATE.                                                     *)
NewWindow(t)    == t.op = "save" /\ t.seen.state = "none"
TimesChanged(t) == t.op = "save" /\ t.seen.state # "none" /\ t.seen.time # t.new
Reactivates(t)  == t.op = "save" /\ t.seen.state = "inactive"

WritesWindow(t) == NewWindow(t) \/ TimesChanged(t) \/ Reactivates(t) \/ t.op = "remove"

(* Whose planned calls it deletes. *)
DeletesOf(t) == {ty \in Type : \/ ty = t.type /\ (TimesChanged(t) \/ t.op = "remove")
                               \/ t.op = "zone" /\ t.on}

(* The calls it leaves as they are: their time has come, or it is a change *)
(* of zone that began before the user was onboarded.                       *)
LeftBehind(t) == {r \in Pending : \/ r.type \in DeletesOf(t) /\ ~Future(r)
                                  \/ t.op = "zone" /\ ~t.on}

(* The flush of the settings takes the row's lock, then the DELETE runs.   *)
Change(p) ==
    LET t == txn[p]
        del == {SlotOf(r) : r \in Deletable(DeletesOf(t))} IN
    /\ t.pc = "read" /\ t.op \in {"save", "remove", "zone"}
    /\ \A q \in Proc \ {p} : Changing(q) =>
          /\ ~(WritesWindow(t) /\ WritesWindow(txn[q]) /\ txn[q].type = t.type)
          /\ ~(t.op = "zone" /\ txn[q].op = "zone")
    /\ ~(NewWindow(t) /\ windows[t.type].state # "none")    \* uq_user_window_type
    /\ del \cap GoneBut(p) = {}
    /\ txn' = Lapped(p, [t EXCEPT !.pc = "changed", !.gone = del])
    /\ log' = Excuse(LeftBehind(t))
    /\ UNCHANGED <<windows, zone, onboarded, clocks, histories>>

(* A second session inserted the window first: the whole edit fails. *)
DuplicateWindow(p) ==
    /\ txn[p].pc = "read" /\ NewWindow(txn[p]) /\ windows[txn[p].type].state # "none"
    /\ txn' = [txn EXCEPT ![p] = Idle]
    /\ UNCHANGED <<windows, zone, onboarded, log, clocks, histories>>

(* rematerialize_future_calls of a window: tomorrow, and today if feasible. *)
Rematerialized(ty, hour, z) ==
    {NewCall(ty, d, hour, z) : d \in {FirstDay(now, z, hour), LocalDay(now, z) + 1}}

SaveCommits(p) ==
    LET t == txn[p]
        state == IF NewWindow(t) \/ Reactivates(t) THEN "active" ELSE windows[t.type].state
        hour  == IF NewWindow(t) \/ TimesChanged(t) THEN t.new ELSE windows[t.type].time IN
    /\ Changing(p) /\ t.op = "save"
    /\ windows' = [windows EXCEPT ![t.type] = [state |-> state, time |-> hour]]
    /\ Commit(p, IF t.on /\ state = "active" /\ (NewWindow(t) \/ TimesChanged(t))
                 THEN Rematerialized(t.type, t.new, t.zone) ELSE {},
              IF t.on THEN "again" ELSE "idle")
    /\ UNCHANGED <<zone, onboarded, clocks, histories>>

(* Some callers of deactivate_window rematerialise as well. *)
RemoveCommits(p) ==
    LET t == txn[p] IN
    /\ Changing(p) /\ t.op = "remove"
    /\ windows' = [windows EXCEPT ![t.type].state = "inactive"]
    /\ \E pc \in {"idle"} \cup (IF t.on THEN {"again"} ELSE {}) : Commit(p, {}, pc)
    /\ UNCHANGED <<zone, onboarded, clocks, histories>>

(* Every tool and endpoint rematerialises once more, in a transaction of   *)
(* its own, with the zone it read first; the window has been refreshed.    *)
RematerializeAgain(p) ==
    LET t == txn[p] IN
    /\ t.pc = "again"
    /\ Commit(p, IF windows[t.type].state = "active"
                 THEN Rematerialized(t.type, windows[t.type].time, t.zone) ELSE {}, "idle")
    /\ UNCHANGED <<windows, zone, onboarded, clocks, histories>>

ZoneCommits(p) ==
    LET t == txn[p] IN
    /\ Changing(p) /\ t.op = "zone"
    /\ zone' = t.new
    /\ Commit(p, IF t.on THEN UNION {Rematerialized(ty, windows[ty].time, t.new) :
                                     ty \in Active} ELSE {}, "idle")
    /\ UNCHANGED <<windows, onboarded, clocks, histories>>

OnboardCommits(p) ==
    LET t == txn[p] IN
    /\ t.pc = "read" /\ t.op = "onboard"
    /\ onboarded' = TRUE
    /\ Commit(p, t.todo, "idle")
    /\ UNCHANGED <<windows, zone, clocks, histories>>

(* PATCH /api/user/profile: update_preferences writes the column and       *)
(* nothing else.                                                           *)
DashboardZone(z) ==
    /\ Edit /\ z # zone
    /\ \A q \in Proc : ~(Changing(q) /\ txn[q].op = "zone")
    /\ zone' = z
    /\ log' = Excuse(Pending)
    /\ txn' = [q \in Proc |-> IF txn[q].pc = "idle" THEN txn[q]
                              ELSE [txn[q] EXCEPT !.lap = TRUE]]
    /\ UNCHANGED <<windows, onboarded, now, fails, histories>>

-----------------------------------------------------------------------------
(* What happens to a planned call.  The status writes are the versioned    *)
(* updates of CallLog, so the row is still as it was read.                 *)

Today(r) == r.status = "scheduled" /\ r.day = LocalDay(now, r.zone) /\ ~Locked(r)

(* The row becomes s. *)
Becomes(r, s) == log' = (log \ {r}) \cup {s}

(* skip_call, and each row of cancel_all_calls_today. *)
UserDrops(r) ==
    /\ Edit /\ Today(r)
    /\ Becomes(r, [r EXCEPT !.status = "dropped"])
    /\ dropped' = dropped \cup {SlotOf(r)}
    /\ UNCHANGED <<windows, zone, onboarded, txn, now, fails, dialled>>

(* reschedule_call: to a later time today, within the window if there is   *)
(* one.  occurrence_kind changes, which leaves the planned slot free.      *)
UserMoves(r, hour) ==
    LET s == [r EXCEPT !.time = hour, !.kind = "rescheduled", !.zone = zone,
                       !.move = edits + 1] IN
    /\ Edit /\ Today(r)
    /\ r.day = LocalDay(now, zone) /\ Future(s)
    /\ windows[r.type].state = "active" => hour <= windows[r.type].time
    /\ Becomes(r, s)
    /\ UNCHANGED <<windows, zone, onboarded, txn, now, fails, histories>>

(* The dispatcher claims a due row; see CallDispatch for the rest. *)
Dial(r) ==
    /\ r.status = "scheduled" /\ ~Future(r) /\ ~Locked(r)
    /\ Becomes(r, [r EXCEPT !.status = "dialled"])
    /\ dialled' = [dialled EXCEPT ![SlotOf(r)] = @ + 1]
    /\ UNCHANGED <<windows, zone, onboarded, txn, clocks, dropped>>

Tick == /\ now < LastTick /\ now' = now + 1
        /\ UNCHANGED <<windows, zone, onboarded, log, txn, edits, fails, histories>>

-----------------------------------------------------------------------------
Init ==
    /\ windows \in [Type -> {SomeWindow} \cup {w \in Settings : w.state = "active"}]
    /\ zone = 0 /\ onboarded \in BOOLEAN
    /\ log = {} /\ txn = [p \in Proc |-> Idle]
    /\ now = 0 /\ edits = 0 /\ fails = 0
    /\ dropped = {} /\ dialled = [s \in Slot |-> 0]

Works(p) == \/ Change(p) \/ DuplicateWindow(p) \/ SaveCommits(p) \/ RemoveCommits(p)
            \/ RematerializeAgain(p) \/ ZoneCommits(p) \/ OnboardCommits(p)

EditorBegins(p) == \/ \E ty \in Type : \/ RemoveBegins(p, ty)
                                        \/ \E t \in Time : \/ SaveBegins(p, ty, t)
                                                          \/ UpdateBegins(p, ty, t)
                   \/ \E z \in Zone : ZoneBegins(p, z)
                   \/ OnboardBegins(p)

Next == \/ PlannerBegins \/ SweepBegins
        \/ PlanCommits("planner") \/ PlanCommits("sweeper")
        \/ \E p \in Editor : EditorBegins(p) \/ Works(p)
        \/ \E z \in Zone : DashboardZone(z)
        \/ \E r \in log : UserDrops(r) \/ Dial(r) \/ \E t \in 0..(Hours - 1) : UserMoves(r, t)
        \/ \E p \in Proc : Fail(p)
        \/ Tick

(* Beat starts the sweep every fifteen minutes; transactions proceed. *)
Fairness == /\ WF_vars(SweepBegins)
            /\ WF_vars(PlanCommits("planner")) /\ WF_vars(PlanCommits("sweeper"))
            /\ \A p \in Editor : WF_vars(Works(p))

Spec == Init /\ [][Next]_vars /\ Fairness

-----------------------------------------------------------------------------
(* Properties.                                                             *)

(* A scheduled planned call agrees with the settings of its user, or has   *)
(* one of the causes the code accepts: its transaction overlapped the      *)
(* change, its time had come when the settings changed, or the zone was    *)
(* changed on the dashboard, which plans nothing anew.                     *)
StalePlanHasCause ==
    \A r \in Pending : ~r.excused =>
        /\ windows[r.type] = [state |-> "active", time |-> r.time]
        /\ zone = r.zone

(* The user is rung at most once per window and day, and once more for     *)
(* each time a call of that window and day was rescheduled, whatever       *)
(* planner, sweep and edits insert and delete.                             *)
CallsPerDay ==
    \A s \in Slot :
        dialled[s] + Cardinality({r \in log : InSlot(r, s[1], s[2]) /\ r.status = "scheduled"})
            <= 1 + Moves(s[1], s[2])

(* A call the user skipped or cancelled does not come back, by planner,    *)
(* sweep, edit or zone change, unless it had been rescheduled before.      *)
DroppedStaysDropped ==
    \A s \in dropped : Moves(s[1], s[2]) = 0 =>
        ~\E r \in log : InSlot(r, s[1], s[2]) /\ r.status = "scheduled"

(* Every active window of an onboarded user gets its call of today and of  *)
(* tomorrow, or stops asking for it: sweeps end and make up for lost       *)
(* planner runs, failed edits and rolled back insertions.                  *)
Missing(ty, d) == /\ onboarded /\ windows[ty].state = "active"
                  /\ d \in {LocalDay(now, zone), LocalDay(now, zone) + 1}
                  /\ Planned(ty, d) = {}
PlannedEventually ==
    \A s \in Slot : Missing(s[1], s[2]) ~> ~Missing(s[1], s[2])

(* complete_onboarding: a window whose call of today came too late gets its *)
(* first call tomorrow, which is the one the user is told to expect; no    *)
(* call of that window whose time is past is planned afterwards.           *)
PutOffToTomorrow ==
    [][\A r \in log' \ log :
         r.kind = "planned" /\ r.status = "scheduled" /\ ~Future(r) =>
             \A q \in log : q.kind = "planned" /\ q.type = r.type => q.day <= r.day]_vars
=============================================================================
