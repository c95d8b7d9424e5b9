------------------------ MODULE CallPlanning_proofs -------------------------
(***************************************************************************)
(* Proofs about what surrounds the calls of a day:                         *)
(*   - CallTiming: DueInWindow and BudgetHolds, for every window and delay,*)
(*   - CallHabits: StreakEarned and NoRepeat, for any calls, prefetch      *)
(*     tasks, openers and days,                                            *)
(*   - CallCalendar: StalePlanHasCause, CallsPerDay, DroppedStaysDropped.  *)
(***************************************************************************)
EXTENDS CallPlanning, TLAPS

-----------------------------------------------------------------------------
(* CallTiming. *)

(* Each attempt is due at most the retry budget used so far, and what has  *)
(* been lost by being late, after the latest first call.                   *)
DueBound == 60 * LatestFirst + 630 * (call.attempt - 1) + late

OnSchedule ==
    Wide /\ ~edited =>
        /\ call.pc \in {"scheduled", "ringing", "talking"} => call.at <= DueBound
        /\ call.pc = "ringing" => now <= DueBound
        /\ call.pc = "short" => late >= Talk

TimingInv == TypeOK /\ DueInWindow /\ OnSchedule

-----------------------------------------------------------------------------
(* What a window and a type say about the constants of the arithmetic. *)
LEMMA TalkLength == ASSUME TypeOK PROVE Talk \in {180, 300}
<1>1. type \in {"morning", "evening"}
  BY DEF TypeOK, CallType, MAX_TALK
<1>. QED
  BY <1>1 DEF Talk, MAX_TALK

(* A first call as late as it may be, two retries at their slowest and the *)
(* longest talk end with the window.                                       *)
LEMMA Budget ==
    ASSUME TypeOK
    PROVE  /\ window.end \in Nat /\ window.end < DayMinutes /\ window.end > 0
           /\ LatestFirst \in Nat /\ LatestFirst < window.end
           /\ Wide => 60 * LatestFirst + 2 * 630 + Talk = 60 * window.end
           /\ FirstCall \subseteq Nat
           /\ \A t \in FirstCall : /\ t < window.end
                                   /\ Wide => t <= LatestFirst
<1>1. /\ window.start \in Nat /\ window.end \in Nat
      /\ window.end < DayMinutes /\ window.start + 20 <= window.end
  <2>1. window \in [start : 0..1439, end : 0..1439] /\ Valid(window)
    BY TimingAssumption DEF TypeOK, DayMinutes
  <2>2. window.start \in Nat
    BY <2>1
  <2>3. window.end \in Nat
    BY <2>1
  <2>4. window.end < DayMinutes
    BY <2>1 DEF DayMinutes
  <2>5. window.start + 20 <= window.end
    BY <2>1 DEF Valid, MIN_WIDTH
  <2>. QED
    BY <2>2, <2>3, <2>4, <2>5
<1>2. Talk \in {180, 300} /\ Buffer \in Nat /\ 60 * Buffer = 1260 + Talk
  BY TalkLength DEF Buffer, MAX_RETRIES, RING_TIMEOUT, RETRY_DELAY
<1>3. /\ LatestFirst \in Nat /\ LatestFirst < window.end
      /\ Wide => LatestFirst = window.end - Buffer
  BY <1>1, <1>2 DEF LatestFirst, Wide
<1>4. Wide => 60 * LatestFirst + 2 * 630 + Talk = 60 * window.end
  BY <1>1, <1>2, <1>3
<1>5. /\ FirstCall \subseteq Nat
      /\ \A t \in FirstCall : t < window.end /\ (Wide => t <= LatestFirst)
  BY <1>1, <1>3 DEF FirstCall, Wide
<1>. QED
  BY <1>1, <1>3, <1>4, <1>5

(* A time that fits is in the window of its day; one that does not is past *)
(* the window of the first.                                                *)
LEMMA FitsDay ==
    ASSUME TypeOK, NEW t \in Nat
    PROVE  /\ Fits(t) => t < 60 * window.end \/ t >= DaySeconds
           /\ ~Fits(t) => t >= 60 * window.end
<1>1. window.end \in Nat
  BY Budget
<1>2. DaySeconds = 86400
  BY DEF DaySeconds, DayMinutes
<1>3. t % 86400 \in Nat /\ t % 86400 <= t /\ (t < 86400 => t % 86400 = t)
  OBVIOUS
<1>. QED
  BY <1>1, <1>2, <1>3 DEF Fits

-----------------------------------------------------------------------------
LEMMA TimingInit == Init => TimingInv
<1>. SUFFICES ASSUME Init PROVE TimingInv
  OBVIOUS
<1>1. TypeOK
  <2>1. call \in [pc : {"none", "scheduled", "ringing", "talking", "short", "exhausted"},
                  attempt : 1..(MAX_RETRIES + 1), at : Nat]
    BY DEF Init, MAX_RETRIES
  <2>. QED
    BY <2>1 DEF Init, TypeOK
<1>2. DueInWindow /\ OnSchedule
  BY DEF Init, DueInWindow, OnSchedule
<1>. QED
  BY <1>1, <1>2 DEF TimingInv

LEMMA PlanInv == TimingInv /\ Plan => TimingInv'
<1>. SUFFICES ASSUME TimingInv, Plan PROVE TimingInv'
  OBVIOUS
<1>1. PICK t \in FirstCall : call' = [call EXCEPT !.pc = "scheduled", !.at = 60 * t]
  BY DEF Plan
<1>2. TypeOK /\ UNCHANGED <<window, type, now, late, edited>> /\ call.pc = "none"
  BY DEF TimingInv, Plan
<1>3. t \in Nat /\ t < window.end /\ (Wide => t <= LatestFirst)
  BY <1>2, Budget
<1>4. TypeOK'
  <2>1. 60 * t \in Nat
    BY <1>3
  <2>. QED
    BY <2>1, <1>1, <1>2 DEF TypeOK
<1>5. DueInWindow'
  BY <1>1, <1>2, <1>3, Budget DEF DueInWindow, TypeOK
<1>6. /\ Talk' = Talk /\ (LatestFirst' = LatestFirst) /\ (Wide' <=> Wide)
  BY <1>2 DEF Talk, LatestFirst, Wide, Buffer
<1>7. call'.pc = "scheduled" /\ call'.at = 60 * t /\ call'.attempt = call.attempt
  BY <1>1, <1>2 DEF TypeOK
<1>8. OnSchedule'
  BY <1>2, <1>3, <1>6, <1>7, Budget DEF OnSchedule, DueBound, TypeOK, MAX_RETRIES
<1>. QED
  BY <1>4, <1>5, <1>8 DEF TimingInv

LEMMA MoveInv == TimingInv /\ Move => TimingInv'
<1>. SUFFICES ASSUME TimingInv, Move PROVE TimingInv'
  OBVIOUS
<1>1. PICK t \in Minute : /\ t <= LatestFirst \/ edited
                          /\ call' = [call EXCEPT !.at = 60 * t]
  BY DEF Move
<1>2. TypeOK /\ UNCHANGED <<window, type, now, late, edited>> /\ call.pc = "scheduled"
  BY DEF TimingInv, Move
<1>3. t \in Nat
  BY TimingAssumption DEF DayMinutes
<1>4. TypeOK'
  BY <1>1, <1>2, <1>3 DEF TypeOK
<1>5. call'.pc = "scheduled" /\ call'.at = 60 * t /\ call'.attempt = call.attempt
  BY <1>1, <1>2 DEF TypeOK
<1>6. DueInWindow'
  BY <1>1, <1>2, <1>3, <1>5, Budget DEF DueInWindow
<1>7. /\ Talk' = Talk /\ (LatestFirst' = LatestFirst) /\ (Wide' <=> Wide)
  BY <1>2 DEF Talk, LatestFirst, Wide, Buffer
<1>8. OnSchedule'
  BY <1>1, <1>2, <1>3, <1>5, <1>7, Budget DEF OnSchedule, DueBound, TypeOK, MAX_RETRIES
<1>. QED
  BY <1>4, <1>6, <1>8 DEF TimingInv

LEMMA EditInv == TimingInv /\ Edit => TimingInv'
  BY DEF TimingInv, Edit, TypeOK, DueInWindow, OnSchedule

LEMMA DialInv == TimingInv /\ Dial => TimingInv'
<1>. SUFFICES ASSUME TimingInv, Dial PROVE TimingInv'
  OBVIOUS
<1>1. PICK l \in Lag : now' = call.at + l /\ late' = late + l
  BY DEF Dial
<1>2. /\ TypeOK /\ UNCHANGED <<window, type, edited>> /\ call.pc = "scheduled"
      /\ call' = [call EXCEPT !.pc = "ringing"] /\ DueInWindow /\ OnSchedule
  BY DEF TimingInv, Dial
<1>3. l \in Nat
  BY TimingAssumption
<1>4. TypeOK'
  BY <1>1, <1>2, <1>3 DEF TypeOK
<1>5. call'.pc = "ringing" /\ call'.at = call.at /\ call'.attempt = call.attempt
  BY <1>2 DEF TypeOK
<1>6. DueInWindow'
  BY <1>2, <1>5 DEF DueInWindow
<1>7. /\ Talk' = Talk /\ (LatestFirst' = LatestFirst) /\ (Wide' <=> Wide)
  BY <1>2 DEF Talk, LatestFirst, Wide, Buffer
<1>8. OnSchedule'
  BY <1>1, <1>2, <1>3, <1>5, <1>7, Budget DEF OnSchedule, DueBound, TypeOK, MAX_RETRIES
<1>. QED
  BY <1>4, <1>6, <1>8 DEF TimingInv

LEMMA AnswerInv == TimingInv /\ Answer => TimingInv'
<1>. SUFFICES ASSUME TimingInv, Answer PROVE TimingInv'
  OBVIOUS
<1>1. /\ TypeOK /\ UNCHANGED <<window, type, now, late, edited>> /\ call.pc = "ringing"
      /\ call' = [call EXCEPT !.pc = "talking"] /\ DueInWindow /\ OnSchedule
  BY DEF TimingInv, Answer
<1>2. TypeOK'
  BY <1>1 DEF TypeOK
<1>3. call'.pc = "talking" /\ call'.at = call.at /\ call'.attempt = call.attempt
  BY <1>1 DEF TypeOK
<1>4. DueInWindow'
  BY <1>1, <1>3 DEF DueInWindow
<1>5. /\ Talk' = Talk /\ (LatestFirst' = LatestFirst) /\ (Wide' <=> Wide)
  BY <1>1 DEF Talk, LatestFirst, Wide, Buffer
<1>6. OnSchedule'
  BY <1>1, <1>3, <1>5 DEF OnSchedule, DueBound
<1>. QED
  BY <1>2, <1>4, <1>6 DEF TimingInv

(* Of the three outcomes of a miss one makes the next attempt, and one     *)
(* says that the budget was not enough.                                    *)
LEMMA MissInv == TimingInv /\ Miss => TimingInv'
<1>. SUFFICES ASSUME TimingInv, Miss PROVE TimingInv'
  OBVIOUS
<1>1. PICK s \in Ring, l \in Lag : now' = now + s + l /\ late' = late + l
  BY DEF Miss
<1>2. /\ TypeOK /\ DueInWindow /\ OnSchedule /\ call.pc = "ringing"
      /\ UNCHANGED <<window, type, edited>>
  BY DEF TimingInv, Miss
<1>3. s \in 0..30 /\ l \in Nat /\ now \in Nat /\ late \in Nat /\ call.attempt \in 1..3
  BY <1>2, TimingAssumption DEF Ring, RING_TIMEOUT, TypeOK, MAX_RETRIES
<1>4. /\ Talk' = Talk /\ (LatestFirst' = LatestFirst) /\ (Wide' <=> Wide)
  BY <1>2 DEF Talk, LatestFirst, Wide, Buffer
<1>. DEFINE t == now' + RETRY_DELAY
<1>5. t \in Nat /\ t = now + s + l + 600 /\ now' \in Nat /\ late' \in Nat
  BY <1>1, <1>3 DEF RETRY_DELAY
<1>6. Wide /\ ~edited => t <= 60 * LatestFirst + 630 * call.attempt + late'
  BY <1>1, <1>2, <1>3, <1>5, Budget DEF OnSchedule, DueBound
<1>7. CASE call.attempt > MAX_RETRIES
  <2>1. call' = [call EXCEPT !.pc = "exhausted"]
    BY <1>7 DEF Miss
  <2>. QED
    BY <2>1, <1>2, <1>5 DEF TimingInv, TypeOK, DueInWindow, OnSchedule
<1>8. CASE call.attempt <= MAX_RETRIES /\ ~Fits(t)
  <2>1. call' = [call EXCEPT !.pc = "short"]
    BY <1>3, <1>8 DEF Miss, MAX_RETRIES
  <2>2. TypeOK' /\ DueInWindow'
    BY <2>1, <1>2, <1>5 DEF TypeOK, DueInWindow
  <2>3. t >= 60 * window.end
    BY <1>2, <1>5, <1>8, FitsDay
  <2>4. Wide /\ ~edited => late' >= Talk
    BY <1>2, <1>3, <1>5, <1>6, <1>8, <2>3, Budget, TalkLength DEF MAX_RETRIES
  <2>5. call'.pc = "short"
    BY <2>1, <1>2 DEF TypeOK
  <2>6. OnSchedule'
    BY <2>4, <2>5, <1>2, <1>4 DEF OnSchedule
  <2>. QED
    BY <2>2, <2>6 DEF TimingInv
<1>9. CASE call.attempt <= MAX_RETRIES /\ Fits(t)
  <2>1. call' = [pc |-> "scheduled", attempt |-> call.attempt + 1, at |-> t]
    BY <1>3, <1>9 DEF Miss, MAX_RETRIES
  <2>2. TypeOK'
    BY <2>1, <1>2, <1>3, <1>5, <1>9 DEF TypeOK, MAX_RETRIES
  <2>3. DueInWindow'
    BY <2>1, <1>2, <1>5, <1>9, FitsDay DEF DueInWindow
  <2>4. OnSchedule'
    BY <2>1, <1>2, <1>3, <1>4, <1>5, <1>6, Budget DEF OnSchedule, DueBound
  <2>. QED
    BY <2>2, <2>3, <2>4 DEF TimingInv
<1>. QED
  BY <1>3, <1>7, <1>8, <1>9 DEF MAX_RETRIES

LEMMA TimingInvariance == Spec => []TimingInv
<1>1. TimingInv /\ [Next]_vars => TimingInv'
  <2>. SUFFICES ASSUME TimingInv, [Next]_vars PROVE TimingInv'
    OBVIOUS
  <2>1. CASE UNCHANGED vars
    BY <2>1 DEF TimingInv, TypeOK, DueInWindow, OnSchedule, DueBound, Wide, LatestFirst, Buffer,
                Talk, vars
  <2>2. CASE Next
    BY <2>2, PlanInv, MoveInv, EditInv, DialInv, AnswerInv, MissInv DEF Next
  <2>. QED
    BY <2>1, <2>2
<1>. QED
  BY TimingInit, <1>1, PTL DEF Spec

-----------------------------------------------------------------------------
(* Type correctness of a chain of attempts. *)
THEOREM TimingTypes == Spec => []TypeOK
  BY TimingInvariance, PTL DEF TimingInv

(* For every window and every delay, what _retry_fits_in_window lets pass  *)
(* is due in the window of its day.                                        *)
THEOREM InWindow == Spec => []DueInWindow
  BY TimingInvariance, PTL DEF TimingInv

(* For every window compute_latest_first_call leaves room in, retries and  *)
(* the last talk fit unless time is lost elsewhere.                        *)
THEOREM BudgetEnough == Spec => []BudgetHolds
<1>1. TimingInv => BudgetHolds
  <2>. SUFFICES ASSUME TimingInv, Wide, ~edited
                PROVE  /\ call.pc = "short" => late >= Talk
                       /\ call.pc = "talking" => call.at + Talk <= 60 * window.end + late
    BY DEF BudgetHolds
  <2>1. TypeOK /\ OnSchedule
    BY DEF TimingInv
  <2>2. call.attempt \in 1..3 /\ call.at \in Nat /\ late \in Nat /\ Talk \in {180, 300}
    BY <2>1, TalkLength DEF TypeOK, MAX_RETRIES
  <2>3. 60 * LatestFirst + 2 * 630 + Talk = 60 * window.end /\ LatestFirst \in Nat
    BY <2>1, Budget
  <2>. QED
    BY <2>1, <2>2, <2>3 DEF OnSchedule, DueBound
<1>. QED
  BY TimingInvariance, <1>1, PTL

-----------------------------------------------------------------------------
(* CallHabits. *)

Values == Habits!Context \cup Habits!Row

(* Every day that the streak of x counts, but for its last, had a call. *)
Backed(x) == \A d \in (x.last - x.streak + 1)..(x.last - 1) : d \in active

Earned(x) == \A d \in (x.last - x.streak + 1)..x.last : d \in active

(* Does not open like the last call. *)
Fresh(x) == heard # "none" => x.opener # heard

(* What is written back exists, and so does the call of a prefetch. *)
Whole == /\ \A c \in Phone : talk[c].pc = "cleaning" => talk[c].ctx # Habits!None
         /\ \A j \in Job : prefetch[j] # Habits!NoJob => prefetch[j].call \in Phone

AllBacked == /\ \A c \in Phone : Backed(talk[c].ctx) /\ Backed(stored[c])
             /\ \A j \in Job : Backed(prefetch[j].ctx)

FreshCall(c) == ~talk[c].excused => /\ talk[c].pc = "warming" => Fresh(talk[c].ctx)
                                    /\ talk[c].pc = "ringing" => Fresh(stored[c])
FreshJob(j) == ~prefetch[j].old => Fresh(prefetch[j].ctx)
AllFresh == /\ \A c \in Phone : FreshCall(c)
            /\ \A j \in Job : FreshJob(j)

(* Two cleanups that overtook each other leave columns of both in the row, *)
(* of which nothing more is known.                                         *)
Known == Earned(counted) /\ heard = counted.opener /\ AllBacked /\ AllFresh

HabitsInv == Habits!TypeOK /\ Whole /\ (~crossed => Known)

-----------------------------------------------------------------------------
LEMMA NonePlain == Habits!None \in Habits!Context /\ Backed(Habits!None) /\ Fresh(Habits!None)
BY DEF Habits!None, Habits!Never, Habits!Context, Backed, Fresh

LEMMA ScheduledType ==
    Habits!Scheduled \in [pc : {"scheduled", "warming", "ringing", "talking", "hungup", "cleaning"},
                   ctx : Habits!Context, row : Habits!Row, excused : BOOLEAN]
<1>1. Habits!None \in Habits!Context /\ Habits!None \in Habits!Row
  BY DEF Habits!None, Habits!Never, Habits!Context, Habits!Row
<1>. QED
  BY <1>1 DEF Habits!Scheduled

LEMMA NoJobType == Habits!NoJob \in [call : Phone \cup {"none"}, ctx : Habits!Context, old : BOOLEAN]
BY NonePlain DEF Habits!NoJob

(* What is prepared has a type, is another opener than the row's, and      *)
(* counts no more days than the row does and today.                        *)
LEMMA PreparedFits ==
    ASSUME Habits!HabitsAssumption, Habits!TypeOK, NEW x \in Habits!Prepared
    PROVE  /\ x \in Habits!Context /\ x.opener # counted.opener
           /\ Earned(counted) => Backed(x)
<1>1. PICK o \in UNION {Habits!Selected(have) : have \in BOOLEAN} :
          x = [opener |-> o, streak |-> Habits!Streak, last |-> today]
  BY DEF Habits!Prepared
<1>2. Opener \ {counted.opener} # {}
  BY DEF Habits!HabitsAssumption
<1>3. o \in Opener \ {counted.opener}
  BY <1>1, <1>2 DEF Habits!Selected, Habits!Eligible
<1>4. today \in 1..LastDay /\ counted.streak \in Nat /\ counted.last \in Nat
  BY DEF Habits!TypeOK, Habits!Row
<1>5. Habits!Streak \in Nat
  BY <1>4 DEF Habits!Streak
<1>6. x.opener = o /\ x.streak = Habits!Streak /\ x.last = today
  BY <1>1
<1>7. x \in Habits!Context
  BY <1>1, <1>3, <1>4, <1>5 DEF Habits!Context
<1>8. ASSUME Earned(counted) PROVE Backed(x)
  <2>. SUFFICES ASSUME NEW d \in (today - Habits!Streak + 1)..(today - 1) PROVE d \in active
    BY <1>6 DEF Backed
  <2>1. today \in Int /\ d \in Int
    BY <1>4, <1>5 DEF Habits!HabitsAssumption
  <2>2. CASE counted.last = today
    <3>1. Habits!Streak = counted.streak
      BY <1>4, <2>1, <2>2 DEF Habits!Streak
    <3>. QED
      BY <1>4, <1>8, <2>1, <2>2, <3>1 DEF Earned
  <2>3. CASE counted.last = today - 1 /\ counted.last # Habits!Never
    <3>1. Habits!Streak = counted.streak + 1
      BY <1>4, <2>1, <2>3 DEF Habits!Streak
    <3>. QED
      BY <1>4, <1>8, <2>1, <2>3, <3>1 DEF Earned
  <2>4. CASE counted.last # today /\ (counted.last = Habits!Never \/ counted.last # today - 1)
    <3>1. Habits!Streak = 1
      BY <1>4, <2>1, <2>4 DEF Habits!Streak, Habits!Never
    <3>. QED
      BY <2>1, <3>1
  <2>. QED
    BY <2>2, <2>3, <2>4
<1>. QED
  BY <1>3, <1>6, <1>7, <1>8

LEMMA PreparedKnown ==
    ASSUME Habits!HabitsAssumption, HabitsInv, NEW x \in Habits!Prepared
    PROVE  x \in Habits!Context /\ (~crossed => Backed(x) /\ Fresh(x))
BY PreparedFits DEF HabitsInv, Known, Fresh

-----------------------------------------------------------------------------
CallRecord == [pc : {"scheduled", "warming", "ringing", "talking", "hungup", "cleaning"},
             ctx : Habits!Context, row : Habits!Row, excused : BOOLEAN]

(* A step of one call that prepares no more than may be and writes nothing *)
(* back.                                                                   *)
LEMMA GoesIInv ==
    ASSUME HabitsInv, NEW c \in Phone, NEW r \in CallRecord, Habits!Goes(c, r),
           r.pc = "cleaning" => r.ctx # Habits!None,
           UNCHANGED <<counted, Habits!days, Habits!history>>,
           stored' \in [Phone -> Habits!Context], \A d \in Phone \ {c} : stored'[d] = stored[d],
           \/ UNCHANGED prefetch
           \/ prefetch' = [j \in Job |-> IF prefetch[j].call = c THEN Habits!NoJob ELSE prefetch[j]],
           ~crossed => /\ Backed(r.ctx) /\ Backed(stored'[c])
                       /\ ~r.excused => /\ r.pc = "warming" => Fresh(r.ctx)
                                        /\ r.pc = "ringing" => Fresh(stored'[c])
    PROVE  HabitsInv'
<1>1. /\ talk' \in [Phone -> CallRecord] /\ talk'[c] = r
      /\ \A d \in Phone \ {c} : talk'[d] = talk[d]
  BY DEF Habits!Goes, HabitsInv, Habits!TypeOK, CallRecord
<1>2. \A j \in Job : prefetch'[j] = prefetch[j] \/ prefetch'[j] = Habits!NoJob
  BY DEF HabitsInv, Habits!TypeOK
<1>3. prefetch' \in [Job -> [call : Phone \cup {"none"}, ctx : Habits!Context, old : BOOLEAN]]
  BY NoJobType DEF HabitsInv, Habits!TypeOK
<1>4. Habits!TypeOK'
  BY <1>1, <1>3 DEF HabitsInv, Habits!TypeOK, CallRecord, Habits!days, Habits!history
<1>5. Whole'
  BY <1>1, <1>2 DEF HabitsInv, Whole
<1>6. ASSUME ~crossed' PROVE Known'
  <2>1. ~crossed /\ Known
    BY <1>6 DEF HabitsInv, Habits!history
  <2>2. Earned(counted)' /\ heard' = counted'.opener
    BY <2>1 DEF Known, Earned, Habits!history, Habits!days
  <2>3. \A x : Backed(x)' <=> Backed(x)
    BY DEF Backed, Habits!days
  <2>4. AllBacked'
    <3>1. Backed(Habits!NoJob.ctx)
      BY NonePlain DEF Habits!NoJob
    <3>2. \A d \in Phone : Backed(talk'[d].ctx) /\ Backed(stored'[d])
      BY <1>1, <2>1 DEF Known, AllBacked
    <3>3. \A j \in Job : Backed(prefetch'[j].ctx)
      BY <1>2, <2>1, <3>1 DEF Known, AllBacked
    <3>. QED
      BY <3>2, <3>3 DEF AllBacked, Backed, Habits!days
  <2>5. ASSUME NEW d \in Phone PROVE FreshCall(d)'
    BY <1>1, <2>1 DEF Known, AllFresh, FreshCall, Fresh, Habits!history
  <2>6. ASSUME NEW j \in Job PROVE FreshJob(j)'
    <3>1. Fresh(Habits!NoJob.ctx)
      BY NonePlain DEF Habits!NoJob
    <3>. QED
      BY <1>2, <2>1, <3>1 DEF Known, AllFresh, FreshJob, Fresh, Habits!history
  <2>. QED
    BY <2>2, <2>4, <2>5, <2>6 DEF Known, AllFresh
<1>. QED
  BY <1>4, <1>5, <1>6 DEF HabitsInv

LEMMA ForgottenFits ==
    ASSUME Habits!TypeOK, NEW c \in Phone, Habits!Forgotten(c)
    PROVE  /\ stored' \in [Phone -> Habits!Context] /\ stored'[c] = Habits!None
           /\ \A d \in Phone \ {c} : stored'[d] = stored[d]
           /\ prefetch' = [j \in Job |-> IF prefetch[j].call = c THEN Habits!NoJob ELSE prefetch[j]]
BY NonePlain DEF Habits!TypeOK, Habits!Forgotten

-----------------------------------------------------------------------------
LEMMA InitIInv == ASSUME Habits!HabitsAssumption, Habits!Init PROVE HabitsInv
<1>1. Habits!FirstCall \in Habits!Row /\ Habits!None \in Habits!Row
      /\ Habits!FirstCall.opener \in Opener
      /\ Habits!FirstCall.last = 1 /\ Habits!FirstCall.streak = 1
  <2>1. (CHOOSE o \in Opener : TRUE) \in Opener
    BY DEF Habits!HabitsAssumption
  <2>. QED
    BY <2>1 DEF Habits!FirstCall, Habits!Row, Habits!None, Habits!Never
<1>2. /\ talk \in [Phone -> CallRecord] /\ \A c \in Phone : talk[c] = Habits!Scheduled
  BY ScheduledType DEF Habits!Init, CallRecord
<1>3. /\ stored \in [Phone -> Habits!Context] /\ \A c \in Phone : stored[c] = Habits!None
  BY NonePlain DEF Habits!Init
<1>4. /\ prefetch \in [Job -> [call : Phone \cup {"none"}, ctx : Habits!Context, old : BOOLEAN]]
      /\ \A j \in Job : prefetch[j] = Habits!NoJob
  BY NoJobType DEF Habits!Init
<1>5. counted \in Habits!Row /\ heard \in Opener \cup {"none"}
  <2>1. Habits!None.opener = "none"
    BY DEF Habits!None
  <2>. QED
    BY <1>1, <2>1 DEF Habits!Init
<1>6. today \in 1..LastDay
  BY DEF Habits!Init, Habits!HabitsAssumption
<1>7. active \subseteq 1..LastDay /\ Earned(counted)
  <2>1. Habits!None.last = 0 /\ Habits!None.streak = 0
    BY DEF Habits!None, Habits!Never
  <2>2. CASE counted = Habits!None
    <3>1. active = {}
      BY <2>1, <2>2 DEF Habits!Init, Habits!Never
    <3>. QED
      BY <2>1, <2>2, <3>1 DEF Earned
  <2>3. CASE counted = Habits!FirstCall
    <3>1. active = {1}
      BY <1>1, <2>3 DEF Habits!Init, Habits!Never
    <3>. QED
      BY <1>1, <2>3, <3>1 DEF Earned, Habits!HabitsAssumption
  <2>. QED
    BY <2>2, <2>3 DEF Habits!Init
<1>8. Habits!TypeOK
  BY <1>2, <1>3, <1>4, <1>5, <1>6, <1>7 DEF Habits!Init, Habits!TypeOK, CallRecord
<1>9. /\ Habits!Scheduled.ctx = Habits!None /\ Habits!Scheduled.pc = "scheduled"
      /\ Habits!NoJob.ctx = Habits!None
  BY DEF Habits!Scheduled, Habits!NoJob
<1>10. Whole
  BY <1>2, <1>4, <1>9 DEF Whole
<1>11. AllBacked /\ AllFresh
  BY <1>2, <1>3, <1>4, <1>9, NonePlain DEF AllBacked, AllFresh, FreshCall, FreshJob
<1>. QED
  BY <1>7, <1>8, <1>10, <1>11 DEF Habits!Init, HabitsInv, Known

-----------------------------------------------------------------------------
(* Prefetch. *)

LEMMA PrefetchReadsIInv ==
    ASSUME Habits!HabitsAssumption, HabitsInv, NEW j \in Job, NEW c \in Phone,
           Habits!PrefetchReads(j, c)
    PROVE  HabitsInv'
<1>1. PICK x \in Habits!Prepared : prefetch' = [prefetch EXCEPT ![j] = [call |-> c, ctx |-> x, old |-> FALSE]]
  BY DEF Habits!PrefetchReads
<1>2. x \in Habits!Context /\ (~crossed => Backed(x) /\ Fresh(x))
  BY PreparedKnown
<1>3. /\ prefetch' \in [Job -> [call : Phone \cup {"none"}, ctx : Habits!Context, old : BOOLEAN]]
      /\ prefetch'[j] = [call |-> c, ctx |-> x, old |-> FALSE]
      /\ \A k \in Job \ {j} : prefetch'[k] = prefetch[k]
  BY <1>1, <1>2 DEF HabitsInv, Habits!TypeOK
<1>4. UNCHANGED <<counted, talk, stored, Habits!days, Habits!history>>
  BY DEF Habits!PrefetchReads
<1>5. Habits!TypeOK' /\ Whole'
  BY <1>3, <1>4 DEF HabitsInv, Habits!TypeOK, Whole, Habits!days, Habits!history
<1>6. ASSUME ~crossed' PROVE Known'
  <2>1. ~crossed /\ Known
    BY <1>4, <1>6 DEF HabitsInv, Habits!history
  <2>2. Earned(counted)' /\ heard' = counted'.opener
    BY <1>4, <2>1 DEF Known, Earned, Habits!history, Habits!days
  <2>3. AllBacked'
    BY <1>2, <1>3, <1>4, <2>1 DEF Known, AllBacked, Backed, Habits!days
  <2>4. AllFresh'
    BY <1>2, <1>3, <1>4, <2>1 DEF Known, AllFresh, FreshCall, FreshJob, Fresh, Habits!history
  <2>. QED
    BY <2>2, <2>3, <2>4 DEF Known
<1>. QED
  BY <1>5, <1>6 DEF HabitsInv

LEMMA PrefetchFailsIInv ==
    ASSUME HabitsInv, NEW j \in Job, Habits!PrefetchFails(j)
    PROVE  HabitsInv'
<1>1. /\ prefetch' \in [Job -> [call : Phone \cup {"none"}, ctx : Habits!Context, old : BOOLEAN]]
      /\ prefetch'[j] = Habits!NoJob /\ \A k \in Job \ {j} : prefetch'[k] = prefetch[k]
  BY NoJobType DEF HabitsInv, Habits!TypeOK, Habits!PrefetchFails
<1>2. UNCHANGED <<counted, talk, stored, Habits!days, Habits!history>>
  BY DEF Habits!PrefetchFails
<1>3. Habits!TypeOK' /\ Whole'
  BY <1>1, <1>2 DEF HabitsInv, Habits!TypeOK, Whole, Habits!days, Habits!history
<1>4. ASSUME ~crossed' PROVE Known'
  <2>1. ~crossed /\ Known /\ Habits!NoJob.ctx = Habits!None
    BY <1>2, <1>4 DEF HabitsInv, Habits!history, Habits!NoJob
  <2>2. Earned(counted)' /\ heard' = counted'.opener
    BY <1>2, <2>1 DEF Known, Earned, Habits!history, Habits!days
  <2>3. AllBacked'
    BY NonePlain, <1>1, <1>2, <2>1 DEF Known, AllBacked, Backed, Habits!days
  <2>4. AllFresh'
    BY NonePlain, <1>1, <1>2, <2>1 DEF Known, AllFresh, FreshCall, FreshJob, Fresh, Habits!history
  <2>. QED
    BY <2>2, <2>3, <2>4 DEF Known
<1>. QED
  BY <1>3, <1>4 DEF HabitsInv

LEMMA PrefetchStoresIInv ==
    ASSUME HabitsInv, NEW j \in Job, Habits!PrefetchStores(j)
    PROVE  HabitsInv'
<1>. DEFINE c == prefetch[j].call
            x == prefetch[j].ctx
<1>1. c \in Phone /\ x \in Habits!Context /\ prefetch[j].old \in BOOLEAN
  BY DEF HabitsInv, Habits!TypeOK, Whole, Habits!PrefetchStores
<1>2. /\ prefetch' \in [Job -> [call : Phone \cup {"none"}, ctx : Habits!Context, old : BOOLEAN]]
      /\ prefetch'[j] = Habits!NoJob /\ \A k \in Job \ {j} : prefetch'[k] = prefetch[k]
  BY NoJobType DEF HabitsInv, Habits!TypeOK, Habits!PrefetchStores
<1>3. /\ stored' \in [Phone -> Habits!Context] /\ stored'[c] = x
      /\ \A d \in Phone \ {c} : stored'[d] = stored[d]
  BY <1>1 DEF HabitsInv, Habits!TypeOK, Habits!PrefetchStores
<1>4. /\ talk' \in [Phone -> CallRecord]
      /\ \A d \in Phone : talk'[d].pc = talk[d].pc /\ talk'[d].ctx = talk[d].ctx
      /\ \A d \in Phone \ {c} : talk'[d] = talk[d]
      /\ talk[c].pc = "ringing" /\ ~talk'[c].excused => ~prefetch[j].old
  <2>1. talk \in [Phone -> CallRecord] /\ talk[c] \in CallRecord
    BY <1>1 DEF HabitsInv, Habits!TypeOK, CallRecord
  <2>2. CASE talk[c].pc = "ringing"
    <3>. DEFINE e == talk[c].excused \/ prefetch[j].old
    <3>1. talk' = [talk EXCEPT ![c] = [talk[c] EXCEPT !.excused = e]]
      BY <2>2 DEF Habits!PrefetchStores
    <3>2. [talk[c] EXCEPT !.excused = e] = [pc |-> talk[c].pc, ctx |-> talk[c].ctx,
                                            row |-> talk[c].row, excused |-> e]
      BY <2>1 DEF CallRecord
    <3>3. e \in BOOLEAN
      BY <1>1, <2>1 DEF CallRecord
    <3>. HIDE DEF e
    <3>4. /\ talk'[c] = [pc |-> talk[c].pc, ctx |-> talk[c].ctx,
                         row |-> talk[c].row, excused |-> e]
          /\ \A d \in Phone \ {c} : talk'[d] = talk[d]
      BY <1>1, <2>1, <3>1, <3>2
    <3>5. talk' \in [Phone -> CallRecord]
      BY <1>1, <2>1, <3>1, <3>2, <3>3 DEF CallRecord
    <3>6. talk'[c].excused = e
      BY <3>4
    <3>7. ~e => ~prefetch[j].old
      BY DEF e
    <3>. QED
      BY <3>4, <3>5, <3>6, <3>7
  <2>3. CASE talk[c].pc # "ringing"
    BY <2>1, <2>3 DEF Habits!PrefetchStores
  <2>. QED
    BY <2>2, <2>3
<1>5. UNCHANGED <<counted, Habits!days, Habits!history>>
  BY DEF Habits!PrefetchStores
<1>6. Habits!TypeOK'
  BY <1>2, <1>3, <1>4, <1>5 DEF HabitsInv, Habits!TypeOK, CallRecord, Habits!days, Habits!history
<1>7. Whole'
  BY <1>2, <1>4 DEF HabitsInv, Whole
<1>8. ASSUME ~crossed' PROVE Known'
  <2>1. ~crossed /\ Known /\ Habits!NoJob.ctx = Habits!None
    BY <1>5, <1>8 DEF HabitsInv, Habits!history, Habits!NoJob
  <2>2. Earned(counted)' /\ heard' = counted'.opener
    BY <1>5, <2>1 DEF Known, Earned, Habits!history, Habits!days
  <2>3. AllBacked'
    BY NonePlain, <1>2, <1>3, <1>4, <1>5, <2>1 DEF Known, AllBacked, Backed, Habits!days
  <2>4. ASSUME NEW d \in Phone PROVE FreshCall(d)'
    <3>1. CASE d # c
      BY <1>3, <1>4, <1>5, <2>1, <3>1 DEF Known, AllFresh, FreshCall, Fresh, Habits!history
    <3>2. CASE d = c
      <4>1. talk[c].pc = "ringing" \/ talk[c].excused = talk'[c].excused
        BY <1>1 DEF Habits!PrefetchStores
      <4>2. FreshCall(c) /\ FreshJob(j)
        BY <1>1, <2>1 DEF Known, AllFresh
      <4>3. ASSUME ~talk'[c].excused, talk'[c].pc = "ringing" PROVE Fresh(stored'[c])
        BY <1>1, <1>3, <1>4, <4>2, <4>3 DEF FreshJob
      <4>4. ASSUME ~talk'[c].excused, talk'[c].pc = "warming" PROVE Fresh(talk'[c].ctx)
        BY <1>1, <1>4, <4>1, <4>2, <4>4 DEF FreshCall
      <4>. QED
        BY <1>5, <3>2, <4>3, <4>4 DEF FreshCall, Fresh, Habits!history
    <3>. QED
      BY <3>1, <3>2
  <2>5. ASSUME NEW k \in Job PROVE FreshJob(k)'
    BY NonePlain, <1>2, <1>5, <2>1 DEF Known, AllFresh, FreshJob, Fresh, Habits!history
  <2>. QED
    BY <2>2, <2>3, <2>4, <2>5 DEF Known, AllFresh
<1>. QED
  BY <1>6, <1>7, <1>8 DEF HabitsInv

-----------------------------------------------------------------------------
(* A call. *)

LEMMA CallTyped ==
    ASSUME HabitsInv, NEW c \in Phone
    PROVE  /\ talk[c] \in CallRecord /\ stored[c] \in Habits!Context /\ counted \in Habits!Row
           /\ ~crossed => Backed(talk[c].ctx) /\ Backed(stored[c]) /\ FreshCall(c)
BY DEF HabitsInv, Habits!TypeOK, CallRecord, Known, AllBacked, AllFresh

LEMMA RescheduleIInv ==
    ASSUME HabitsInv, NEW c \in Phone, Habits!Reschedule(c)
    PROVE  HabitsInv'
<1>1. /\ talk[c] \in CallRecord /\ talk[c].pc = "scheduled"
      /\ ~crossed => Backed(talk[c].ctx)
  BY CallTyped DEF Habits!Reschedule
<1>2. Habits!Goes(c, talk[c])
  BY DEF Habits!Goes, Habits!Reschedule, HabitsInv, Habits!TypeOK
<1>3. /\ stored' \in [Phone -> Habits!Context] /\ stored'[c] = Habits!None
      /\ \A d \in Phone \ {c} : stored'[d] = stored[d]
      /\ prefetch' = [j \in Job |-> IF prefetch[j].call = c THEN Habits!NoJob ELSE prefetch[j]]
  BY ForgottenFits DEF Habits!Reschedule, HabitsInv
<1>4. UNCHANGED <<counted, Habits!days, Habits!history>>
  BY DEF Habits!Reschedule
<1>. QED
  BY <1>1, <1>2, <1>3, <1>4, GoesIInv, NonePlain

LEMMA WarmReadsIInv ==
    ASSUME Habits!HabitsAssumption, HabitsInv, NEW c \in Phone, Habits!WarmReads(c)
    PROVE  HabitsInv'
<1>1. PICK x \in Habits!Prepared : Habits!Goes(c, [talk[c] EXCEPT !.pc = "warming", !.ctx = x])
  BY DEF Habits!WarmReads
<1>2. /\ x \in Habits!Context /\ (~crossed => Backed(x) /\ Fresh(x))
  BY PreparedKnown
<1>. DEFINE r == [talk[c] EXCEPT !.pc = "warming", !.ctx = x]
<1>3. r \in CallRecord /\ r.pc = "warming" /\ r.ctx = x
  BY <1>2, CallTyped DEF CallRecord
<1>4. /\ UNCHANGED <<counted, Habits!days, Habits!history>> /\ UNCHANGED prefetch
      /\ stored' \in [Phone -> Habits!Context] /\ \A d \in Phone \ {c} : stored'[d] = stored[d]
      /\ ~crossed => Backed(stored'[c])
  BY CallTyped DEF Habits!WarmReads, HabitsInv, Habits!TypeOK
<1>. HIDE DEF r
<1>5. Habits!Goes(c, r)
  BY <1>1 DEF r
<1>. QED
  BY <1>2, <1>3, <1>4, <1>5, GoesIInv

LEMMA WarmStoresIInv ==
    ASSUME HabitsInv, NEW c \in Phone, Habits!WarmStores(c)
    PROVE  HabitsInv'
<1>. DEFINE r == [talk[c] EXCEPT !.pc = "ringing", !.ctx = Habits!None]
<1>1. /\ talk[c] \in CallRecord /\ talk[c].pc = "warming" /\ talk[c].ctx \in Habits!Context
      /\ ~crossed => Backed(talk[c].ctx) /\ FreshCall(c)
  BY CallTyped DEF Habits!WarmStores, CallRecord
<1>2. /\ r \in CallRecord /\ r.pc = "ringing" /\ r.ctx = Habits!None
      /\ r.excused = talk[c].excused
  BY <1>1, NonePlain DEF CallRecord
<1>3. /\ UNCHANGED <<counted, Habits!days, Habits!history>> /\ UNCHANGED prefetch
      /\ Habits!Goes(c, r)
      /\ stored' \in [Phone -> Habits!Context] /\ stored'[c] = talk[c].ctx
      /\ \A d \in Phone \ {c} : stored'[d] = stored[d]
  BY <1>1 DEF Habits!WarmStores, HabitsInv, Habits!TypeOK
<1>. HIDE DEF r
<1>4. ~crossed /\ ~r.excused => Fresh(stored'[c])
  BY <1>1, <1>2, <1>3 DEF FreshCall
<1>. QED
  BY <1>1, <1>2, <1>3, <1>4, GoesIInv, NonePlain

LEMMA WarmFailsIInv ==
    ASSUME HabitsInv, NEW c \in Phone, Habits!WarmFails(c)
    PROVE  HabitsInv'
<1>. DEFINE r == [talk[c] EXCEPT !.pc = "ringing", !.ctx = Habits!None, !.excused = TRUE]
<1>1. talk[c] \in CallRecord
  BY CallTyped
<1>2. r \in CallRecord /\ r.pc = "ringing" /\ r.ctx = Habits!None /\ r.excused
  BY <1>1, NonePlain DEF CallRecord
<1>3. /\ UNCHANGED <<counted, Habits!days, Habits!history>> /\ UNCHANGED prefetch
      /\ Habits!Goes(c, r)
      /\ stored' \in [Phone -> Habits!Context] /\ \A d \in Phone \ {c} : stored'[d] = stored[d]
      /\ ~crossed => Backed(stored'[c])
  BY CallTyped DEF Habits!WarmFails, HabitsInv, Habits!TypeOK
<1>. HIDE DEF r
<1>. QED
  BY <1>2, <1>3, GoesIInv, NonePlain

(* The call ends and what waits for it is dropped. *)
LEMMA EndsIInv ==
    ASSUME HabitsInv, NEW c \in Phone, Habits!Goes(c, Habits!Scheduled), Habits!Forgotten(c),
           UNCHANGED <<counted, Habits!days, Habits!history>>
    PROVE  HabitsInv'
<1>1. /\ Habits!Scheduled \in CallRecord /\ Habits!Scheduled.pc = "scheduled"
      /\ Habits!Scheduled.ctx = Habits!None
  BY ScheduledType DEF CallRecord, Habits!Scheduled
<1>2. /\ stored' \in [Phone -> Habits!Context] /\ stored'[c] = Habits!None
      /\ \A d \in Phone \ {c} : stored'[d] = stored[d]
      /\ prefetch' = [j \in Job |-> IF prefetch[j].call = c THEN Habits!NoJob ELSE prefetch[j]]
  BY ForgottenFits DEF HabitsInv
<1>. QED
  BY <1>1, <1>2, GoesIInv, NonePlain

LEMMA PickUpIInv ==
    ASSUME Habits!HabitsAssumption, HabitsInv, NEW c \in Phone, Habits!PickUp(c)
    PROVE  HabitsInv'
<1>1. PICK x \in {stored[c]} \cup Habits!Prepared \cup {Habits!None} :
          Habits!Goes(c, [Habits!Scheduled EXCEPT !.pc = "talking", !.ctx = x])
  BY DEF Habits!PickUp
<1>2. x \in Habits!Context /\ (~crossed => Backed(x))
  BY CallTyped, PreparedKnown, NonePlain
<1>. DEFINE r == [Habits!Scheduled EXCEPT !.pc = "talking", !.ctx = x]
<1>3. r \in CallRecord /\ r.pc = "talking" /\ r.ctx = x
  BY <1>2, ScheduledType DEF CallRecord
<1>4. /\ UNCHANGED <<counted, Habits!days, Habits!history>> /\ UNCHANGED prefetch
      /\ stored' \in [Phone -> Habits!Context] /\ \A d \in Phone \ {c} : stored'[d] = stored[d]
      /\ ~crossed => Backed(stored'[c])
  BY CallTyped DEF Habits!PickUp, HabitsInv, Habits!TypeOK
<1>. HIDE DEF r
<1>5. Habits!Goes(c, r)
  BY <1>1 DEF r
<1>. QED
  BY <1>2, <1>3, <1>4, <1>5, GoesIInv

LEMMA HangUpIInv ==
    ASSUME HabitsInv, NEW c \in Phone, Habits!HangUp(c)
    PROVE  HabitsInv'
<1>. DEFINE r == [talk[c] EXCEPT !.pc = "hungup"]
<1>1. talk[c] \in CallRecord /\ (~crossed => Backed(talk[c].ctx) /\ Backed(stored[c]))
  BY CallTyped
<1>2. r \in CallRecord /\ r.pc = "hungup" /\ r.ctx = talk[c].ctx
  BY <1>1 DEF CallRecord
<1>3. /\ UNCHANGED <<counted, Habits!days, Habits!history>> /\ UNCHANGED prefetch
      /\ Habits!Goes(c, r)
      /\ stored' \in [Phone -> Habits!Context] /\ \A d \in Phone \ {c} : stored'[d] = stored[d]
      /\ ~crossed => Backed(stored'[c])
  BY <1>1 DEF Habits!HangUp, HabitsInv, Habits!TypeOK
<1>. HIDE DEF r
<1>. QED
  BY <1>1, <1>2, <1>3, GoesIInv

LEMMA CleanupLoadsIInv ==
    ASSUME HabitsInv, NEW c \in Phone, Habits!CleanupLoads(c)
    PROVE  HabitsInv'
<1>. DEFINE r == [talk[c] EXCEPT !.pc = "cleaning", !.row = counted]
<1>1. /\ talk[c] \in CallRecord /\ counted \in Habits!Row /\ talk[c].ctx # Habits!None
      /\ ~crossed => Backed(talk[c].ctx) /\ Backed(stored[c])
  BY CallTyped DEF Habits!CleanupLoads
<1>2. r \in CallRecord /\ r.pc = "cleaning" /\ r.ctx = talk[c].ctx
  BY <1>1 DEF CallRecord
<1>3. /\ UNCHANGED <<counted, Habits!days, Habits!history>> /\ UNCHANGED prefetch
      /\ Habits!Goes(c, r)
      /\ stored' \in [Phone -> Habits!Context] /\ \A d \in Phone \ {c} : stored'[d] = stored[d]
      /\ ~crossed => Backed(stored'[c])
  BY <1>1 DEF Habits!CleanupLoads, HabitsInv, Habits!TypeOK
<1>. HIDE DEF r
<1>. QED
  BY <1>1, <1>2, <1>3, GoesIInv

(* The row becomes what the call was prepared with, unless another cleanup *)
(* has come between.                                                       *)
LEMMA RowWritten ==
    ASSUME Habits!TypeOK, NEW c \in Phone, talk[c].ctx # Habits!None, Habits!CleanupWrites(c)
    PROVE  /\ counted' \in Habits!Row
           /\ talk[c].ctx \in [opener : Opener, streak : Nat, last : 1..LastDay]
           /\ ~crossed' => counted' = talk[c].ctx
<1>. DEFINE x == talk[c].ctx
            y == talk[c].row
            written(f) == IF x[f] # y[f] THEN x[f] ELSE counted[f]
<1>1. /\ x \in [opener : Opener, streak : Nat, last : 1..LastDay]
      /\ counted \in Habits!Row
  BY DEF Habits!TypeOK, Habits!Context
<1>2. /\ x.opener \in Opener /\ x.streak \in Nat /\ x.last \in 1..LastDay
      /\ x = [opener |-> x.opener, streak |-> x.streak, last |-> x.last]
  BY <1>1
<1>3. /\ counted.opener \in Opener \cup {"none"} /\ counted.streak \in Nat /\ counted.last \in Nat
      /\ DOMAIN counted = {"opener", "streak", "last"}
  BY <1>1 DEF Habits!Row
<1>4. counted' = [f \in DOMAIN counted |-> written(f)]
  BY DEF Habits!CleanupWrites
<1>5. counted' = [opener |-> written("opener"), streak |-> written("streak"),
               last |-> written("last")]
  BY <1>3, <1>4
<1>6. /\ written("opener") \in Opener \cup {"none"}
      /\ written("streak") \in Nat /\ written("last") \in Nat
  BY <1>2, <1>3
<1>7. counted' \in Habits!Row
  BY <1>5, <1>6 DEF Habits!Row
<1>8. ASSUME ~crossed' PROVE counted' = x
  <2>1. counted = y
    BY <1>8 DEF Habits!CleanupWrites
  <2>2. /\ written("opener") = x.opener /\ written("streak") = x.streak
        /\ written("last") = x.last
    BY <2>1
  <2>. HIDE DEF written
  <2>3. counted' = [opener |-> x.opener, streak |-> x.streak, last |-> x.last]
    BY <1>5, <2>2
  <2>. QED
    BY <1>2, <2>3
<1>. QED
  BY <1>1, <1>7, <1>8

LEMMA CleanupWritesIInv ==
    ASSUME HabitsInv, NEW c \in Phone, Habits!CleanupWrites(c)
    PROVE  HabitsInv'
<1>. DEFINE x == talk[c].ctx
            marked(d) == talk[d].excused \/ talk[d].pc \in {"warming", "ringing"}
<1>1. talk[c].pc = "cleaning" /\ x # Habits!None /\ talk \in [Phone -> CallRecord]
  BY DEF HabitsInv, Whole, Habits!TypeOK, CallRecord, Habits!CleanupWrites
<1>2. /\ counted' \in Habits!Row /\ (~crossed' => counted' = x)
      /\ x.opener \in Opener /\ x.streak \in Nat /\ x.last \in 1..LastDay
  BY <1>1, RowWritten DEF HabitsInv
<1>3. /\ active' = active \cup {x.last} /\ heard' = x.opener /\ UNCHANGED today
      /\ crossed' = (crossed \/ counted # talk[c].row)
  BY DEF Habits!CleanupWrites
<1>4. /\ talk' \in [Phone -> CallRecord] /\ talk'[c] = Habits!Scheduled
      /\ \A d \in Phone \ {c} : /\ talk'[d].pc = talk[d].pc /\ talk'[d].ctx = talk[d].ctx
                                /\ talk'[d].excused = marked(d)
  <2>1. talk' = [d \in Phone |-> IF d = c THEN Habits!Scheduled
                                ELSE [talk[d] EXCEPT !.excused = marked(d)]]
    BY DEF Habits!CleanupWrites
  <2>2. ASSUME NEW d \in Phone
        PROVE  /\ [talk[d] EXCEPT !.excused = marked(d)] \in CallRecord
               /\ [talk[d] EXCEPT !.excused = marked(d)].pc = talk[d].pc
               /\ [talk[d] EXCEPT !.excused = marked(d)].ctx = talk[d].ctx
               /\ [talk[d] EXCEPT !.excused = marked(d)].excused = marked(d)
    <3>1. marked(d) \in BOOLEAN
      BY <1>1 DEF CallRecord
    <3>. HIDE DEF marked
    <3>. QED
      BY <1>1, <3>1 DEF CallRecord
  <2>3. Habits!Scheduled \in CallRecord
    BY ScheduledType DEF CallRecord
  <2>. HIDE DEF marked
  <2>. QED
    BY <2>1, <2>2, <2>3
<1>5. /\ stored' \in [Phone -> Habits!Context] /\ stored'[c] = Habits!None
      /\ \A d \in Phone \ {c} : stored'[d] = stored[d]
  BY NonePlain DEF HabitsInv, Habits!TypeOK, Habits!CleanupWrites
<1>6. /\ prefetch' \in [Job -> [call : Phone \cup {"none"}, ctx : Habits!Context, old : BOOLEAN]]
      /\ \A j \in Job : \/ prefetch'[j] = Habits!NoJob
                        \/ /\ prefetch[j] # Habits!NoJob /\ prefetch'[j].old
                           /\ prefetch'[j].call = prefetch[j].call
                           /\ prefetch'[j].ctx = prefetch[j].ctx
  <2>1. prefetch' = [j \in Job |-> IF prefetch[j].call = c THEN Habits!NoJob
                              ELSE [prefetch[j] EXCEPT !.old = prefetch[j] # Habits!NoJob]]
    BY DEF Habits!CleanupWrites
  <2>2. ASSUME NEW j \in Job
        PROVE  LET k == [prefetch[j] EXCEPT !.old = prefetch[j] # Habits!NoJob]
               IN  /\ k \in [call : Phone \cup {"none"}, ctx : Habits!Context, old : BOOLEAN]
                   /\ k.call = prefetch[j].call /\ k.ctx = prefetch[j].ctx
                   /\ k.old = (prefetch[j] # Habits!NoJob)
                   /\ prefetch[j] = Habits!NoJob => k = Habits!NoJob
    <3>1. prefetch[j] \in [call : Phone \cup {"none"}, ctx : Habits!Context, old : BOOLEAN]
      BY DEF HabitsInv, Habits!TypeOK
    <3>2. CASE prefetch[j] = Habits!NoJob
      <4>. DEFINE is == prefetch[j] # Habits!NoJob
      <4>1. is = FALSE
        BY <3>2
      <4>2. prefetch[j].old = FALSE
        BY <3>2 DEF Habits!NoJob
      <4>. HIDE DEF is
      <4>3. [prefetch[j] EXCEPT !.old = is] = prefetch[j]
        BY <3>1, <4>1, <4>2
      <4>. QED
        BY <3>1, <3>2, <4>1, <4>3 DEF is
    <3>3. CASE prefetch[j] # Habits!NoJob
      <4>. DEFINE is == prefetch[j] # Habits!NoJob
      <4>1. is = TRUE
        BY <3>3
      <4>2. [prefetch[j] EXCEPT !.old = is] = [prefetch[j] EXCEPT !.old = TRUE]
        BY <4>1
      <4>. QED
        BY <3>1, <3>3, <4>2
    <3>. QED
      BY <3>2, <3>3
  <2>. QED
    BY <2>1, <2>2, NoJobType
<1>7. Habits!TypeOK'
  <2>1. /\ active' \subseteq 1..LastDay /\ crossed' \in BOOLEAN
        /\ heard' \in Opener \cup {"none"} /\ today' \in 1..LastDay
    BY <1>2, <1>3 DEF HabitsInv, Habits!TypeOK
  <2>. QED
    BY <1>2, <1>4, <1>5, <1>6, <2>1 DEF Habits!TypeOK, CallRecord
<1>8. Whole'
  <2>1. Habits!Scheduled.pc = "scheduled"
    BY DEF Habits!Scheduled
  <2>. QED
    BY <1>4, <1>6, <2>1 DEF HabitsInv, Whole
<1>9. ASSUME ~crossed' PROVE Known'
  <2>1. ~crossed /\ Known /\ counted' = x
    BY <1>2, <1>3, <1>9 DEF HabitsInv
  <2>2. Backed(x)
    BY <2>1 DEF Known, AllBacked
  <2>3. Earned(counted)' /\ heard' = counted'.opener
    BY <1>2, <1>3, <2>1, <2>2 DEF Backed, Earned
  <2>4. /\ Habits!Scheduled.ctx = Habits!None /\ Habits!Scheduled.pc = "scheduled"
        /\ Habits!NoJob.ctx = Habits!None
    BY DEF Habits!Scheduled, Habits!NoJob
  <2>5. AllBacked'
    <3>1. active \subseteq active'
      BY <1>3
    <3>2. \A d \in Phone : Backed(talk[d].ctx)' /\ Backed(stored[d])'
      BY NonePlain, <1>4, <1>5, <2>1, <2>4, <3>1 DEF Known, AllBacked, Backed
    <3>3. \A j \in Job : Backed(prefetch[j].ctx)'
      BY NonePlain, <1>6, <2>1, <2>4, <3>1 DEF Known, AllBacked, Backed
    <3>. QED
      BY <3>2, <3>3 DEF AllBacked
  <2>6. ASSUME NEW d \in Phone PROVE FreshCall(d)'
    BY <1>4, <1>5, <2>4 DEF FreshCall
  <2>7. ASSUME NEW j \in Job PROVE FreshJob(j)'
    <3>1. Fresh(Habits!None)'
      BY DEF Fresh, Habits!None
    <3>. QED
      BY <1>6, <2>4, <3>1 DEF FreshJob, Fresh
  <2>. QED
    BY <2>3, <2>5, <2>6, <2>7 DEF Known, AllFresh
<1>. QED
  BY <1>7, <1>8, <1>9 DEF HabitsInv

LEMMA MidnightIInv ==
    ASSUME Habits!HabitsAssumption, HabitsInv, Habits!Midnight
    PROVE  HabitsInv'
<1>1. /\ stored' \in [Phone -> Habits!Context]
      /\ \A c \in Phone : stored'[c] = stored[c] \/ stored'[c] = Habits!None
  BY NonePlain DEF HabitsInv, Habits!TypeOK, Habits!Midnight
<1>2. /\ UNCHANGED <<counted, talk, prefetch, active, Habits!history>> /\ today' \in 1..LastDay
  BY DEF Habits!Midnight, HabitsInv, Habits!TypeOK, Habits!HabitsAssumption
<1>3. Habits!TypeOK' /\ Whole'
  BY <1>1, <1>2 DEF HabitsInv, Habits!TypeOK, Whole, Habits!history
<1>4. ASSUME ~crossed' PROVE Known'
  <2>1. ~crossed /\ Known
    BY <1>2, <1>4 DEF HabitsInv, Habits!history
  <2>2. Earned(counted)' /\ heard' = counted'.opener
    BY <1>2, <2>1 DEF Known, Earned, Habits!history
  <2>3. AllBacked'
    BY NonePlain, <1>1, <1>2, <2>1 DEF Known, AllBacked, Backed
  <2>4. AllFresh'
    BY NonePlain, <1>1, <1>2, <2>1 DEF Known, AllFresh, FreshCall, FreshJob, Fresh, Habits!history
  <2>. QED
    BY <2>2, <2>3, <2>4 DEF Known
<1>. QED
  BY <1>3, <1>4 DEF HabitsInv

-----------------------------------------------------------------------------
LEMMA NextIInv == ASSUME Habits!HabitsAssumption, HabitsInv, [Habits!Next]_Habits!vars PROVE HabitsInv'
<1>1. CASE UNCHANGED Habits!vars
  BY <1>1 DEF Habits!vars, Habits!days, Habits!history, HabitsInv, Habits!TypeOK, Whole, Known,
     Earned, AllBacked, Backed,
              AllFresh, FreshCall, FreshJob, Fresh
<1>2. ASSUME NEW j \in Job, Habits!PrefetchStores(j) PROVE HabitsInv'
  BY <1>2, PrefetchStoresIInv
<1>3. ASSUME NEW j \in Job, Habits!PrefetchFails(j) PROVE HabitsInv'
  BY <1>3, PrefetchFailsIInv
<1>4. ASSUME NEW j \in Job, NEW c \in Phone, Habits!PrefetchReads(j, c) PROVE HabitsInv'
  BY <1>4, PrefetchReadsIInv
<1>5. ASSUME NEW c \in Phone, Habits!Reschedule(c) PROVE HabitsInv'
  BY <1>5, RescheduleIInv
<1>6. ASSUME NEW c \in Phone, Habits!WarmReads(c) PROVE HabitsInv'
  BY <1>6, WarmReadsIInv
<1>7. ASSUME NEW c \in Phone, Habits!WarmStores(c) PROVE HabitsInv'
  BY <1>7, WarmStoresIInv
<1>8. ASSUME NEW c \in Phone, Habits!WarmFails(c) PROVE HabitsInv'
  BY <1>8, WarmFailsIInv
<1>9. ASSUME NEW c \in Phone, Habits!Unanswered(c) PROVE HabitsInv'
  BY <1>9, EndsIInv DEF Habits!Unanswered
<1>10. ASSUME NEW c \in Phone, Habits!PickUp(c) PROVE HabitsInv'
  BY <1>10, PickUpIInv
<1>11. ASSUME NEW c \in Phone, Habits!HangUp(c) PROVE HabitsInv'
  BY <1>11, HangUpIInv
<1>12. ASSUME NEW c \in Phone, Habits!CleanupLoads(c) PROVE HabitsInv'
  BY <1>12, CleanupLoadsIInv
<1>13. ASSUME NEW c \in Phone, Habits!CleanupWrites(c) PROVE HabitsInv'
  BY <1>13, CleanupWritesIInv
<1>14. ASSUME NEW c \in Phone, Habits!EndsUncounted(c) PROVE HabitsInv'
  BY <1>14, EndsIInv DEF Habits!EndsUncounted
<1>15. CASE Habits!Midnight
  BY <1>15, MidnightIInv
<1>. QED
  BY <1>1, <1>2, <1>3, <1>4, <1>5, <1>6, <1>7, <1>8, <1>9, <1>10, <1>11, <1>12, <1>13,
     <1>14, <1>15 DEF Habits!Next

LEMMA HabitsAlone == Habits!Spec => []HabitsInv
<1>1. Habits!Init => HabitsInv
  BY InitIInv, PlanAssumption DEF PlanAssumption
<1>2. HabitsInv /\ [Habits!Next]_Habits!vars => HabitsInv'
  BY NextIInv, PlanAssumption DEF PlanAssumption
<1>. QED
  BY <1>1, <1>2, PTL DEF Habits!Spec

(* A behaviour of the planning is one of this component, or a stutter.    *)
LEMMA IsHabits == PlanSpec => Habits!Spec
<1>1. PlanInit => Habits!Init
  BY DEF PlanInit
<1>2. [PlanNext]_planVars => [Habits!Next]_Habits!vars
  BY DEF PlanNext, planVars, habitVars, Habits!vars
<1>. QED
  BY <1>1, <1>2, PTL DEF PlanSpec, Habits!Spec

LEMMA HabitsInvariance == PlanSpec => []HabitsInv
BY HabitsAlone, IsHabits, PTL

-----------------------------------------------------------------------------
(* The columns, the contexts and the marks have their types. *)
THEOREM HabitTypes == PlanSpec => []Habits!TypeOK
<1>1. HabitsInv => Habits!TypeOK
  BY DEF HabitsInv
<1>. QED
  BY <1>1, HabitsInvariance, PTL

(* Whatever calls and prefetches a user has under way, and however late    *)
(* their contexts are written back, the streak is backed by days that had  *)
(* a call, until two cleanups overtake each other (update_streak and       *)
(* _update_anti_habituation).                                              *)
THEOREM StreakIsEarned == PlanSpec => []StreakEarned
<1>1. HabitsInv => StreakEarned
  BY DEF HabitsInv, Known, Earned, StreakEarned, Habits!StreakEarned
<1>. QED
  BY <1>1, HabitsInvariance, PTL

(* Only an answered call starts to talk. *)
LEMMA OnlyPickUp ==
    ASSUME HabitsInv, [Habits!Next]_Habits!vars, NEW c \in Phone,
           talk[c].pc = "ringing", talk'[c].pc = "talking"
    PROVE  Habits!PickUp(c)
<1>1. talk \in [Phone -> CallRecord]
  BY DEF HabitsInv, Habits!TypeOK, CallRecord
<1>2. ASSUME NEW d \in Phone, NEW r, Habits!Goes(d, r), r.pc # "talking" PROVE FALSE
  BY <1>1, <1>2 DEF Habits!Goes
<1>3. ASSUME UNCHANGED talk PROVE FALSE
  BY <1>3
<1>4. CASE UNCHANGED Habits!vars
  BY <1>3, <1>4 DEF Habits!vars
<1>5. ASSUME NEW j \in Job, Habits!PrefetchStores(j) PROVE FALSE
  <2>. DEFINE d == prefetch[j].call
              e == talk[d].excused \/ prefetch[j].old
  <2>1. d \in Phone
    BY <1>5 DEF Habits!PrefetchStores, HabitsInv, Whole
  <2>2. talk[d].pc = "ringing" /\ talk' = [talk EXCEPT ![d] = [talk[d] EXCEPT !.excused = e]]
    BY <1>3, <1>5 DEF Habits!PrefetchStores
  <2>3. [talk[d] EXCEPT !.excused = e].pc = talk[d].pc
    BY <1>1, <2>1 DEF CallRecord
  <2>. HIDE DEF e
  <2>. QED
    BY <1>1, <2>1, <2>2, <2>3
<1>6. ASSUME NEW j \in Job, Habits!PrefetchFails(j) \/ \E d \in Phone : Habits!PrefetchReads(j, d)
      PROVE FALSE
  BY <1>3, <1>6 DEF Habits!PrefetchFails, Habits!PrefetchReads
<1>7. ASSUME NEW d \in Phone, Habits!WarmReads(d) PROVE FALSE
  <2>1. PICK x : Habits!Goes(d, [talk[d] EXCEPT !.pc = "warming", !.ctx = x])
    BY <1>7 DEF Habits!WarmReads
  <2>2. [talk[d] EXCEPT !.pc = "warming", !.ctx = x].pc = "warming"
    BY <1>1 DEF CallRecord
  <2>. QED
    BY <1>2, <2>1, <2>2
<1>8. ASSUME NEW d \in Phone, Habits!WarmStores(d) PROVE FALSE
  <2>1. [talk[d] EXCEPT !.pc = "ringing", !.ctx = Habits!None].pc = "ringing"
    BY <1>1 DEF CallRecord
  <2>. QED
    BY <1>2, <1>8, <2>1 DEF Habits!WarmStores
<1>9. ASSUME NEW d \in Phone, Habits!WarmFails(d) PROVE FALSE
  <2>1. [talk[d] EXCEPT !.pc = "ringing", !.ctx = Habits!None, !.excused = TRUE].pc = "ringing"
    BY <1>1 DEF CallRecord
  <2>. QED
    BY <1>2, <1>9, <2>1 DEF Habits!WarmFails
<1>10. ASSUME NEW d \in Phone, Habits!Unanswered(d) \/ Habits!EndsUncounted(d) PROVE FALSE
  BY <1>2, <1>10 DEF Habits!Unanswered, Habits!EndsUncounted, Habits!Scheduled
<1>11. ASSUME NEW d \in Phone, Habits!HangUp(d) PROVE FALSE
  <2>1. [talk[d] EXCEPT !.pc = "hungup"].pc = "hungup"
    BY <1>1 DEF CallRecord
  <2>. QED
    BY <1>2, <1>11, <2>1 DEF Habits!HangUp
<1>12. ASSUME NEW d \in Phone, Habits!CleanupLoads(d) PROVE FALSE
  <2>1. [talk[d] EXCEPT !.pc = "cleaning", !.row = counted].pc = "cleaning"
    BY <1>1 DEF CallRecord
  <2>. QED
    BY <1>2, <1>12, <2>1 DEF Habits!CleanupLoads
<1>13. ASSUME NEW d \in Phone, Habits!CleanupWrites(d) PROVE FALSE
  <2>. DEFINE e == talk[c].excused \/ talk[c].pc \in {"warming", "ringing"}
  <2>1. c # d /\ talk'[c] = [talk[c] EXCEPT !.excused = e]
    BY <1>13 DEF Habits!CleanupWrites
  <2>2. [talk[c] EXCEPT !.excused = e].pc = talk[c].pc
    BY <1>1 DEF CallRecord
  <2>. QED
    BY <2>1, <2>2
<1>14. ASSUME NEW d \in Phone \ {c}, Habits!PickUp(d) PROVE FALSE
  BY <1>1, <1>14 DEF Habits!PickUp, Habits!Goes
<1>15. ASSUME NEW d \in Phone, Habits!Reschedule(d) PROVE FALSE
  BY <1>3, <1>15 DEF Habits!Reschedule
<1>16. CASE Habits!Midnight
  BY <1>3, <1>16 DEF Habits!Midnight
<1>. QED
  BY <1>4, <1>5, <1>6, <1>7, <1>8, <1>9, <1>10, <1>11, <1>12, <1>13, <1>14, <1>15, <1>16
  DEF Habits!Next

(* And no two calls in a row open alike but for the causes NoRepeat names  *)
(* (select_opener and the second preparation in trigger_call_task).        *)
THEOREM NoTwoAlike == PlanSpec => NoRepeat
<1>. Habits!HabitsAssumption
  BY PlanAssumption DEF PlanAssumption
<1>1. ASSUME HabitsInv, [Habits!Next]_Habits!vars, NEW c \in Phone,
             talk[c].pc = "ringing", talk'[c].pc = "talking", ~talk[c].excused,
             heard # "none", ~crossed
      PROVE  talk'[c].ctx.opener # heard
  <2>1. PICK x \in {stored[c]} \cup Habits!Prepared \cup {Habits!None} :
            Habits!Goes(c, [Habits!Scheduled EXCEPT !.pc = "talking", !.ctx = x])
    BY <1>1, OnlyPickUp DEF Habits!PickUp
  <2>2. talk'[c].ctx = x
    BY <1>1, <2>1, ScheduledType DEF Habits!Goes, HabitsInv, Habits!TypeOK
  <2>3. Fresh(stored[c])
    BY <1>1, CallTyped DEF FreshCall
  <2>. QED
    BY <1>1, <2>1, <2>2, <2>3, PreparedKnown, NonePlain DEF Fresh
<1>2. HabitsInv /\ [Habits!Next]_Habits!vars =>
      [\A c \in Phone :
         /\ talk[c].pc = "ringing" /\ talk'[c].pc = "talking" /\ ~talk[c].excused
         /\ heard # "none" /\ ~crossed
         => talk'[c].ctx.opener # heard]_Habits!vars
  BY <1>1
<1>. QED
  BY <1>2, HabitsInvariance, IsHabits, PTL DEF Habits!Spec, NoRepeat, Habits!NoRepeat

-----------------------------------------------------------------------------
(* CallCalendar: its invariant is proved beside it; here it is carried     *)
(* over to the calendar of the planning.                                   *)

Proved == INSTANCE CallCalendar_proofs WITH now <- hour

(* The calendar of the planning and the one the invariant is proved of are *)
(* the same, definition by definition.                                     *)
LEMMA SameCalendar ==
  /\ Calendar!CalendarAssumption <=> Proved!CalendarAssumption
  /\ Calendar!Init <=> Proved!Init
  /\ Calendar!Next <=> Proved!Next
  /\ Calendar!TypeOK <=> Proved!TypeOK
  /\ Calendar!StalePlanHasCause <=> Proved!StalePlanHasCause
  /\ Calendar!CallsPerDay <=> Proved!CallsPerDay
  /\ Calendar!DroppedStaysDropped <=> Proved!DroppedStaysDropped
  BY DEF Calendar!CalendarAssumption, Proved!CalendarAssumption, Calendar!Init, Proved!Init,
     Calendar!SomeWindow, Proved!SomeWindow, Calendar!Settings, Proved!Settings,
     Calendar!Proc, Proved!Proc, Calendar!Idle, Proved!Idle, Calendar!SomeType,
     Proved!SomeType, Calendar!Slot, Proved!Slot, Calendar!Next, Proved!Next,
     Calendar!PlannerBegins, Proved!PlannerBegins, Calendar!Reads, Proved!Reads,
     Calendar!Begin, Proved!Begin, Calendar!Changing, Proved!Changing,
     Calendar!histories, Proved!histories, Calendar!Materialized, Proved!Materialized,
     Calendar!NewCall, Proved!NewCall, Calendar!Active, Proved!Active,
     Calendar!LocalDay, Proved!LocalDay, Calendar!SweepBegins, Proved!SweepBegins,
     Calendar!PlanCommits, Proved!PlanCommits, Calendar!Commit, Proved!Commit,
     Calendar!SlotOf, Proved!SlotOf, Calendar!GoneBut, Proved!GoneBut, Calendar!Deleted,
     Proved!Deleted, Calendar!Free, Proved!Free, Calendar!Planned, Proved!Planned,
     Calendar!InSlot, Proved!InSlot, Calendar!clocks, Proved!clocks,
     Calendar!EditorBegins, Proved!EditorBegins, Calendar!RemoveBegins,
     Proved!RemoveBegins, Calendar!Edit, Proved!Edit, Calendar!SaveBegins,
     Proved!SaveBegins, Calendar!UpdateBegins, Proved!UpdateBegins, Calendar!ZoneBegins,
     Proved!ZoneBegins, Calendar!OnboardBegins, Proved!OnboardBegins, Calendar!FirstDay,
     Proved!FirstDay, Calendar!LocalHour, Proved!LocalHour, Calendar!Works,
     Proved!Works, Calendar!Change, Proved!Change, Calendar!Deletable, Proved!Deletable,
     Calendar!Pending, Proved!Pending, Calendar!Future, Proved!Future, Calendar!Due,
     Proved!Due, Calendar!DeletesOf, Proved!DeletesOf, Calendar!TimesChanged,
     Proved!TimesChanged, Calendar!WritesWindow, Proved!WritesWindow,
     Calendar!NewWindow, Proved!NewWindow, Calendar!Reactivates, Proved!Reactivates,
     Calendar!Lapped, Proved!Lapped, Calendar!Excuse, Proved!Excuse,
     Calendar!LeftBehind, Proved!LeftBehind, Calendar!DuplicateWindow,
     Proved!DuplicateWindow, Calendar!SaveCommits, Proved!SaveCommits,
     Calendar!Rematerialized, Proved!Rematerialized, Calendar!RemoveCommits,
     Proved!RemoveCommits, Calendar!RematerializeAgain, Proved!RematerializeAgain,
     Calendar!ZoneCommits, Proved!ZoneCommits, Calendar!OnboardCommits,
     Proved!OnboardCommits, Calendar!DashboardZone, Proved!DashboardZone,
     Calendar!UserDrops, Proved!UserDrops, Calendar!Today, Proved!Today,
     Calendar!Locked, Proved!Locked, Calendar!Becomes, Proved!Becomes, Calendar!Dial,
     Proved!Dial, Calendar!UserMoves, Proved!UserMoves, Calendar!Fail, Proved!Fail,
     Calendar!Stuck, Proved!Stuck, Calendar!Tick, Proved!Tick, Calendar!TypeOK,
     Proved!TypeOK, Calendar!Entry, Proved!Entry, Calendar!Day, Proved!Day,
     Calendar!Txn, Proved!Txn, Calendar!StalePlanHasCause, Proved!StalePlanHasCause,
     Calendar!CallsPerDay, Proved!CallsPerDay, Calendar!Moves, Proved!Moves,
     Calendar!DroppedStaysDropped, Proved!DroppedStaysDropped, Calendar!vars,
     Proved!vars, Calendar!IsFiniteSet, Proved!IsFiniteSet, Calendar!Cardinality,
     Proved!Cardinality

LEMMA CalendarInvariance == PlanSpec => []Proved!IInv
<1>. Proved!CalendarAssumption
  BY PlanAssumption, SameCalendar DEF PlanAssumption
<1>1. PlanInit => Proved!IInv
  BY SameCalendar, Proved!InitIInv DEF PlanInit
<1>2. Proved!IInv /\ [PlanNext]_planVars => Proved!IInv'
  <2>1. [PlanNext]_planVars => Calendar!Next \/ UNCHANGED Proved!vars
    BY DEF PlanNext, planVars, calendarVars, Proved!vars
  <2>2. ASSUME Proved!IInv, Proved!Next \/ UNCHANGED Proved!vars PROVE Proved!IInv'
    BY <2>2, Proved!NextIInv
  <2>. QED
    BY <2>1, <2>2, SameCalendar
<1>. QED
  BY <1>1, <1>2, PTL DEF PlanSpec

(* A scheduled call that disagrees with the settings has a named cause,    *)
(* whatever planner, sweep, edits and zone changes interleave              *)
(* (_hard_delete_future_planned and what each edit plans anew).            *)
THEOREM PlanIsCurrent == PlanSpec => []StalePlanHasCause
<1>1. Proved!IInv => StalePlanHasCause
  BY Proved!StaleHasCause, SameCalendar DEF StalePlanHasCause
<1>. QED
  BY <1>1, CalendarInvariance, PTL

(* One call of a window and day, and one more for each time it was         *)
(* rescheduled, for any windows, editors, zones and bounds.                *)
THEOREM CallsAreCapped == PlanSpec => []CallsPerDay
<1>1. Proved!IInv => CallsPerDay
  BY Proved!IsCapped, SameCalendar DEF CallsPerDay
<1>. QED
  BY <1>1, CalendarInvariance, PTL

(* What the user skipped or cancelled does not come back.                  *)
THEOREM DroppedIsDropped == PlanSpec => []DroppedStaysDropped
<1>1. Proved!IInv => DroppedStaysDropped
  BY Proved!StaysDropped, SameCalendar DEF DroppedStaysDropped
<1>. QED
  BY <1>1, CalendarInvariance, PTL

(* Calendar, timing and habits have their types. *)
THEOREM PlanTypes == PlanSpec => []PlanTypeOK
<1>1. PlanSpec => Spec
  <2>1. PlanInit => Init
    BY DEF PlanInit
  <2>2. [PlanNext]_planVars => [Next]_vars
    BY DEF PlanNext, planVars
  <2>. QED
    BY <2>1, <2>2, PTL DEF PlanSpec, Spec
<1>2. Proved!IInv => Calendar!TypeOK
  BY Proved!IsTyped, SameCalendar
<1>3. Calendar!TypeOK /\ TypeOK /\ Habits!TypeOK => PlanTypeOK
  BY DEF PlanTypeOK
<1>. QED
  BY <1>1, <1>2, <1>3, CalendarInvariance, TimingTypes, HabitTypes, PTL
=============================================================================
