------------------------ MODULE CallCalendar_proofs ------------------------
(***************************************************************************)
(* The planned calls of one user, whatever planner, sweep and edits        *)
(* interleave: the inductive invariant of CallCalendar and what follows    *)
(* from it.  CallPlanning_proofs and Services_proofs carry it over to the  *)
(* compositions.                                                           *)
(***************************************************************************)
EXTENDS CallCalendar, FiniteSetTheorems, TLAPS

-----------------------------------------------------------------------------
(* The rows. *)

Same(r, q) == SlotOf(r) = SlotOf(q)

(* A slot has one planned row; a rescheduled row has its number. *)
OnePerSlot ==
    \A r, q \in log : r.kind = "planned" /\ q.kind = "planned" /\ Same(r, q) => r = q
MovesApart ==
    /\ \A r \in log : r.move <= edits
    /\ \A r, q \in log :
          r.kind = "rescheduled" /\ q.kind = "rescheduled" /\ r.move = q.move => r = q

DialledRows(s) == {r \in log : SlotOf(r) = s /\ r.status = "dialled"}
DialsCounted == \A s \in Slot : dialled[s] = Cardinality(DialledRows(s))

(* What the user dropped still takes its slot, or was rescheduled once. *)
DropStays ==
    \A s \in dropped : \E r \in log :
        SlotOf(r) = s /\ (r.kind = "planned" => r.status # "scheduled")

RowTypes == /\ IsFiniteSet(log) /\ log \subseteq Entry
            /\ edits \in 0..MaxEdits
            /\ dropped \subseteq Type \X Day /\ dialled \in [Slot -> Nat]

RowsOK == RowTypes /\ OnePerSlot /\ MovesApart /\ DialsCounted /\ DropStays

-----------------------------------------------------------------------------
(* The transactions. *)

(* Calls that one statement can insert. *)
Plans(S) ==
    /\ IsFiniteSet(S) /\ S \subseteq Entry
    /\ \A r \in S : r.kind = "planned" /\ r.status = "scheduled" /\ ~r.excused /\ r.move = 0
    /\ \A r, q \in S : Same(r, q) => r = q

Fine(t) ==
    /\ t \in Txn /\ Plans(t.todo)
    /\ t.pc = "changed" => t.op \in {"save", "remove", "zone"}
    /\ t.pc = "again" => t.op \in {"save", "remove"}
    /\ t.op = "save" => t.new \in Time
    /\ t.op = "zone" => t.new \in Zone
    /\ t.gone # {} => t.pc = "changed"

TxnOK == txn \in [Proc -> Txn] /\ \A p \in Proc : Fine(txn[p])

SettingsOK == /\ windows \in [Type -> Settings] /\ zone \in Zone /\ onboarded \in BOOLEAN
              /\ now \in 0..LastTick /\ fails \in 0..MaxFails

(* A row that agrees with the settings. *)
Fits(r) == windows[r.type] = [state |-> "active", time |-> r.time] /\ zone = r.zone

Unexcused == {r \in Pending : ~r.excused}

(* Deleted slots hold scheduled rows, each deleted by one transaction. *)
GoneOK ==
    /\ \A p \in Proc : \A s \in txn[p].gone : \E r \in Pending : SlotOf(r) = s
    /\ \A p, q \in Proc : p # q => txn[p].gone \cap txn[q].gone = {}

(* A transaction that is not marked as overlapping a change overlaps none. *)
Alone == \A p, q \in Proc : p # q /\ txn[p].pc # "idle" /\ ~txn[p].lap => ~Changing(q)

(* What such a transaction read still holds. *)
Current ==
    \A p \in Proc : ~txn[p].lap =>
        /\ txn[p].pc = "read" => \A r \in txn[p].todo : Fits(r)
        /\ txn[p].pc # "idle" /\ txn[p].op \in {"save", "remove"} => txn[p].zone = zone

(* Two transactions do not change the same setting. *)
Exclusive ==
    \A p, q \in Proc : p # q /\ Changing(p) /\ Changing(q) =>
        /\ WritesWindow(txn[p]) /\ WritesWindow(txn[q]) => txn[p].type # txn[q].type
        /\ ~(txn[p].op = "zone" /\ txn[q].op = "zone")

NewOK == \A p \in Proc :
    Changing(p) /\ NewWindow(txn[p]) => windows[txn[p].type].state = "none"

(* A transaction that changes settings has deleted the rows they concern.  *)
ClearOf(t) ==
    \A r \in Unexcused : /\ r.type \in DeletesOf(t) => SlotOf(r) \in t.gone
                         /\ ~(t.op = "zone" /\ ~t.on)
Clears == \A p \in Proc : Changing(p) => ClearOf(txn[p])

Agree == GoneOK /\ Alone /\ Current /\ Exclusive /\ NewOK /\ Clears /\ StalePlanHasCause

IInv == RowsOK /\ TxnOK /\ SettingsOK /\ Agree

-----------------------------------------------------------------------------
(* Sets, time and records. *)

(* The image of a finite set is finite. *)
LEMMA FiniteImage ==
  ASSUME NEW S, IsFiniteSet(S), NEW f, f = [x \in S |-> f[x]]
  PROVE  IsFiniteSet({f[x] : x \in S})
<1> DEFINE T == {f[x] : x \in S}
<1>1. f \in Surjection(S, T)
  BY DEF Surjection
<1> QED
  BY <1>1, FS_Surjection

(* Days are numbers. *)
LEMMA Days ==
  ASSUME CalendarAssumption, NEW t \in Nat, NEW z \in Zone, NEW hour \in Nat
  PROVE  LocalDay(t, z) \in Nat /\ FirstDay(t, z, hour) \in Nat
<1>1. t + z \in Nat /\ Hours \in Nat /\ Hours > 0
  BY DEF CalendarAssumption
<1>2. LocalDay(t, z) \in Nat
  BY <1>1 DEF LocalDay
<1> QED
  BY <1>2 DEF FirstDay

LEMMA NewCallEntry ==
  ASSUME CalendarAssumption, NEW ty \in Type, NEW d \in Nat, NEW h \in Nat, NEW z \in Zone
  PROVE  /\ NewCall(ty, d, h, z) \in Entry
         /\ SlotOf(NewCall(ty, d, h, z)) = <<ty, d>>
  BY DEF NewCall, Entry, SlotOf, Day

LEMMA NewCallSlot ==
  ASSUME NEW ty, NEW d, NEW h, NEW z, NEW r, r = NewCall(ty, d, h, z)
  PROVE  SlotOf(r) = <<ty, d>>
<1>1. r.type = ty /\ r.day = d
  BY DEF NewCall
<1> QED
  BY <1>1 DEF SlotOf

LEMMA ChosenDefaults ==
  ASSUME CalendarAssumption
  PROVE  SomeType \in Type /\ SomeWindow \in Settings
  BY DEF CalendarAssumption, SomeType, SomeWindow, Settings

LEMMA NoPlans == Plans({})
  BY FS_EmptySet DEF Plans

LEMMA IdleFine ==
  ASSUME CalendarAssumption
  PROVE  Fine(Idle)
<1>1. Idle \in Txn
  BY ChosenDefaults DEF Idle, Txn, CalendarAssumption
<1> QED
  BY <1>1, NoPlans DEF Fine, Idle

(* What a transaction writes and deletes depends on what it read only. *)
LEMMA SameWrites ==
  ASSUME NEW t, NEW u, u.op = t.op, u.type = t.type, u.new = t.new, u.seen = t.seen, u.on = t.on
  PROVE  /\ NewWindow(u) = NewWindow(t) /\ WritesWindow(u) = WritesWindow(t)
         /\ DeletesOf(u) = DeletesOf(t)
<1>1. /\ NewWindow(u) = NewWindow(t) /\ TimesChanged(u) = TimesChanged(t)
      /\ Reactivates(u) = Reactivates(t)
  BY DEF NewWindow, TimesChanged, Reactivates
<1> QED
  BY <1>1 DEF WritesWindow, DeletesOf

(* The mark of an overlap changes nothing else. *)
Overlapped(t) == [t EXCEPT !.lap = TRUE]

LEMMA LapFine ==
  ASSUME NEW t, Fine(t)
  PROVE  LET u == Overlapped(t) IN
         /\ Fine(u) /\ u.lap = TRUE
         /\ u.pc = t.pc /\ u.op = t.op /\ u.type = t.type /\ u.new = t.new /\ u.zone = t.zone
         /\ u.on = t.on /\ u.todo = t.todo /\ u.gone = t.gone /\ u.seen = t.seen
         /\ NewWindow(u) = NewWindow(t) /\ WritesWindow(u) = WritesWindow(t)
         /\ DeletesOf(u) = DeletesOf(t)
<1> DEFINE u == Overlapped(t)
<1>1. t \in Txn
  BY DEF Fine
<1>2. /\ u \in Txn /\ u.lap = TRUE
      /\ u.pc = t.pc /\ u.op = t.op /\ u.type = t.type /\ u.new = t.new /\ u.zone = t.zone
      /\ u.on = t.on /\ u.todo = t.todo /\ u.gone = t.gone /\ u.seen = t.seen
  BY <1>1 DEF Txn, Overlapped
<1> HIDE DEF u
<1>3. Fine(u)
  BY <1>2 DEF Fine
<1>4. /\ NewWindow(u) = NewWindow(t) /\ WritesWindow(u) = WritesWindow(t)
      /\ DeletesOf(u) = DeletesOf(t)
  BY <1>2, SameWrites
<1> QED
  BY <1>2, <1>3, <1>4 DEF u

(* Calls of one day, made from the settings of each window. *)
CallsOn(T, d, w, z) == {NewCall(ty, d[ty], w[ty], z) : ty \in T}

LEMMA DayPlans ==
  ASSUME CalendarAssumption, NEW T \in SUBSET Type, NEW d \in [Type -> Nat],
         NEW w \in [Type -> Nat], NEW z \in Zone
  PROVE  Plans(CallsOn(T, d, w, z))
<1> DEFINE f == [ty \in T |-> NewCall(ty, d[ty], w[ty], z)]
           S == {NewCall(ty, d[ty], w[ty], z) : ty \in T}
<1>1. IsFiniteSet(T)
  BY FS_Subset DEF CalendarAssumption
<1>2. IsFiniteSet({f[ty] : ty \in T})
  BY <1>1, FiniteImage
<1>3. S = {f[ty] : ty \in T}
  OBVIOUS
<1>4. \A ty \in T : NewCall(ty, d[ty], w[ty], z) \in Entry /\ SlotOf(NewCall(ty, d[ty], w[ty], z)) = <<ty, d[ty]>>
  BY NewCallEntry
<1>5. \A r \in S : r.kind = "planned" /\ r.status = "scheduled" /\ ~r.excused /\ r.move = 0
  BY DEF NewCall
<1>6. \A r, q \in S : Same(r, q) => r = q
  BY <1>4 DEF Same
<1> QED
  BY <1>2, <1>3, <1>4, <1>5, <1>6 DEF Plans, CallsOn

LEMMA UnionPlans ==
  ASSUME NEW S, NEW T, Plans(S), Plans(T), \A r \in S, q \in T : Same(r, q) => r = q
  PROVE  Plans(S \cup T)
<1>1. IsFiniteSet(S \cup T)
  BY FS_Union DEF Plans
<1> QED
  BY <1>1 DEF Plans, Same

-----------------------------------------------------------------------------
(* What a step does to the rows. *)

LEMMA RowsSame ==
  ASSUME RowsOK, log' = log, edits' \in 0..MaxEdits, edits' >= edits,
         dropped' = dropped, dialled' = dialled
  PROVE  RowsOK'
<1>1. RowTypes' /\ OnePerSlot' /\ DropStays'
  BY DEF RowsOK, RowTypes, OnePerSlot, DropStays, Same, SlotOf
<1>2. MovesApart'
  <2>1. \A r \in log : r.move \in Nat
    BY DEF RowsOK, RowTypes, Entry
  <2> QED
    BY <2>1 DEF RowsOK, RowTypes, MovesApart
<1>3. DialsCounted'
  BY DEF RowsOK, DialsCounted, DialledRows, SlotOf
<1> QED
  BY <1>1, <1>2, <1>3 DEF RowsOK

(* A row with its mark. *)
Marked(r, b) == [r EXCEPT !.excused = b]

LEMMA MarkedRow ==
  ASSUME NEW r \in Entry, NEW b \in BOOLEAN
  PROVE  /\ Marked(r, b) \in Entry /\ SlotOf(Marked(r, b)) = SlotOf(r)
         /\ Marked(r, b).type = r.type /\ Marked(r, b).day = r.day
         /\ Marked(r, b).time = r.time /\ Marked(r, b).zone = r.zone
         /\ Marked(r, b).kind = r.kind /\ Marked(r, b).status = r.status
         /\ Marked(r, b).move = r.move /\ Marked(r, b).excused = b
  BY DEF Marked, Entry, SlotOf

(* Rows that are marked as excused stay what they are. *)
LEMMA ExcuseRows ==
  ASSUME RowsOK, NEW S \in SUBSET Pending, log' = Excuse(S)
  PROVE  /\ \A r \in log' : \E q \in log :
               /\ SlotOf(r) = SlotOf(q) /\ r.kind = q.kind /\ r.status = q.status
               /\ r.move = q.move /\ r.type = q.type /\ r.time = q.time /\ r.zone = q.zone
               /\ r \in Entry
               /\ IF q \in S THEN r.excused /\ r = Marked(q, TRUE) ELSE r = q
         /\ \A q \in log : \E r \in log' :
               /\ SlotOf(r) = SlotOf(q) /\ r.kind = q.kind /\ r.status = q.status
         /\ IsFiniteSet(log')
<1> DEFINE f == [r \in log |-> IF r \in S THEN Marked(r, TRUE) ELSE r]
<1>1. log \subseteq Entry /\ IsFiniteSet(log)
  BY DEF RowsOK, RowTypes
<1>2. log' = {f[r] : r \in log}
  BY DEF Excuse, Marked
<1>3. \A q \in log :
         /\ SlotOf(f[q]) = SlotOf(q) /\ f[q].kind = q.kind /\ f[q].status = q.status
         /\ f[q].move = q.move /\ f[q].type = q.type /\ f[q].time = q.time
         /\ f[q].zone = q.zone /\ f[q] \in Entry
         /\ IF q \in S THEN f[q].excused /\ f[q] = Marked(q, TRUE) ELSE f[q] = q
  BY <1>1, MarkedRow
<1>4. f = [r \in log |-> f[r]]
  OBVIOUS
<1> HIDE DEF f
<1>5. IsFiniteSet({f[r] : r \in log})
  BY <1>1, <1>4, FiniteImage
<1>6. IsFiniteSet(log')
  BY <1>2, <1>5
<1>7. \A r \in log' : \E q \in log : r = f[q]
  BY <1>2
<1>8. \A q \in log : f[q] \in log'
  BY <1>2
<1>9. \A r \in log' : \E q \in log :
               /\ SlotOf(r) = SlotOf(q) /\ r.kind = q.kind /\ r.status = q.status
               /\ r.move = q.move /\ r.type = q.type /\ r.time = q.time /\ r.zone = q.zone
               /\ r \in Entry
               /\ IF q \in S THEN r.excused /\ r = Marked(q, TRUE) ELSE r = q
  <2> SUFFICES ASSUME NEW r \in log'
               PROVE  \E q \in log :
               /\ SlotOf(r) = SlotOf(q) /\ r.kind = q.kind /\ r.status = q.status
               /\ r.move = q.move /\ r.type = q.type /\ r.time = q.time /\ r.zone = q.zone
               /\ r \in Entry
               /\ IF q \in S THEN r.excused /\ r = Marked(q, TRUE) ELSE r = q
    OBVIOUS
  <2>1. PICK q \in log : r = f[q]
    BY <1>7
  <2> QED
    BY <1>3, <2>1, Zenon
<1>10. \A q \in log : \E r \in log' :
               /\ SlotOf(r) = SlotOf(q) /\ r.kind = q.kind /\ r.status = q.status
  BY <1>3, <1>8, Zenon
<1> QED
  BY <1>6, <1>9, <1>10, Zenon

LEMMA RowsExcused ==
  ASSUME RowsOK, NEW S \in SUBSET Pending, log' = Excuse(S), edits' \in 0..MaxEdits,
         edits' >= edits, dropped' = dropped, dialled' = dialled
  PROVE  RowsOK'
<1> DEFINE Of(r, q) ==
               /\ SlotOf(r) = SlotOf(q) /\ r.kind = q.kind /\ r.status = q.status
               /\ r.move = q.move /\ r \in Entry
               /\ IF q \in S THEN r = Marked(q, TRUE) ELSE r = q
<1>0. /\ \A r \in log' : \E q \in log : Of(r, q)
      /\ \A q \in log : \E r \in log' :
               SlotOf(r) = SlotOf(q) /\ r.kind = q.kind /\ r.status = q.status
      /\ IsFiniteSet(log')
  <2>1. ASSUME NEW r \in log' PROVE \E q \in log : Of(r, q)
    BY ExcuseRows, Zenon
  <2> QED
    BY <2>1, ExcuseRows, Zenon
<1>1. RowTypes'
  BY <1>0 DEF RowsOK, RowTypes
<1>2. OnePerSlot'
  <2> SUFFICES ASSUME NEW r \in log', NEW q \in log', r.kind = "planned", q.kind = "planned",
                      SlotOf(r) = SlotOf(q)
               PROVE  r = q
    BY DEF OnePerSlot, Same, SlotOf
  <2>1. PICK a \in log : Of(r, a)
    BY <1>0
  <2>2. PICK b \in log : Of(q, b)
    BY <1>0
  <2>3. a = b
    BY <2>1, <2>2 DEF RowsOK, OnePerSlot, Same
  <2> QED
    BY <2>1, <2>2, <2>3
<1>3. MovesApart'
  <2>1. \A r \in log : r.move \in Nat
    BY DEF RowsOK, RowTypes, Entry
  <2>2. ASSUME NEW r \in log' PROVE r.move <= edits'
    <3>1. PICK a \in log : Of(r, a)
      BY <1>0
    <3> QED
      BY <2>1, <3>1 DEF RowsOK, RowTypes, MovesApart
  <2>3. ASSUME NEW r \in log', NEW q \in log', r.kind = "rescheduled",
               q.kind = "rescheduled", r.move = q.move
        PROVE  r = q
    <3>1. PICK a \in log : Of(r, a)
      BY <1>0
    <3>2. PICK b \in log : Of(q, b)
      BY <1>0
    <3>3. a = b
      BY <2>3, <3>1, <3>2 DEF RowsOK, MovesApart
    <3> QED
      BY <3>1, <3>2, <3>3
  <2> QED
    BY <2>2, <2>3 DEF MovesApart
<1>4. DropStays'
  <2> SUFFICES ASSUME NEW s \in dropped
               PROVE  \E r \in log' : SlotOf(r) = s /\ (r.kind = "planned" => r.status # "scheduled")
    BY DEF DropStays, SlotOf
  <2>1. PICK q \in log : SlotOf(q) = s /\ (q.kind = "planned" => q.status # "scheduled")
    BY DEF RowsOK, DropStays
  <2> QED
    BY <2>1, <1>0
<1>5. DialsCounted'
  <2>1. ASSUME NEW s PROVE DialledRows(s)' = DialledRows(s)
    <3>1. \A q \in S : q.status = "scheduled"
      BY DEF Pending
    <3>2. ASSUME NEW r \in log', r.status = "dialled" PROVE r \in log
      <4>1. PICK a \in log : Of(r, a)
        BY <1>0
      <4> QED
        BY <3>1, <3>2, <4>1
    <3>3. \A r \in log : r.status = "dialled" => r \in log'
      <4>1. \A r \in log : r.status = "dialled" => r \notin S
        BY <3>1
      <4>2. \A r \in log : r \notin S => r \in Excuse(S)
        BY Zenon DEF Excuse
      <4> QED
        BY <4>1, <4>2
    <3> QED
      BY <3>2, <3>3 DEF DialledRows, SlotOf
  <2> QED
    BY <2>1 DEF RowsOK, DialsCounted
<1> QED
  BY <1>1, <1>2, <1>3, <1>4, <1>5 DEF RowsOK

(* A row that is deleted is a scheduled one. *)
LEMMA DeletedPending ==
  ASSUME RowsOK, GoneOK, NEW p \in Proc
  PROVE  Deleted(txn[p].gone) \subseteq Pending
<1> SUFFICES ASSUME NEW r \in Deleted(txn[p].gone) PROVE r \in Pending
  OBVIOUS
<1>1. r \in log /\ r.kind = "planned" /\ SlotOf(r) \in txn[p].gone
  BY DEF Deleted
<1>2. PICK q \in Pending : SlotOf(q) = SlotOf(r)
  BY <1>1 DEF GoneOK
<1> QED
  BY <1>1, <1>2 DEF RowsOK, OnePerSlot, Same, Pending

(* What a commit inserts. *)
Inserted(p, S) == {Marked(r, txn[p].lap) : r \in Free(S, txn[p].gone)}

LEMMA InsertedRows ==
  ASSUME NEW p \in Proc, txn[p].lap \in BOOLEAN, NEW S, Plans(S)
  PROVE  /\ IsFiniteSet(Inserted(p, S))
         /\ \A r \in Inserted(p, S) : \E q \in Free(S, txn[p].gone) :
               /\ r \in Entry /\ SlotOf(r) = SlotOf(q) /\ r.excused = txn[p].lap
               /\ r.kind = "planned" /\ r.status = "scheduled" /\ r.move = 0
               /\ r.type = q.type /\ r.time = q.time /\ r.zone = q.zone
               /\ r = Marked(q, txn[p].lap)
<1> DEFINE F == Free(S, txn[p].gone)
           f == [r \in F |-> Marked(r, txn[p].lap)]
<1>1. F \subseteq S
  BY DEF Free
<1>2. IsFiniteSet(F) /\ F \subseteq Entry
  BY <1>1, FS_Subset DEF Plans
<1>3. \A q \in F : LET r == f[q] IN
               /\ r \in Entry /\ SlotOf(r) = SlotOf(q) /\ r.excused = txn[p].lap
               /\ r.kind = "planned" /\ r.status = "scheduled" /\ r.move = 0
               /\ r.type = q.type /\ r.time = q.time /\ r.zone = q.zone
               /\ r = Marked(q, txn[p].lap)
  BY <1>1, <1>2, MarkedRow DEF Plans
<1>4. Inserted(p, S) = {f[r] : r \in F}
  BY DEF Inserted
<1>5. f = [r \in F |-> f[r]]
  OBVIOUS
<1> HIDE DEF f, F
<1>6. IsFiniteSet({f[r] : r \in F})
  BY <1>2, <1>5, FiniteImage
<1>7. \A r \in Inserted(p, S) : \E q \in F : r = f[q]
  BY <1>4
<1> QED
  BY <1>3, <1>4, <1>6, <1>7 DEF F

LEMMA RowsCommitted ==
  ASSUME RowsOK, GoneOK, NEW p \in Proc, txn[p].lap \in BOOLEAN, NEW S, Plans(S), NEW pc,
         Commit(p, S, pc), UNCHANGED <<edits, dropped, dialled>>
  PROVE  RowsOK'
<1>1. log' = (log \ Deleted(txn[p].gone)) \cup Inserted(p, S)
  BY DEF Commit, Inserted, Marked
<1>2. RowTypes'
  <2>1. IsFiniteSet(log \ Deleted(txn[p].gone))
    BY FS_Difference DEF RowsOK, RowTypes
  <2>2. IsFiniteSet(log')
    BY <1>1, <2>1, InsertedRows, FS_Union
  <2> QED
    BY <1>1, <2>2, InsertedRows DEF RowsOK, RowTypes
<1>3. OnePerSlot'
  <2> SUFFICES ASSUME NEW r \in log', NEW q \in log', r.kind = "planned", q.kind = "planned",
                      SlotOf(r) = SlotOf(q)
               PROVE  r = q
    BY DEF OnePerSlot, Same, SlotOf
  <2>1. CASE r \in log /\ q \in log
    BY <2>1 DEF RowsOK, OnePerSlot, Same
  <2>2. ASSUME NEW a \in log, a \notin Deleted(txn[p].gone), a.kind = "planned",
               NEW b \in Inserted(p, S), SlotOf(a) = SlotOf(b)
        PROVE  FALSE
    <3>1. PICK c \in Free(S, txn[p].gone) : SlotOf(b) = SlotOf(c)
      BY InsertedRows
    <3>2. SlotOf(c) \notin txn[p].gone
      BY <2>2, <3>1 DEF Deleted
    <3>3. a \in Planned(c.type, c.day)
      BY <2>2, <3>1 DEF Planned, InSlot, SlotOf
    <3> QED
      BY <3>2, <3>3 DEF Free
  <2>3. CASE r \in Inserted(p, S) /\ q \in Inserted(p, S)
    <3>1. PICK c \in Free(S, txn[p].gone) : SlotOf(r) = SlotOf(c)
                                               /\ r = Marked(c, txn[p].lap)
      BY <2>3, InsertedRows
    <3>2. PICK d \in Free(S, txn[p].gone) : SlotOf(q) = SlotOf(d)
                                               /\ q = Marked(d, txn[p].lap)
      BY <2>3, InsertedRows
    <3>3. c = d
      BY <3>1, <3>2 DEF Free, Plans, Same
    <3> QED
      BY <3>1, <3>2, <3>3
  <2> QED
    BY <1>1, <2>1, <2>2, <2>3
<1>4. MovesApart'
  <2>1. \A r \in Inserted(p, S) : r.move = 0 /\ r.kind = "planned"
    BY InsertedRows
  <2>2. edits \in Nat
    BY DEF RowsOK, RowTypes
  <2> QED
    BY <1>1, <2>1, <2>2 DEF RowsOK, MovesApart
<1>5. DropStays'
  <2> SUFFICES ASSUME NEW s \in dropped
               PROVE  \E r \in log' : SlotOf(r) = s /\ (r.kind = "planned" => r.status # "scheduled")
    BY DEF DropStays, SlotOf
  <2>1. PICK q \in log : SlotOf(q) = s /\ (q.kind = "planned" => q.status # "scheduled")
    BY DEF RowsOK, DropStays
  <2>2. q \notin Deleted(txn[p].gone)
    BY <2>1, DeletedPending DEF Pending
  <2> QED
    BY <1>1, <2>1, <2>2
<1>6. DialsCounted'
  <2>1. ASSUME NEW s PROVE DialledRows(s)' = DialledRows(s)
    <3>1. \A r \in Deleted(txn[p].gone) : r.status = "scheduled"
      BY DeletedPending DEF Pending
    <3>2. \A r \in Inserted(p, S) : r.status = "scheduled"
      BY InsertedRows
    <3> QED
      BY <1>1, <3>1, <3>2 DEF DialledRows, SlotOf
  <2> QED
    BY <2>1 DEF RowsOK, DialsCounted
<1> QED
  BY <1>2, <1>3, <1>4, <1>5, <1>6 DEF RowsOK

(* A scheduled row r becomes s: dropped, dialled or rescheduled. *)
TurnsInto(r, s) ==
    /\ r \in log /\ r.status = "scheduled" /\ s \in Entry /\ Becomes(r, s) /\ Same(r, s)
    /\ s.kind = "planned" => r.kind = "planned" /\ s.status # "scheduled"
    /\ \/ s.kind = r.kind /\ s.move = r.move /\ edits' \in {edits, edits + 1}
       \/ s.kind = "rescheduled" /\ s.move = edits + 1 /\ edits' = edits + 1
    /\ edits' \in 0..MaxEdits
    /\ dropped' \subseteq dropped \cup {SlotOf(s)} /\ dropped' \subseteq Type \X Day

LEMMA RowsTurned ==
  ASSUME RowsOK, NEW r, NEW s, TurnsInto(r, s),
         \/ s.status # "dialled" /\ dialled' = dialled
         \/ /\ s.status = "dialled" /\ s.kind = r.kind /\ s.move = r.move
            /\ dialled' = [dialled EXCEPT ![SlotOf(r)] = @ + 1]
  PROVE  RowsOK'
<1>1. /\ log' = (log \ {r}) \cup {s} /\ r \in log /\ r.status = "scheduled" /\ s \in Entry
      /\ SlotOf(r) = SlotOf(s) /\ log \subseteq Entry /\ IsFiniteSet(log)
      /\ edits \in Nat
  BY DEF RowsOK, RowTypes, TurnsInto, Becomes, Same
<1>2. \A q \in log : q.move \in Nat /\ q.move <= edits
  BY DEF RowsOK, RowTypes, MovesApart, Entry
<1>3. dialled' \in [Slot -> Nat]
  BY DEF RowsOK, RowTypes
<1>4. IsFiniteSet(log')
  BY <1>1, FS_RemoveElement, FS_AddElement
<1>5. RowTypes'
  BY <1>1, <1>3, <1>4 DEF RowTypes, TurnsInto
<1>6. OnePerSlot'
  BY <1>1 DEF RowsOK, OnePerSlot, Same, SlotOf, TurnsInto
<1>7. MovesApart'
  <2>1. ASSUME NEW q \in log' PROVE q.move <= edits'
    BY <1>1, <1>2 DEF TurnsInto
  <2>2. ASSUME NEW q \in log, q # r, q.kind = "rescheduled", s.kind = "rescheduled",
               q.move = s.move
        PROVE  FALSE
    BY <1>1, <1>2, <2>2 DEF TurnsInto, RowsOK, MovesApart
  <2> QED
    BY <1>1, <2>1, <2>2 DEF RowsOK, MovesApart
<1>8. DropStays'
  <2> SUFFICES ASSUME NEW d \in dropped'
               PROVE  \E q \in log' : SlotOf(q) = d /\ (q.kind = "planned" => q.status # "scheduled")
    BY DEF DropStays, SlotOf
  <2>1. CASE d = SlotOf(s)
    BY <1>1, <2>1 DEF TurnsInto
  <2>2. CASE d \in dropped /\ d # SlotOf(s)
    <3>1. PICK q \in log : SlotOf(q) = d /\ (q.kind = "planned" => q.status # "scheduled")
      BY <2>2 DEF RowsOK, DropStays
    <3> QED
      BY <1>1, <2>2, <3>1
  <2> QED
    BY <2>1, <2>2 DEF TurnsInto
<1>9. DialsCounted'
  <2>1. CASE s.status # "dialled" /\ dialled' = dialled
    <3>1. ASSUME NEW d PROVE DialledRows(d)' = DialledRows(d)
      BY <1>1, <2>1 DEF DialledRows, SlotOf
    <3> QED
      BY <2>1, <3>1 DEF RowsOK, DialsCounted
  <2>2. CASE /\ s.status = "dialled" /\ s.kind = r.kind /\ s.move = r.move
             /\ dialled' = [dialled EXCEPT ![SlotOf(r)] = @ + 1]
    <3>1. s \notin log
      <4> SUFFICES ASSUME s \in log PROVE FALSE
        OBVIOUS
      <4>1. s.kind \in {"planned", "rescheduled"}
        BY <1>1 DEF Entry
      <4>2. s = r
        BY <1>1, <2>2, <4>1 DEF RowsOK, OnePerSlot, MovesApart, Same
      <4> QED
        BY <1>1, <2>2, <4>2
    <3> SUFFICES ASSUME NEW d \in Slot PROVE dialled'[d] = Cardinality(DialledRows(d)')
      BY DEF DialsCounted
    <3>2. IsFiniteSet(DialledRows(d)) /\ dialled[d] = Cardinality(DialledRows(d))
      BY <1>1, FS_Subset DEF DialledRows, RowsOK, DialsCounted
    <3>3. CASE d = SlotOf(r)
      <4>1. DialledRows(d)' = DialledRows(d) \cup {s} /\ s \notin DialledRows(d)
        BY <1>1, <2>2, <3>1, <3>3 DEF DialledRows, SlotOf
      <4>2. dialled'[d] = dialled[d] + 1
        BY <2>2, <3>3 DEF RowsOK, RowTypes
      <4> QED
        BY <3>2, <4>1, <4>2, FS_AddElement
    <3>4. CASE d # SlotOf(r)
      <4>1. DialledRows(d)' = DialledRows(d)
        BY <1>1, <2>2, <3>4 DEF DialledRows, SlotOf
      <4> QED
        BY <2>2, <3>2, <3>4, <4>1 DEF RowsOK, RowTypes
    <3> QED
      BY <3>3, <3>4
  <2> QED
    BY <2>1, <2>2
<1> QED
  BY <1>5, <1>6, <1>7, <1>8, <1>9 DEF RowsOK

-----------------------------------------------------------------------------
(* What a step does to the agreement of rows, transactions and settings. *)

LEMMA AgreeSame ==
  ASSUME Agree, UNCHANGED <<windows, zone, log, txn>>
  PROVE  Agree'
<1>1. Pending' = Pending /\ Unexcused' = Unexcused
  BY DEF Pending, Unexcused
<1>2. \A r : Fits(r)' = Fits(r)
  BY DEF Fits
<1>3. \A p \in Proc : Changing(p)' = Changing(p)
  BY DEF Changing
<1>4. GoneOK' /\ Alone' /\ Current' /\ Exclusive' /\ NewOK'
  BY <1>1, <1>2, <1>3 DEF Agree, GoneOK, Alone, Current, Exclusive, NewOK
<1>5. Clears' /\ StalePlanHasCause'
  BY <1>1, <1>3 DEF Agree, Clears, ClearOf, StalePlanHasCause
<1> QED
  BY <1>4, <1>5 DEF Agree

(* One transaction begins or comes to nothing. *)
LEMMA AgreeSettled ==
  ASSUME Agree, TxnOK, NEW p \in Proc, NEW u, txn' = [txn EXCEPT ![p] = u],
         u.pc \in {"idle", "read"}, u.gone = {}, UNCHANGED <<windows, zone, log>>,
         u.pc = "read" /\ ~u.lap =>
             /\ \A q \in Proc : ~Changing(q)
             /\ \A r \in u.todo : Fits(r)
             /\ u.op \in {"save", "remove"} => u.zone = zone
  PROVE  Agree'
<1>1. Pending' = Pending /\ Unexcused' = Unexcused
  BY DEF Pending, Unexcused
<1>2. \A r : Fits(r)' = Fits(r)
  BY DEF Fits
<1>3. txn'[p] = u /\ \A q \in Proc : q # p => txn'[q] = txn[q]
  BY DEF TxnOK
<1>4. ~Changing(p)' /\ \A q \in Proc : q # p => Changing(q)' = Changing(q)
  BY <1>3 DEF Changing
<1>5. GoneOK'
  BY <1>1, <1>3 DEF Agree, GoneOK
<1>6. Alone'
  BY <1>3, <1>4 DEF Agree, Alone
<1>7. Current'
  BY <1>2, <1>3 DEF Agree, Current
<1>8. Exclusive' /\ NewOK'
  BY <1>3, <1>4 DEF Agree, Exclusive, NewOK
<1>9. Clears' /\ StalePlanHasCause'
  BY <1>1, <1>3, <1>4 DEF Agree, Clears, ClearOf, StalePlanHasCause
<1> QED
  BY <1>5, <1>6, <1>7, <1>8, <1>9 DEF Agree

(* A scheduled row that nobody has deleted is dropped, dialled or moved. *)
LEMMA AgreeTurned ==
  ASSUME Agree, RowsOK, TxnOK, NEW r, NEW s, TurnsInto(r, s), ~Locked(r),
         UNCHANGED <<windows, zone, txn>>
  PROVE  Agree'
<1>1. /\ log' = (log \ {r}) \cup {s} /\ r \in log
      /\ s.kind = "planned" => s.status # "scheduled"
  BY DEF TurnsInto, Becomes
<1>2. Pending' \subseteq Pending /\ Unexcused' \subseteq Unexcused /\ Pending \ {r} \subseteq Pending'
  BY <1>1 DEF Pending, Unexcused
<1>3. \A q : Fits(q)' = Fits(q)
  BY DEF Fits
<1>4. \A p \in Proc : Changing(p)' = Changing(p)
  BY DEF Changing
<1>5. GoneOK'
  <2> SUFFICES ASSUME NEW p \in Proc, NEW d \in txn[p].gone
               PROVE  \E q \in Pending' : SlotOf(q) = d
    BY DEF Agree, GoneOK, SlotOf
  <2>1. PICK q \in Pending : SlotOf(q) = d
    BY DEF Agree, GoneOK
  <2>2. q \in Deleted(txn[p].gone)
    BY <2>1 DEF Deleted, Pending
  <2>3. q # r
    BY <2>2 DEF Locked
  <2> QED
    BY <1>2, <2>1, <2>3
<1>6. Alone' /\ Current' /\ Exclusive' /\ NewOK'
  BY <1>3, <1>4 DEF Agree, Alone, Current, Exclusive, NewOK
<1>7. Clears' /\ StalePlanHasCause'
  BY <1>2, <1>4 DEF Agree, Clears, ClearOf, StalePlanHasCause, Unexcused, SlotOf
<1> QED
  BY <1>5, <1>6, <1>7 DEF Agree

LEMMA ExcusedPending ==
  ASSUME RowsOK, NEW S \in SUBSET Pending, log' = Excuse(S)
  PROVE  /\ Unexcused' \subseteq Unexcused \ S
         /\ \A q \in Pending : \E r \in Pending' : SlotOf(r) = SlotOf(q)
<1>1. ASSUME NEW r \in Unexcused' PROVE r \in Unexcused \ S
  <2>0. r \in log'
    BY <1>1 DEF Unexcused, Pending
  <2>1. PICK q \in log : IF q \in S THEN r.excused /\ r = Marked(q, TRUE) ELSE r = q
    BY <2>0, ExcuseRows, Zenon
  <2>2. ~r.excused /\ r.kind = "planned" /\ r.status = "scheduled"
    BY <1>1 DEF Unexcused, Pending
  <2> QED
    BY <2>1, <2>2 DEF Unexcused, Pending
<1>2. ASSUME NEW q \in Pending PROVE \E r \in Pending' : SlotOf(r) = SlotOf(q)
  <2>1. q \in log /\ q.kind = "planned" /\ q.status = "scheduled"
    BY DEF Pending
  <2>2. PICK r \in log' : SlotOf(r) = SlotOf(q) /\ r.kind = q.kind /\ r.status = q.status
    BY <2>1, ExcuseRows, Zenon
  <2> QED
    BY <2>1, <2>2 DEF Pending
<1> QED
  BY <1>1, <1>2

(* The dashboard writes the zone under everybody. *)
LEMMA AgreeZoned ==
  ASSUME Agree, RowsOK, TxnOK, NEW z \in Zone, DashboardZone(z)
  PROVE  Agree' /\ TxnOK'
<1>1. Pending \subseteq Pending
  OBVIOUS
<1>2. Unexcused' = {} /\ \A q \in Pending : \E r \in Pending' : SlotOf(r) = SlotOf(q)
  BY <1>1, ExcusedPending DEF DashboardZone, Unexcused
<1>3. \A q \in Proc : txn'[q] = IF txn[q].pc = "idle" THEN txn[q]
                                 ELSE Overlapped(txn[q])
  BY DEF DashboardZone, Overlapped
<1>4. ASSUME NEW q \in Proc
      PROVE  /\ Fine(txn'[q]) /\ txn'[q].pc = txn[q].pc /\ txn'[q].gone = txn[q].gone
             /\ txn'[q].type = txn[q].type /\ txn'[q].op = txn[q].op
             /\ NewWindow(txn'[q]) = NewWindow(txn[q])
             /\ WritesWindow(txn'[q]) = WritesWindow(txn[q])
             /\ txn'[q].pc # "idle" => txn'[q].lap
  <2>0. Fine(txn[q])
    BY DEF TxnOK
  <2>1. CASE txn[q].pc = "idle"
    BY <1>3, <2>0, <2>1
  <2>2. CASE txn[q].pc # "idle"
    <3>1. txn'[q] = Overlapped(txn[q])
      BY <1>3, <2>2
    <3> QED
      BY <2>0, <3>1, LapFine
  <2> QED
    BY <2>1, <2>2
<1>5. TxnOK'
  <2>1. txn' = [q \in Proc |-> txn'[q]]
    BY DEF DashboardZone
  <2>2. \A q \in Proc : txn'[q] \in Txn
    BY <1>4 DEF Fine
  <2>3. \A q \in Proc : Fine(txn[q])'
    BY <1>4 DEF Fine, Plans
  <2> QED
    BY <2>1, <2>2, <2>3 DEF TxnOK
<1>6. \A q \in Proc : Changing(q)' = Changing(q)
  BY <1>4 DEF Changing
<1>7. windows' = windows
  BY DEF DashboardZone
<1>8. GoneOK'
  <2>1. ASSUME NEW p \in Proc, NEW s \in txn'[p].gone PROVE \E r \in Pending' : SlotOf(r) = s
    BY <1>2, <1>4, <2>1 DEF Agree, GoneOK
  <2>2. \A p, q \in Proc : p # q => txn'[p].gone \cap txn'[q].gone = {}
    BY <1>4 DEF Agree, GoneOK
  <2> QED
    BY <2>1, <2>2 DEF GoneOK, SlotOf
<1>9. Alone' /\ Current'
  BY <1>4 DEF Alone, Current
<1>10. Exclusive'
  BY <1>4, <1>6 DEF Agree, Exclusive, WritesWindow, NewWindow, TimesChanged, Reactivates
<1>11. NewOK'
  BY <1>4, <1>6, <1>7 DEF Agree, NewOK, NewWindow
<1>12. Clears' /\ StalePlanHasCause'
  BY <1>2 DEF Clears, ClearOf, StalePlanHasCause, Unexcused
<1> QED
  BY <1>5, <1>8, <1>9, <1>10, <1>11, <1>12 DEF Agree

(* The settings and the rows of a transaction change, seen by nobody. *)
DeletedBy(t) == {SlotOf(r) : r \in Deletable(DeletesOf(t))}

LEMMA AgreeChanged ==
  ASSUME Agree, RowsOK, TxnOK, NEW p \in Proc, Change(p)
  PROVE  Agree' /\ TxnOK' /\ \E S \in SUBSET Pending : log' = Excuse(S)
<1> DEFINE t == txn[p]
           S == LeftBehind(t)
           del == DeletedBy(t)
<1>1. /\ t.pc = "read" /\ t.op \in {"save", "remove", "zone"}
      /\ \A q \in Proc \ {p} : Changing(q) =>
            /\ ~(WritesWindow(t) /\ WritesWindow(txn[q]) /\ txn[q].type = t.type)
            /\ ~(t.op = "zone" /\ txn[q].op = "zone")
      /\ ~(NewWindow(t) /\ windows[t.type].state # "none")
      /\ del \cap GoneBut(p) = {}
      /\ log' = Excuse(S) /\ windows' = windows /\ zone' = zone
  BY DEF Change, DeletedBy
<1>2. txn' = Lapped(p, [t EXCEPT !.pc = "changed", !.gone = del])
  BY DEF Change, DeletedBy
<1>3. Fine(t) /\ t \in Txn
  BY DEF TxnOK, Fine
<1>4. del \subseteq Type \X Day
  <2>1. \A r \in log : SlotOf(r) \in Type \X Day
    BY DEF RowsOK, RowTypes, Entry, SlotOf
  <2> QED
    BY <2>1 DEF DeletedBy, Deletable, Pending
<1>5. PICK u : u = [t EXCEPT !.pc = "changed", !.gone = del]
  OBVIOUS
<1>6. /\ u \in Txn /\ u.pc = "changed" /\ u.gone = del
      /\ u.op = t.op /\ u.type = t.type /\ u.new = t.new /\ u.zone = t.zone
      /\ u.on = t.on /\ u.todo = t.todo /\ u.seen = t.seen /\ u.lap = t.lap
  BY <1>3, <1>4, <1>5 DEF Txn
<1>7. Fine(u)
  BY <1>1, <1>3, <1>6 DEF Fine
<1>8. /\ NewWindow(u) = NewWindow(t) /\ WritesWindow(u) = WritesWindow(t)
      /\ DeletesOf(u) = DeletesOf(t)
  BY <1>6, SameWrites
<1>9. \A q \in Proc : txn'[q] = IF q = p THEN u
                                 ELSE IF txn[q].pc = "idle" THEN txn[q] ELSE Overlapped(txn[q])
  BY <1>2, <1>5 DEF Lapped, Overlapped
<1>10. ASSUME NEW q \in Proc, q # p
       PROVE  /\ Fine(txn'[q]) /\ txn'[q].pc = txn[q].pc /\ txn'[q].gone = txn[q].gone
              /\ txn'[q].type = txn[q].type /\ txn'[q].op = txn[q].op /\ txn'[q].on = txn[q].on
              /\ NewWindow(txn'[q]) = NewWindow(txn[q])
              /\ WritesWindow(txn'[q]) = WritesWindow(txn[q])
              /\ DeletesOf(txn'[q]) = DeletesOf(txn[q])
              /\ txn'[q].pc # "idle" => txn'[q].lap
  <2>0. Fine(txn[q])
    BY DEF TxnOK
  <2>1. CASE txn[q].pc = "idle"
    BY <1>9, <1>10, <2>0, <2>1
  <2>2. CASE txn[q].pc # "idle"
    <3>1. txn'[q] = Overlapped(txn[q])
      BY <1>9, <1>10, <2>2
    <3> QED
      BY <2>0, <3>1, LapFine
  <2> QED
    BY <2>1, <2>2
<1>11. txn'[p] = u
  BY <1>9
<1>12. S \in SUBSET Pending
  BY DEF LeftBehind
<1> HIDE DEF t, S, del
<1>13. /\ Unexcused' \subseteq Unexcused \ S
       /\ \A q \in Pending : \E r \in Pending' : SlotOf(r) = SlotOf(q)
  BY <1>1, <1>12, ExcusedPending
<1>14. TxnOK'
  <2>1. \A q \in Proc : Fine(txn'[q])
    BY <1>7, <1>10, <1>11
  <2>2. txn' = [q \in Proc |-> txn'[q]]
    BY <1>2 DEF Lapped
  <2>3. \A q \in Proc : txn'[q] \in Txn
    BY <2>1 DEF Fine
  <2>4. \A q \in Proc : Fine(txn[q])'
    BY <2>1 DEF Fine, Plans
  <2> QED
    BY <2>2, <2>3, <2>4 DEF TxnOK
<1>15. \A q \in Proc : Changing(q)' = (q = p \/ Changing(q))
  BY <1>6, <1>10, <1>11 DEF Changing
<1>16. GoneOK'
  <2>1. ASSUME NEW q \in Proc, NEW s \in txn'[q].gone PROVE \E r \in Pending' : SlotOf(r) = s
    <3>1. CASE q = p
      <4>1. PICK r \in Pending : SlotOf(r) = s
        BY <1>6, <1>11, <2>1, <3>1 DEF del, DeletedBy, Deletable
      <4> QED
        BY <1>13, <4>1
    <3>2. CASE q # p
      <4>1. PICK r \in Pending : SlotOf(r) = s
        BY <1>10, <2>1, <3>2 DEF Agree, GoneOK
      <4> QED
        BY <1>13, <4>1
    <3> QED
      BY <3>1, <3>2
  <2>2. ASSUME NEW q \in Proc, q # p PROVE del \cap txn[q].gone = {}
    BY <1>1, <2>2 DEF GoneBut
  <2>3. \A a, b \in Proc : a # b => txn'[a].gone \cap txn'[b].gone = {}
    BY <1>6, <1>10, <1>11, <2>2 DEF Agree, GoneOK
  <2> QED
    BY <2>1, <2>3 DEF GoneOK, SlotOf
<1>17. ASSUME NEW q \in Proc, q # p, Changing(q) PROVE t.lap
  BY <1>1, <1>17 DEF Agree, Alone, t
<1>18. Alone'
  BY <1>6, <1>10, <1>11, <1>15, <1>17 DEF Alone
<1>19. Current'
  <2>1. t.op \in {"save", "remove"} /\ ~t.lap => t.zone = zone
    BY <1>1 DEF Agree, Current, t
  <2> QED
    BY <1>1, <1>6, <1>10, <1>11, <2>1 DEF Current
<1>20. Exclusive'
  <2> SUFFICES ASSUME NEW a \in Proc, NEW b \in Proc, a # b, Changing(a)', Changing(b)'
               PROVE  /\ WritesWindow(txn'[a]) /\ WritesWindow(txn'[b])
                             => txn'[a].type # txn'[b].type
                      /\ ~(txn'[a].op = "zone" /\ txn'[b].op = "zone")
    BY DEF Exclusive, WritesWindow, NewWindow, TimesChanged, Reactivates
  <2>1. ASSUME NEW q \in Proc, q # p, Changing(q)'
        PROVE  /\ WritesWindow(u) /\ WritesWindow(txn'[q]) => txn'[q].type # u.type
               /\ ~(u.op = "zone" /\ txn'[q].op = "zone")
    <3>1. q \in Proc \ {p} /\ Changing(q)
      BY <1>15, <2>1
    <3>2. /\ ~(WritesWindow(t) /\ WritesWindow(txn[q]) /\ txn[q].type = t.type)
          /\ ~(t.op = "zone" /\ txn[q].op = "zone")
      BY <1>1, <3>1
    <3>3. txn'[q].type = txn[q].type /\ txn'[q].op = txn[q].op
          /\ WritesWindow(txn'[q]) = WritesWindow(txn[q])
      BY <1>10, <2>1
    <3> QED
      BY <1>6, <1>8, <3>2, <3>3
  <2>2. CASE a # p /\ b # p
    <3>1. Changing(a) /\ Changing(b)
      BY <1>15, <2>2
    <3>2. /\ WritesWindow(txn[a]) /\ WritesWindow(txn[b]) => txn[a].type # txn[b].type
          /\ ~(txn[a].op = "zone" /\ txn[b].op = "zone")
      BY <3>1 DEF Agree, Exclusive
    <3>3. ASSUME NEW q \in Proc, q # p
          PROVE  txn'[q].type = txn[q].type /\ txn'[q].op = txn[q].op
                 /\ WritesWindow(txn'[q]) = WritesWindow(txn[q])
      BY <1>10, <3>3
    <3> QED
      BY <2>2, <3>2, <3>3
  <2> QED
    BY <1>11, <2>1, <2>2
<1>21. NewOK'
  <2> SUFFICES ASSUME NEW q \in Proc, Changing(q)', NewWindow(txn'[q])
               PROVE  windows[txn'[q].type].state = "none"
    BY <1>1 DEF NewOK, NewWindow
  <2>1. CASE q = p
    BY <1>1, <1>6, <1>8, <1>11, <2>1
  <2>2. CASE q # p
    <3>1. Changing(q) /\ NewWindow(txn[q]) /\ txn'[q].type = txn[q].type
      BY <1>10, <1>15, <2>2
    <3> QED
      BY <3>1 DEF Agree, NewOK
  <2> QED
    BY <2>1, <2>2
<1>22. Clears'
  <2> SUFFICES ASSUME NEW q \in Proc, Changing(q)', NEW r \in Unexcused'
               PROVE  /\ r.type \in DeletesOf(txn'[q]) => SlotOf(r) \in txn'[q].gone
                      /\ ~(txn'[q].op = "zone" /\ ~txn'[q].on)
    BY DEF Clears, ClearOf, DeletesOf, TimesChanged, SlotOf
  <2>1. r \in Unexcused /\ r \in Pending /\ r \notin S
    BY <1>13 DEF Unexcused
  <2>2. CASE q = p
    <3>1. ~(t.op = "zone" /\ ~t.on)
      BY <2>1 DEF S, LeftBehind
    <3>2. r.type \in DeletesOf(t) => Future(r)
      BY <2>1 DEF S, LeftBehind
    <3>3. r.type \in DeletesOf(t) => SlotOf(r) \in del
      BY <2>1, <3>2 DEF del, DeletedBy, Deletable
    <3> QED
      BY <1>6, <1>8, <1>11, <2>2, <3>1, <3>3
  <2>3. CASE q # p
    BY <1>10, <1>15, <2>1, <2>3 DEF Agree, Clears, ClearOf
  <2> QED
    BY <2>2, <2>3
<1>23. StalePlanHasCause'
  BY <1>1, <1>13 DEF Agree, StalePlanHasCause, Unexcused
<1> QED
  BY <1>1, <1>12, <1>14, <1>16, <1>18, <1>19, <1>20, <1>21, <1>22, <1>23 DEF Agree

(* A transaction commits what it wrote, deletes its rows and inserts S. *)
LEMMA AgreeCommitted ==
  ASSUME CalendarAssumption, Agree, RowsOK, TxnOK, NEW p \in Proc, NEW S, Plans(S),
         NEW pc \in {"idle", "again"}, Commit(p, S, pc), txn[p].pc # "idle",
         pc = "again" => /\ txn[p].op \in {"save", "remove"}
                         /\ ~txn[p].lap => txn[p].zone = zone',
         UNCHANGED <<windows, zone>> \/ Changing(p),
         \A r \in Unexcused : SlotOf(r) \notin txn[p].gone => Fits(r)',
         ~txn[p].lap => \A r \in S : Fits(r)',
         \A q \in Proc : q # p /\ Changing(q) /\ NewWindow(txn[q]) =>
             windows'[txn[q].type].state = "none"
  PROVE  Agree' /\ TxnOK'
<1> DEFINE t == txn[p]
<1>1. Fine(t) /\ t \in Txn /\ t.lap \in BOOLEAN
  BY DEF TxnOK, Fine, Txn
<1>2. log' = (log \ Deleted(t.gone)) \cup Inserted(p, S)
  BY DEF Commit, Inserted, Marked
<1>3. PICK u : u = IF pc = "idle" THEN Idle ELSE [t EXCEPT !.pc = pc, !.gone = {}]
  OBVIOUS
<1>4. txn' = [txn EXCEPT ![p] = u]
  BY <1>3 DEF Commit, TxnOK
<1>5. /\ Fine(u) /\ u.pc = pc /\ u.gone = {}
      /\ pc = "again" => u.op = t.op /\ u.lap = t.lap /\ u.zone = t.zone
  <2>1. CASE pc = "idle"
    BY <1>3, <2>1, IdleFine DEF Idle
  <2>2. CASE pc = "again"
    <3>1. PICK a : a = [t EXCEPT !.pc = "again"]
      OBVIOUS
    <3>2. u = [a EXCEPT !.gone = {}]
      BY <1>3, <2>2, <3>1
    <3>3. /\ a \in Txn /\ a.pc = "again" /\ a.op = t.op /\ a.new = t.new /\ a.todo = t.todo
          /\ a.lap = t.lap /\ a.zone = t.zone
      BY <1>1, <3>1 DEF Txn
    <3>4. /\ u \in Txn /\ u.pc = "again" /\ u.op = t.op /\ u.new = t.new /\ u.todo = t.todo
          /\ u.lap = t.lap /\ u.zone = t.zone /\ u.gone = {}
      BY <3>2, <3>3 DEF Txn
    <3> QED
      BY <1>1, <2>2, <3>4 DEF Fine
  <2> QED
    BY <2>1, <2>2
<1>6. txn'[p] = u /\ \A q \in Proc : q # p => txn'[q] = txn[q]
  BY <1>4 DEF TxnOK
<1>7. ~Changing(p)' /\ \A q \in Proc : q # p => Changing(q)' = Changing(q)
  BY <1>5, <1>6 DEF Changing
<1>8. TxnOK'
  <2>1. \A q \in Proc : Fine(txn'[q])
    BY <1>5, <1>6 DEF TxnOK
  <2>2. txn' \in [Proc -> Txn]
    BY <1>4, <1>5 DEF TxnOK, Fine
  <2>3. \A q \in Proc : Fine(txn[q])'
    BY <2>1 DEF Fine, Plans
  <2> QED
    BY <2>2, <2>3 DEF TxnOK
<1> HIDE DEF t
<1>9. \A r \in Inserted(p, S) : /\ r \in Pending' /\ r.excused = t.lap
                                /\ \E q \in S : r.type = q.type /\ r.time = q.time /\ r.zone = q.zone
  <2> SUFFICES ASSUME NEW r \in Inserted(p, S)
               PROVE  /\ r \in Pending' /\ r.excused = t.lap
                      /\ \E q \in S : r.type = q.type /\ r.time = q.time /\ r.zone = q.zone
    OBVIOUS
  <2>1. PICK q \in Free(S, txn[p].gone) :
            /\ r.excused = txn[p].lap /\ r.kind = "planned" /\ r.status = "scheduled"
            /\ r.type = q.type /\ r.time = q.time /\ r.zone = q.zone
    BY <1>1, InsertedRows DEF t
  <2>2. q \in S
    BY DEF Free
  <2> QED
    BY <1>2, <2>1, <2>2 DEF Pending, t
<1>10. ASSUME NEW r \in Unexcused'
       PROVE  \/ r \in Unexcused /\ SlotOf(r) \notin t.gone
              \/ r \in Inserted(p, S) /\ ~t.lap
  <2>1. r \in log' /\ r.kind = "planned" /\ r.status = "scheduled" /\ ~r.excused
    BY DEF Unexcused, Pending
  <2>2. CASE r \in Inserted(p, S)
    BY <1>9, <2>1, <2>2
  <2>3. CASE r \in log /\ r \notin Deleted(t.gone)
    BY <2>1, <2>3 DEF Unexcused, Pending, Deleted
  <2> QED
    BY <1>2, <2>1, <2>2, <2>3
<1>11. ASSUME NEW q \in Proc, q # p, Changing(q) PROVE t.lap
  BY <1>11 DEF Agree, Alone, t
<1>12. GoneOK'
  <2>1. ASSUME NEW q \in Proc, NEW s \in txn'[q].gone PROVE \E r \in Pending' : SlotOf(r) = s
    <3>1. q # p /\ txn'[q] = txn[q]
      BY <1>5, <1>6, <2>1
    <3>2. PICK r \in Pending : SlotOf(r) = s
      BY <2>1, <3>1 DEF Agree, GoneOK
    <3>3. s \notin t.gone
      BY <2>1, <3>1 DEF Agree, GoneOK, t
    <3>4. r \in log /\ r \notin Deleted(t.gone)
      BY <3>2, <3>3 DEF Deleted, Pending
    <3> QED
      BY <1>2, <3>2, <3>4 DEF Pending
  <2>2. \A a, b \in Proc : a # b => txn'[a].gone \cap txn'[b].gone = {}
    BY <1>5, <1>6 DEF Agree, GoneOK
  <2> QED
    BY <2>1, <2>2 DEF GoneOK, SlotOf
<1>13. Alone'
  <2> SUFFICES ASSUME NEW a \in Proc, NEW b \in Proc, a # b, txn'[a].pc # "idle",
                      ~txn'[a].lap, Changing(b)'
               PROVE  FALSE
    BY DEF Alone
  <2>1. b # p /\ Changing(b)
    BY <1>7
  <2>2. CASE a = p
    BY <1>5, <1>6, <1>11, <2>1, <2>2
  <2>3. CASE a # p
    BY <1>6, <2>1, <2>3 DEF Agree, Alone
  <2> QED
    BY <2>2, <2>3
<1>14. Current'
  <2> SUFFICES ASSUME NEW a \in Proc, ~txn'[a].lap
               PROVE  /\ txn'[a].pc = "read" => \A r \in txn'[a].todo : Fits(r)'
                      /\ txn'[a].pc # "idle" /\ txn'[a].op \in {"save", "remove"}
                            => txn'[a].zone = zone'
    BY DEF Current
  <2>1. CASE a = p
    BY <1>5, <1>6, <2>1 DEF t
  <2>2. CASE a # p /\ txn[a].pc # "idle"
    <3>1. txn'[a] = txn[a]
      BY <1>6, <2>2
    <3>2. ~Changing(p)
      BY <2>2, <3>1 DEF Agree, Alone
    <3>3. \A r : Fits(r)' = Fits(r)
      BY <3>2 DEF Fits
    <3> QED
      BY <3>1, <3>2, <3>3 DEF Agree, Current
  <2>3. CASE a # p /\ txn[a].pc = "idle"
    BY <1>6, <2>3
  <2> QED
    BY <2>1, <2>2, <2>3
<1>15. Exclusive'
  BY <1>6, <1>7 DEF Agree, Exclusive, WritesWindow, NewWindow, TimesChanged, Reactivates
<1>16. NewOK'
  BY <1>6, <1>7 DEF NewOK, NewWindow
<1>17. Clears'
  <2> SUFFICES ASSUME NEW q \in Proc, q # p, Changing(q), NEW r \in Unexcused'
               PROVE  /\ r.type \in DeletesOf(txn[q]) => SlotOf(r) \in txn[q].gone
                      /\ ~(txn[q].op = "zone" /\ ~txn[q].on)
    BY <1>6, <1>7 DEF Clears, ClearOf, DeletesOf, TimesChanged, SlotOf
  <2>1. r \in Unexcused
    BY <1>10, <1>11
  <2> QED
    BY <2>1 DEF Agree, Clears, ClearOf
<1>18. StalePlanHasCause'
  <2> SUFFICES ASSUME NEW r \in Unexcused' PROVE Fits(r)'
    BY DEF StalePlanHasCause, Unexcused, Fits
  <2>1. CASE r \in Unexcused /\ SlotOf(r) \notin t.gone
    BY <2>1 DEF t
  <2>2. CASE r \in Inserted(p, S) /\ ~t.lap
    <3>1. PICK q \in S : r.type = q.type /\ r.time = q.time /\ r.zone = q.zone
      BY <1>9, <2>2
    <3>2. Fits(q)'
      BY <2>2 DEF t
    <3> QED
      BY <3>1, <3>2 DEF Fits
  <2> QED
    BY <1>10, <2>1, <2>2
<1> QED
  BY <1>8, <1>12, <1>13, <1>14, <1>15, <1>16, <1>17, <1>18 DEF Agree

-----------------------------------------------------------------------------
(* The calls that are planned. *)

LEMMA TwoDayPlans ==
  ASSUME CalendarAssumption, NEW T \in SUBSET Type, NEW d \in [Type -> Nat],
         NEW e \in [Type -> Nat], NEW w \in [Type -> Nat], NEW z \in Zone
  PROVE  Plans(CallsOn(T, d, w, z) \cup CallsOn(T, e, w, z))
<1>1. Plans(CallsOn(T, d, w, z)) /\ Plans(CallsOn(T, e, w, z))
  BY DayPlans
<1>2. ASSUME NEW r \in CallsOn(T, d, w, z), NEW q \in CallsOn(T, e, w, z), Same(r, q)
      PROVE  r = q
  <2>1. PICK ty \in T : r = NewCall(ty, d[ty], w[ty], z)
    BY DEF CallsOn
  <2>2. PICK u \in T : q = NewCall(u, e[u], w[u], z)
    BY DEF CallsOn
  <2>3. SlotOf(r) = <<ty, d[ty]>> /\ SlotOf(q) = <<u, e[u]>>
    BY <2>1, <2>2, NewCallSlot
  <2>4. SlotOf(r) = SlotOf(q)
    BY <1>2 DEF Same
  <2>5. ty = u /\ d[ty] = e[u]
    BY <2>3, <2>4
  <2> QED
    BY <2>1, <2>2, <2>5
<1> QED
  BY <1>1, <1>2, UnionPlans

(* The hour and the days of a call. *)
LEMMA PlanTypes ==
  ASSUME CalendarAssumption, SettingsOK
  PROVE  /\ now \in Nat /\ LocalDay(now, zone) \in Nat
         /\ Time \subseteq Nat
         /\ \A ty \in Type : windows[ty].time \in Time
         /\ \A z \in Zone, h \in Time : LocalDay(now, z) \in Nat /\ FirstDay(now, z, h) \in Nat
<1>1. now \in Nat /\ Time \subseteq Nat /\ zone \in Zone
  BY DEF CalendarAssumption, SettingsOK
<1>2. \A ty \in Type : windows[ty].time \in Time
  BY DEF SettingsOK, Settings
<1> QED
  BY <1>1, <1>2, Days

(* A call for each active window agrees with the settings. *)
LEMMA ActiveFits ==
  ASSUME SettingsOK, NEW ty \in Active, NEW d
  PROVE  Fits(NewCall(ty, d, windows[ty].time, zone))
<1>1. windows[ty] \in Settings /\ windows[ty].state = "active"
  BY DEF Active, SettingsOK
<1>2. windows[ty] = [state |-> "active", time |-> windows[ty].time]
  BY <1>1 DEF Settings
<1> QED
  BY <1>2 DEF Fits, NewCall

LEMMA MaterializedPlans ==
  ASSUME CalendarAssumption, SettingsOK, NEW d \in Nat, NEW e \in Nat
  PROVE  /\ Plans(Materialized(d) \cup Materialized(e))
         /\ \A r \in Materialized(d) : Fits(r)
<1> DEFINE D == [ty \in Type |-> d]
           E == [ty \in Type |-> e]
           W == [ty \in Type |-> windows[ty].time]
<1>1. Active \subseteq Type /\ zone \in Zone
  BY DEF Active, SettingsOK
<1>2. D \in [Type -> Nat] /\ E \in [Type -> Nat] /\ W \in [Type -> Nat]
  BY PlanTypes
<1>3. /\ Materialized(d) = CallsOn(Active, D, W, zone)
      /\ Materialized(e) = CallsOn(Active, E, W, zone)
  BY <1>1 DEF Materialized, CallsOn
<1> HIDE DEF D, E, W
<1>4. Plans(CallsOn(Active, D, W, zone) \cup CallsOn(Active, E, W, zone))
  BY <1>1, <1>2, TwoDayPlans
<1>5. \A r \in Materialized(d) : Fits(r)
  BY ActiveFits DEF Materialized
<1> QED
  BY <1>3, <1>4, <1>5

LEMMA FirstPlans ==
  ASSUME CalendarAssumption, SettingsOK
  PROVE  LET S == {NewCall(ty, FirstDay(now, zone, windows[ty].time),
                           windows[ty].time, zone) : ty \in Active}
         IN  Plans(S) /\ \A r \in S : Fits(r)
<1> DEFINE D == [ty \in Type |-> FirstDay(now, zone, windows[ty].time)]
           W == [ty \in Type |-> windows[ty].time]
           S == {NewCall(ty, FirstDay(now, zone, windows[ty].time),
                           windows[ty].time, zone) : ty \in Active}
<1>1. Active \subseteq Type /\ zone \in Zone
  BY DEF Active, SettingsOK
<1>2. D \in [Type -> Nat] /\ W \in [Type -> Nat]
  BY <1>1, PlanTypes
<1>3. S = CallsOn(Active, D, W, zone)
  BY <1>1 DEF CallsOn
<1>4. \A r \in S : Fits(r)
  BY ActiveFits
<1> HIDE DEF D, W, S
<1>5. Plans(S)
  BY <1>1, <1>2, <1>3, DayPlans
<1> QED
  BY <1>4, <1>5 DEF S

(* What an edit plans anew for some windows. *)
LEMMA RematerializedPlans ==
  ASSUME CalendarAssumption, SettingsOK, NEW T \in SUBSET Type, NEW w \in [Type -> Time],
         NEW z \in Zone
  PROVE  Plans(UNION {Rematerialized(ty, w[ty], z) : ty \in T})
<1> DEFINE D == [ty \in Type |-> FirstDay(now, z, w[ty])]
           E == [ty \in Type |-> LocalDay(now, z) + 1]
           A == CallsOn(T, D, w, z)
           B == CallsOn(T, E, w, z)
<1>1. D \in [Type -> Nat] /\ E \in [Type -> Nat]
  BY PlanTypes
<1>2. \A ty \in T : Rematerialized(ty, w[ty], z)
                      = {NewCall(ty, D[ty], w[ty], z), NewCall(ty, E[ty], w[ty], z)}
  BY DEF Rematerialized
<1>5. w \in [Type -> Nat]
  BY PlanTypes
<1> HIDE DEF D, E
<1>3. UNION {Rematerialized(ty, w[ty], z) : ty \in T} = A \cup B
  BY <1>2 DEF CallsOn
<1>4. Plans(A \cup B)
  BY <1>1, <1>5, TwoDayPlans
<1> QED
  BY <1>3, <1>4

LEMMA OneRematerialized ==
  ASSUME CalendarAssumption, SettingsOK, NEW ty \in Type, NEW h \in Time, NEW z \in Zone
  PROVE  Plans(Rematerialized(ty, h, z))
<1> DEFINE w == [u \in Type |-> h]
<1>1. w \in [Type -> Time] /\ {ty} \in SUBSET Type
  OBVIOUS
<1>2. UNION {Rematerialized(u, w[u], z) : u \in {ty}} = Rematerialized(ty, h, z)
  OBVIOUS
<1> HIDE DEF w
<1> QED
  BY <1>1, <1>2, RematerializedPlans

(* They agree with the window and the zone they were made from. *)
LEMMA RematerializedCalls ==
  ASSUME NEW ty, NEW h, NEW z, NEW r \in Rematerialized(ty, h, z)
  PROVE  r.type = ty /\ r.time = h /\ r.zone = z
  BY DEF Rematerialized, NewCall

-----------------------------------------------------------------------------
(* The steps. *)

LEMMA Begins ==
  ASSUME CalendarAssumption, IInv, NEW p \in Proc, NEW t \in Txn, t.gone = {}, Plans(t.todo),
         t.op = "save" => t.new \in Time, t.op = "zone" => t.new \in Zone,
         t.op \in {"save", "remove"} => t.zone = zone, \A r \in t.todo : Fits(r),
         Begin(p, t), edits' \in {edits, edits + 1}, edits' \in 0..MaxEdits
  PROVE  IInv'
<1>1. PICK lap \in BOOLEAN : lap = \E q \in Proc : Changing(q)
  OBVIOUS
<1>2. PICK u : u = [t EXCEPT !.pc = "read", !.lap = lap]
  OBVIOUS
<1>3. txn' = [txn EXCEPT ![p] = u] /\ UNCHANGED <<windows, zone, onboarded, log, now, fails, histories>>
  BY <1>1, <1>2 DEF Begin
<1>4. PICK a : a = [t EXCEPT !.pc = "read"]
  OBVIOUS
<1>5. a \in Txn /\ a.pc = "read" /\ a.op = t.op /\ a.new = t.new /\ a.zone = t.zone
      /\ a.todo = t.todo /\ a.gone = t.gone
  BY <1>4 DEF Txn
<1>6. u = [a EXCEPT !.lap = lap]
  BY <1>2, <1>4
<1>7. u \in Txn /\ u.pc = "read" /\ u.op = t.op /\ u.new = t.new /\ u.zone = t.zone
      /\ u.todo = t.todo /\ u.gone = {} /\ u.lap = lap
  BY <1>5, <1>6 DEF Txn
<1>8. Fine(u)
  BY <1>7 DEF Fine
<1>9. Agree'
  BY <1>1, <1>3, <1>7, AgreeSettled DEF IInv
<1>10. TxnOK'
  <2>1. txn' \in [Proc -> Txn] /\ \A q \in Proc : Fine(txn'[q])
    BY <1>3, <1>7, <1>8 DEF IInv, TxnOK
  <2> QED
    BY <2>1 DEF TxnOK, Fine, Plans
<1>11. RowsOK'
  <2>1. edits' >= edits /\ RowsOK
    BY DEF IInv, RowsOK, RowTypes
  <2>2. UNCHANGED <<log, dropped, dialled>>
    BY <1>3 DEF histories
  <2> QED
    BY <2>1, <2>2, RowsSame
<1>12. SettingsOK'
  BY <1>3 DEF IInv, SettingsOK
<1> QED
  BY <1>9, <1>10, <1>11, <1>12 DEF IInv

(* The planner and the sweep read. *)
LEMMA ReadBegins ==
  ASSUME CalendarAssumption, IInv, NEW p \in Proc, NEW op \in {"plan", "sweep"}, NEW calls,
         Plans(calls), \A r \in calls : Fits(r), Reads(p, op, calls)
  PROVE  IInv'
<1>1. PICK t : t = [Idle EXCEPT !.op = op, !.todo = calls]
  OBVIOUS
<1>2. t = [op |-> op, pc |-> "idle", type |-> SomeType, new |-> 0, seen |-> SomeWindow,
           zone |-> 0, on |-> FALSE, todo |-> calls, gone |-> {}, lap |-> FALSE]
  BY <1>1 DEF Idle
<1>3. t \in Txn
  BY <1>2, ChosenDefaults DEF Txn, Plans, CalendarAssumption
<1>4. Begin(p, t) /\ edits' = edits
  BY <1>1 DEF Reads
<1>5. edits \in 0..MaxEdits
  BY DEF IInv, RowsOK, RowTypes
<1>6. t.gone = {} /\ t.op = op /\ t.todo = calls
  BY <1>2
<1> QED
  BY <1>3, <1>4, <1>5, <1>6, Begins

LEMMA PlannerSteps ==
  ASSUME CalendarAssumption, IInv, PlannerBegins \/ SweepBegins
  PROVE  IInv'
<1>1. SettingsOK
  BY DEF IInv
<1>2. LocalDay(now, zone) \in Nat /\ LocalDay(now, zone) + 1 \in Nat
  BY <1>1, PlanTypes
<1> DEFINE L == LocalDay(now, zone)
<1> HIDE DEF L
<1>3. L \in Nat /\ L + 1 \in Nat
  BY <1>2 DEF L
<1>4. CASE PlannerBegins
  <2>1. Plans(Materialized(L + 1)) /\ \A r \in Materialized(L + 1) : Fits(r)
    <3>1. Materialized(L + 1) \cup Materialized(L + 1) = Materialized(L + 1)
      OBVIOUS
    <3> QED
      BY <1>1, <1>3, <3>1, MaterializedPlans
  <2>2. Reads("planner", "plan", Materialized(L + 1))
    BY <1>4 DEF PlannerBegins, L
  <2> QED
    BY <2>1, <2>2, ReadBegins DEF Proc
<1>5. CASE SweepBegins
  <2>1. /\ Plans(Materialized(L) \cup Materialized(L + 1))
        /\ \A r \in Materialized(L) : Fits(r)
        /\ \A r \in Materialized(L + 1) : Fits(r)
    BY <1>1, <1>3, MaterializedPlans
  <2>2. Reads("sweeper", "sweep", Materialized(L) \cup Materialized(L + 1))
    BY <1>5 DEF SweepBegins, L
  <2>3. \A r \in Materialized(L) \cup Materialized(L + 1) : Fits(r)
    BY <2>1
  <2> QED
    BY <2>1, <2>2, <2>3, ReadBegins DEF Proc
<1> QED
  BY <1>4, <1>5

(* An edit begins: it plans nothing yet. *)
LEMMA EditBegins ==
  ASSUME CalendarAssumption, IInv, NEW p \in Editor, NEW t,
         NEW op \in {"save", "remove", "zone"}, NEW ty \in Type, NEW new \in Nat,
         NEW seen \in Settings, NEW z \in Zone, NEW on \in BOOLEAN,
         t = [op |-> op, pc |-> "idle", type |-> ty, new |-> new, seen |-> seen, zone |-> z,
              on |-> on, todo |-> {}, gone |-> {}, lap |-> FALSE],
         op = "save" => new \in Time, op = "zone" => new \in Zone,
         op \in {"save", "remove"} => z = zone, Begin(p, t), Edit
  PROVE  IInv'
<1>1. t \in Txn
  BY DEF Txn
<1>2. edits' = edits + 1 /\ edits' \in 0..MaxEdits
  BY DEF Edit, IInv, RowsOK, RowTypes, CalendarAssumption
<1>3. t.gone = {} /\ t.op = op /\ t.new = new /\ t.zone = z /\ t.todo = {}
  OBVIOUS
<1>4. p \in Proc
  BY DEF Proc
<1> QED
  BY <1>1, <1>2, <1>3, <1>4, Begins, NoPlans

LEMMA EditorSteps ==
  ASSUME CalendarAssumption, IInv, NEW p \in Editor, EditorBegins(p)
  PROVE  IInv'
<1>1. SettingsOK /\ zone \in Zone /\ onboarded \in BOOLEAN /\ windows \in [Type -> Settings]
  BY DEF IInv, SettingsOK
<1>2. SomeType \in Type /\ SomeWindow \in Settings /\ 0 \in Zone /\ Zone \subseteq Nat
      /\ Time \subseteq Nat /\ 0 \in Nat
  BY <1>1, ChosenDefaults, PlanTypes DEF CalendarAssumption
<1>3. ASSUME NEW ty \in Type, NEW h \in Time, SaveBegins(p, ty, h) PROVE IInv'
  <2>1. PICK t : t = [Idle EXCEPT !.op = "save", !.type = ty, !.new = h,
                             !.seen = windows[ty], !.zone = zone, !.on = onboarded]
    OBVIOUS
  <2>2. t = [op |-> "save", pc |-> "idle", type |-> ty, new |-> h, seen |-> windows[ty],
             zone |-> zone, on |-> onboarded, todo |-> {}, gone |-> {}, lap |-> FALSE]
    BY <2>1 DEF Idle
  <2>3. Begin(p, t) /\ Edit
    BY <1>3, <2>1 DEF SaveBegins
  <2>4. windows[ty] \in Settings /\ h \in Nat
    BY <1>1, <1>2
  <2> QED
    BY <1>1, <2>2, <2>3, <2>4, EditBegins
<1>4. ASSUME NEW ty \in Type, RemoveBegins(p, ty) PROVE IInv'
  <2>1. PICK t : t = [Idle EXCEPT !.op = "remove", !.type = ty, !.zone = zone,
                             !.on = onboarded]
    OBVIOUS
  <2>2. t = [op |-> "remove", pc |-> "idle", type |-> ty, new |-> 0, seen |-> SomeWindow,
             zone |-> zone, on |-> onboarded, todo |-> {}, gone |-> {}, lap |-> FALSE]
    BY <2>1 DEF Idle
  <2>3. Begin(p, t) /\ Edit
    BY <1>4, <2>1 DEF RemoveBegins
  <2> QED
    BY <1>1, <1>2, <2>2, <2>3, EditBegins
<1>5. ASSUME NEW z \in Zone, ZoneBegins(p, z) PROVE IInv'
  <2>1. PICK t : t = [Idle EXCEPT !.op = "zone", !.new = z, !.on = onboarded]
    OBVIOUS
  <2>2. t = [op |-> "zone", pc |-> "idle", type |-> SomeType, new |-> z, seen |-> SomeWindow,
             zone |-> 0, on |-> onboarded, todo |-> {}, gone |-> {}, lap |-> FALSE]
    BY <2>1 DEF Idle
  <2>3. Begin(p, t) /\ Edit /\ z \in Nat
    BY <1>2, <1>5, <2>1 DEF ZoneBegins
  <2> QED
    BY <1>1, <1>2, <2>2, <2>3, EditBegins
<1>6. ASSUME OnboardBegins(p) PROVE IInv'
  <2> DEFINE S == {NewCall(ty, FirstDay(now, zone, windows[ty].time),
                                 windows[ty].time, zone) : ty \in Active}
  <2>1. Plans(S) /\ \A r \in S : Fits(r)
    BY <1>1, FirstPlans
  <2>2. PICK t : t = [Idle EXCEPT !.op = "onboard", !.todo = S]
    OBVIOUS
  <2>3. Begin(p, t) /\ edits' = edits
    BY <1>6, <2>2 DEF OnboardBegins
  <2> HIDE DEF S
  <2>4. t = [op |-> "onboard", pc |-> "idle", type |-> SomeType, new |-> 0,
             seen |-> SomeWindow, zone |-> 0, on |-> FALSE, todo |-> S, gone |-> {},
             lap |-> FALSE]
    BY <2>2 DEF Idle
  <2>5. t \in Txn
    BY <1>2, <2>1, <2>4 DEF Txn, Plans
  <2>6. t.gone = {} /\ t.op = "onboard" /\ t.todo = S
    BY <2>4
  <2>7. edits \in 0..MaxEdits /\ p \in Proc
    BY DEF IInv, RowsOK, RowTypes, Proc
  <2> QED
    BY <2>1, <2>3, <2>5, <2>6, <2>7, Begins
<1> QED
  BY <1>3, <1>4, <1>5, <1>6 DEF EditorBegins, UpdateBegins

(* A transaction without effect. *)
LEMMA Undone ==
  ASSUME CalendarAssumption, IInv, NEW p \in Proc, txn' = [txn EXCEPT ![p] = Idle],
         UNCHANGED <<windows, zone, onboarded, log, now, edits, dropped, dialled>>,
         fails' \in 0..MaxFails
  PROVE  IInv'
<1>1. Idle.pc = "idle" /\ Idle.gone = {} /\ Fine(Idle)
  BY IdleFine DEF Idle
<1>2. Agree'
  BY <1>1, AgreeSettled DEF IInv
<1>3. TxnOK'
  <2>1. txn' \in [Proc -> Txn] /\ \A q \in Proc : Fine(txn'[q])
    BY <1>1 DEF IInv, TxnOK, Fine
  <2> QED
    BY <2>1 DEF TxnOK, Fine, Plans
<1>4. RowsOK'
  <2>1. edits' >= edits /\ edits' \in 0..MaxEdits /\ RowsOK
    BY DEF IInv, RowsOK, RowTypes
  <2> QED
    BY <2>1, RowsSame
<1>5. SettingsOK'
  BY DEF IInv, SettingsOK
<1> QED
  BY <1>2, <1>3, <1>4, <1>5 DEF IInv

LEMMA FailSteps ==
  ASSUME CalendarAssumption, IInv, NEW p \in Proc, Fail(p) \/ DuplicateWindow(p)
  PROVE  IInv'
<1>1. fails \in 0..MaxFails
  BY DEF IInv, SettingsOK
<1>2. fails' \in 0..MaxFails
  BY <1>1 DEF Fail, DuplicateWindow, clocks, CalendarAssumption
<1> QED
  BY <1>2, Undone DEF Fail, DuplicateWindow, clocks, histories

LEMMA Commits ==
  ASSUME CalendarAssumption, IInv, NEW p \in Proc, NEW S, Plans(S), NEW pc \in {"idle", "again"},
         Commit(p, S, pc), txn[p].pc # "idle",
         pc = "again" => /\ txn[p].op \in {"save", "remove"}
                         /\ ~txn[p].lap => txn[p].zone = zone',
         UNCHANGED <<windows, zone>> \/ Changing(p),
         \A r \in Unexcused : SlotOf(r) \notin txn[p].gone => Fits(r)',
         ~txn[p].lap => \A r \in S : Fits(r)',
         \A q \in Proc : q # p /\ Changing(q) /\ NewWindow(txn[q]) =>
             windows'[txn[q].type].state = "none",
         UNCHANGED <<edits, dropped, dialled>>, SettingsOK'
  PROVE  IInv'
<1>1. txn[p].lap \in BOOLEAN
  BY DEF IInv, TxnOK, Txn
<1>2. RowsOK'
  BY <1>1, RowsCommitted DEF IInv, Agree
<1>3. Agree' /\ TxnOK'
  BY AgreeCommitted DEF IInv
<1> QED
  BY <1>2, <1>3 DEF IInv

(* A commit that leaves the settings alone. *)
LEMMA CommitsOnly ==
  ASSUME CalendarAssumption, IInv, NEW p \in Proc, NEW S, Plans(S), Commit(p, S, "idle"),
         txn[p].pc # "idle", ~txn[p].lap => \A r \in S : Fits(r),
         UNCHANGED <<windows, zone, now, fails, edits, dropped, dialled>>,
         onboarded' \in BOOLEAN
  PROVE  IInv'
<1>1. \A r : Fits(r)' = Fits(r)
  BY DEF Fits
<1>2. \A r \in Unexcused : Fits(r)'
  BY <1>1 DEF IInv, Agree, StalePlanHasCause, Unexcused, Fits
<1>3. ~txn[p].lap => \A r \in S : Fits(r)'
  BY <1>1
<1>4. \A q \in Proc : Changing(q) /\ NewWindow(txn[q]) => windows'[txn[q].type].state = "none"
  BY DEF IInv, Agree, NewOK
<1>5. SettingsOK'
  BY DEF IInv, SettingsOK
<1> QED
  BY <1>2, <1>3, <1>4, <1>5, Commits

LEMMA PlanSteps ==
  ASSUME CalendarAssumption, IInv, NEW p \in Proc, PlanCommits(p) \/ OnboardCommits(p)
  PROVE  IInv'
<1>1. Plans(txn[p].todo)
  BY DEF IInv, TxnOK, Fine
<1>2. ~txn[p].lap => \A r \in txn[p].todo : Fits(r)
  BY DEF IInv, Agree, Current, PlanCommits, OnboardCommits
<1>3. /\ txn[p].pc = "read" /\ Commit(p, txn[p].todo, "idle")
      /\ UNCHANGED <<windows, zone, now, fails, edits, dropped, dialled>>
      /\ onboarded' \in BOOLEAN
  BY DEF PlanCommits, OnboardCommits, clocks, histories, IInv, SettingsOK
<1> QED
  BY <1>1, <1>2, <1>3, CommitsOnly

LEMMA AgainSteps ==
  ASSUME CalendarAssumption, IInv, NEW p \in Proc, RematerializeAgain(p)
  PROVE  IInv'
<1> DEFINE t == txn[p]
           R == Rematerialized(t.type, windows[t.type].time, t.zone)
<1>1. PICK S : S = IF windows[t.type].state = "active" THEN R ELSE {}
  OBVIOUS
<1>2. /\ t.pc = "again" /\ Commit(p, S, "idle")
      /\ UNCHANGED <<windows, zone, now, fails, edits, dropped, dialled, onboarded>>
  BY <1>1 DEF RematerializeAgain, clocks, histories
<1>3. t \in Txn /\ t.type \in Type /\ t.zone \in Zone /\ t.op \in {"save", "remove"}
  BY <1>2 DEF IInv, TxnOK, Fine, Txn
<1>4. SettingsOK /\ windows[t.type] \in Settings /\ windows[t.type].time \in Time
      /\ onboarded \in BOOLEAN
  BY <1>3 DEF IInv, SettingsOK, Settings
<1>5. Plans(S)
  <2>1. Plans(R)
    BY <1>3, <1>4, OneRematerialized
  <2> QED
    BY <1>1, <2>1, NoPlans
<1>6. ~t.lap => \A r \in S : Fits(r)
  <2> SUFFICES ASSUME ~t.lap, NEW r \in S PROVE Fits(r)
    OBVIOUS
  <2>1. t.zone = zone
    BY <1>2, <1>3 DEF IInv, Agree, Current
  <2>2. windows[t.type].state = "active" /\ r \in R
    BY <1>1
  <2>3. r.type = t.type /\ r.time = windows[t.type].time /\ r.zone = t.zone
    BY <2>2, RematerializedCalls
  <2>4. windows[t.type] = [state |-> "active", time |-> windows[t.type].time]
    BY <1>4, <2>2 DEF Settings
  <2> QED
    BY <2>1, <2>3, <2>4 DEF Fits
<1> QED
  BY <1>2, <1>4, <1>5, <1>6, CommitsOnly

LEMMA SaveSteps ==
  ASSUME CalendarAssumption, IInv, NEW p \in Proc, SaveCommits(p)
  PROVE  IInv'
<1> DEFINE t == txn[p]
           state == IF NewWindow(t) \/ Reactivates(t) THEN "active" ELSE windows[t.type].state
           hour  == IF NewWindow(t) \/ TimesChanged(t) THEN t.new ELSE windows[t.type].time
           R == Rematerialized(t.type, t.new, t.zone)
           plans == t.on /\ state = "active" /\ (NewWindow(t) \/ TimesChanged(t))
<1>1. PICK S : S = IF plans THEN R ELSE {}
  OBVIOUS
<1>2. PICK pc : pc = IF t.on THEN "again" ELSE "idle"
  OBVIOUS
<1>3. /\ Changing(p) /\ t.op = "save" /\ Commit(p, S, pc)
      /\ windows' = [windows EXCEPT ![t.type] = [state |-> state, time |-> hour]]
      /\ UNCHANGED <<zone, onboarded, now, fails, edits, dropped, dialled>>
  BY <1>1, <1>2 DEF SaveCommits, clocks, histories
<1>4. t \in Txn /\ t.type \in Type /\ t.zone \in Zone /\ t.new \in Time /\ t.pc = "changed"
  BY <1>3 DEF IInv, TxnOK, Fine, Txn, Changing
<1>5. SettingsOK /\ windows[t.type] \in Settings /\ windows \in [Type -> Settings]
  BY <1>4 DEF IInv, SettingsOK
<1>6. state \in {"none", "active", "inactive"} /\ hour \in Time
  BY <1>4, <1>5 DEF Settings
<1>7. ~t.lap => t.zone = zone
  BY <1>3, <1>4 DEF IInv, Agree, Current
<1>8. windows[t.type] = [state |-> windows[t.type].state, time |-> windows[t.type].time]
  BY <1>5 DEF Settings
<1> DEFINE st == state
           ho == hour
<1>9. /\ NewWindow(t) \/ Reactivates(t) => st = "active"
      /\ ~(NewWindow(t) \/ Reactivates(t)) => st = windows[t.type].state
      /\ NewWindow(t) \/ TimesChanged(t) => ho = t.new
      /\ ~(NewWindow(t) \/ TimesChanged(t)) => ho = windows[t.type].time
  OBVIOUS
<1>10. windows' = [windows EXCEPT ![t.type] = [state |-> st, time |-> ho]]
  BY <1>3
<1>11. S = {} \/ (S = R /\ st = "active" /\ ho = t.new)
  BY <1>1
<1>12. st \in {"none", "active", "inactive"} /\ ho \in Time
  BY <1>6
<1> HIDE DEF st, ho, R
<1>13. windows'[t.type] = [state |-> st, time |-> ho]
       /\ \A ty \in Type : ty # t.type => windows'[ty] = windows[ty]
  BY <1>4, <1>5, <1>10
<1>14. Plans(S)
  <2>1. Plans(R)
    BY <1>4, <1>5, OneRematerialized DEF R
  <2> QED
    BY <1>11, <2>1, NoPlans
<1>15. SettingsOK'
  <2>1. [state |-> st, time |-> ho] \in Settings
    BY <1>12 DEF Settings
  <2>2. windows' \in [Type -> Settings]
    BY <1>5, <1>10, <2>1
  <2> QED
    BY <1>3, <1>5, <2>2 DEF SettingsOK
<1>16. \A r \in Unexcused : SlotOf(r) \notin t.gone => Fits(r)'
  <2> SUFFICES ASSUME NEW r \in Unexcused, SlotOf(r) \notin t.gone PROVE Fits(r)'
    OBVIOUS
  <2>1. r.type \in Type
    BY DEF Unexcused, Pending, IInv, RowsOK, RowTypes, Entry
  <2>2. windows[r.type] = [state |-> "active", time |-> r.time] /\ zone = r.zone
    BY DEF IInv, Agree, StalePlanHasCause, Unexcused
  <2>3. r.type \notin DeletesOf(t)
    BY <1>3 DEF IInv, Agree, Clears, ClearOf
  <2>4. CASE r.type # t.type
    BY <1>3, <1>13, <2>1, <2>2, <2>4 DEF Fits
  <2>5. CASE r.type = t.type
    <3>1. ~TimesChanged(t)
      BY <2>1, <2>3, <2>5 DEF DeletesOf
    <3>2. windows[t.type].state = "active" /\ windows[t.type].time = r.time
      BY <2>2, <2>5
    <3>3. ~NewWindow(t)
      BY <1>3, <3>2 DEF IInv, Agree, NewOK
    <3>4. st = "active" /\ ho = r.time
      BY <1>9, <3>1, <3>2, <3>3
    <3> QED
      BY <1>3, <1>13, <2>2, <2>5, <3>4 DEF Fits
  <2> QED
    BY <2>4, <2>5
<1>17. ~t.lap => \A r \in S : Fits(r)'
  <2> SUFFICES ASSUME ~t.lap, NEW r \in S PROVE Fits(r)'
    OBVIOUS
  <2>1. r \in R /\ st = "active" /\ ho = t.new
    BY <1>11
  <2>2. r.type = t.type /\ r.time = t.new /\ r.zone = t.zone
    BY <2>1, RematerializedCalls DEF R
  <2> QED
    BY <1>3, <1>7, <1>13, <2>1, <2>2 DEF Fits
<1>18. ASSUME NEW q \in Proc, q # p, Changing(q), NewWindow(txn[q])
       PROVE  windows'[txn[q].type].state = "none"
  <2>1. windows[txn[q].type].state = "none" /\ txn[q].type \in Type
    BY <1>18 DEF IInv, Agree, NewOK, TxnOK, Txn
  <2>2. CASE txn[q].type # t.type
    BY <1>13, <2>1, <2>2
  <2>3. CASE txn[q].type = t.type
    <3>1. ~WritesWindow(t)
      BY <1>3, <1>18, <2>3 DEF IInv, Agree, Exclusive, WritesWindow
    <3>2. st = windows[t.type].state
      BY <1>9, <3>1 DEF WritesWindow
    <3> QED
      BY <1>13, <2>1, <2>3, <3>2
  <2> QED
    BY <2>2, <2>3
<1>19. pc \in {"idle", "again"}
  BY <1>2
<1> QED
  BY <1>3, <1>4, <1>7, <1>14, <1>15, <1>16, <1>17, <1>18, <1>19, Commits

LEMMA RemoveSteps ==
  ASSUME CalendarAssumption, IInv, NEW p \in Proc, RemoveCommits(p)
  PROVE  IInv'
<1> DEFINE t == txn[p]
<1>1. PICK pc \in {"idle", "again"} : Commit(p, {}, pc)
  BY DEF RemoveCommits
<1>2. /\ Changing(p) /\ t.op = "remove"
      /\ windows' = [windows EXCEPT ![t.type].state = "inactive"]
      /\ UNCHANGED <<zone, onboarded, now, fails, edits, dropped, dialled>>
  BY DEF RemoveCommits, clocks, histories
<1>3. t \in Txn /\ t.type \in Type /\ t.pc = "changed"
  BY <1>2 DEF IInv, TxnOK, Fine, Txn, Changing
<1>4. SettingsOK /\ windows[t.type] \in Settings /\ windows \in [Type -> Settings]
  BY <1>3 DEF IInv, SettingsOK
<1>5. windows' \in [Type -> Settings] /\ \A ty \in Type : ty # t.type => windows'[ty] = windows[ty]
  BY <1>2, <1>3, <1>4 DEF Settings
<1>6. SettingsOK'
  BY <1>2, <1>4, <1>5 DEF SettingsOK
<1>7. ~t.lap => t.zone = zone
  BY <1>2, <1>3 DEF IInv, Agree, Current
<1>8. \A r \in Unexcused : SlotOf(r) \notin t.gone => Fits(r)'
  <2> SUFFICES ASSUME NEW r \in Unexcused, SlotOf(r) \notin t.gone PROVE Fits(r)'
    OBVIOUS
  <2>1. r.type \in Type
    BY DEF Unexcused, Pending, IInv, RowsOK, RowTypes, Entry
  <2>2. windows[r.type] = [state |-> "active", time |-> r.time] /\ zone = r.zone
    BY DEF IInv, Agree, StalePlanHasCause, Unexcused
  <2>3. r.type \notin DeletesOf(t)
    BY <1>2 DEF IInv, Agree, Clears, ClearOf
  <2>4. r.type # t.type
    BY <1>2, <2>1, <2>3 DEF DeletesOf
  <2> QED
    BY <1>2, <1>5, <2>1, <2>2, <2>4 DEF Fits
<1>9. ASSUME NEW q \in Proc, q # p, Changing(q), NewWindow(txn[q])
      PROVE  windows'[txn[q].type].state = "none"
  <2>1. windows[txn[q].type].state = "none" /\ txn[q].type \in Type
    BY <1>9 DEF IInv, Agree, NewOK, TxnOK, Txn
  <2>2. txn[q].type # t.type
    BY <1>2, <1>9 DEF IInv, Agree, Exclusive, WritesWindow
  <2> QED
    BY <1>5, <2>1, <2>2
<1> QED
  BY <1>1, <1>2, <1>3, <1>6, <1>7, <1>8, <1>9, NoPlans, Commits

LEMMA ZoneSteps ==
  ASSUME CalendarAssumption, IInv, NEW p \in Proc, ZoneCommits(p)
  PROVE  IInv'
<1> DEFINE t == txn[p]
           W == [ty \in Type |-> windows[ty].time]
           R == UNION {Rematerialized(ty, W[ty], t.new) : ty \in Active}
<1>1. PICK S : S = IF t.on THEN UNION {Rematerialized(ty, windows[ty].time, t.new) : ty \in Active}
                   ELSE {}
  OBVIOUS
<1>2. /\ Changing(p) /\ t.op = "zone" /\ Commit(p, S, "idle") /\ zone' = t.new
      /\ UNCHANGED <<windows, onboarded, now, fails, edits, dropped, dialled>>
  BY <1>1 DEF ZoneCommits, clocks, histories
<1>3. t \in Txn /\ t.new \in Zone /\ t.pc = "changed"
  BY <1>2 DEF IInv, TxnOK, Fine, Changing
<1>4. SettingsOK /\ windows \in [Type -> Settings] /\ W \in [Type -> Time] /\ Active \subseteq Type
  BY PlanTypes DEF IInv, SettingsOK, Active
<1>5. S = R \/ S = {}
  BY <1>1, <1>4
<1> HIDE DEF W
<1>6. Plans(S)
  BY <1>3, <1>4, <1>5, NoPlans, RematerializedPlans
<1>7. SettingsOK'
  BY <1>2, <1>3, <1>4 DEF SettingsOK
<1>8. \A r \in Unexcused : SlotOf(r) \in t.gone
  <2> SUFFICES ASSUME NEW r \in Unexcused PROVE SlotOf(r) \in t.gone
    OBVIOUS
  <2>1. r.type \in Type
    BY DEF Unexcused, Pending, IInv, RowsOK, RowTypes, Entry
  <2>2. t.on /\ (r.type \in DeletesOf(t) => SlotOf(r) \in t.gone)
    BY <1>2 DEF IInv, Agree, Clears, ClearOf
  <2> QED
    BY <1>2, <2>1, <2>2 DEF DeletesOf
<1>9. \A r \in S : Fits(r)'
  <2> SUFFICES ASSUME NEW r \in S PROVE Fits(r)'
    OBVIOUS
  <2>1. PICK ty \in Active : r \in Rematerialized(ty, windows[ty].time, t.new)
    BY <1>1
  <2>2. r.type = ty /\ r.time = windows[ty].time /\ r.zone = t.new
    BY <2>1, RematerializedCalls
  <2>3. windows[ty] = [state |-> "active", time |-> windows[ty].time]
    BY <1>4 DEF Active, Settings
  <2> QED
    BY <1>2, <2>2, <2>3 DEF Fits
<1>10. ASSUME NEW q \in Proc, Changing(q), NewWindow(txn[q])
       PROVE  windows'[txn[q].type].state = "none"
  BY <1>2, <1>10 DEF IInv, Agree, NewOK
<1> QED
  BY <1>2, <1>3, <1>6, <1>7, <1>8, <1>9, <1>10, Commits

LEMMA ChangeSteps ==
  ASSUME CalendarAssumption, IInv, NEW p \in Proc, Change(p)
  PROVE  IInv'
<1>1. UNCHANGED <<windows, zone, onboarded, now, edits, fails, dropped, dialled>>
  BY DEF Change, clocks, histories
<1>2. PICK S \in SUBSET Pending : log' = Excuse(S)
  BY AgreeChanged DEF IInv
<1>3. RowsOK /\ edits' \in 0..MaxEdits /\ edits' >= edits
  BY <1>1 DEF IInv, RowsOK, RowTypes
<1>4. RowsOK'
  BY <1>1, <1>2, <1>3, RowsExcused
<1>5. Agree' /\ TxnOK'
  BY AgreeChanged DEF IInv
<1>6. SettingsOK'
  BY <1>1 DEF IInv, SettingsOK
<1> QED
  BY <1>4, <1>5, <1>6 DEF IInv

LEMMA DashboardSteps ==
  ASSUME CalendarAssumption, IInv, NEW z \in Zone, DashboardZone(z)
  PROVE  IInv'
<1>1. /\ UNCHANGED <<windows, onboarded, now, fails, dropped, dialled>>
      /\ zone' = z /\ log' = Excuse(Pending) /\ Edit
  BY DEF DashboardZone, histories
<1>2. RowsOK /\ edits' \in 0..MaxEdits /\ edits' >= edits
  BY <1>1 DEF IInv, RowsOK, RowTypes, Edit, CalendarAssumption
<1>3. RowsOK'
  BY <1>1, <1>2, RowsExcused
<1>4. Agree' /\ TxnOK'
  BY AgreeZoned DEF IInv
<1>5. SettingsOK'
  BY <1>1 DEF IInv, SettingsOK
<1> QED
  BY <1>3, <1>4, <1>5 DEF IInv

LEMMA Turns ==
  ASSUME CalendarAssumption, IInv, NEW r, NEW s, TurnsInto(r, s), ~Locked(r),
         \/ s.status # "dialled" /\ dialled' = dialled
         \/ /\ s.status = "dialled" /\ s.kind = r.kind /\ s.move = r.move
            /\ dialled' = [dialled EXCEPT ![SlotOf(r)] = @ + 1],
         UNCHANGED <<windows, zone, onboarded, txn, now, fails>>
  PROVE  IInv'
<1>1. RowsOK'
  BY RowsTurned DEF IInv
<1>2. Agree'
  BY AgreeTurned DEF IInv
<1>3. TxnOK'
  BY DEF IInv, TxnOK, Fine, Plans
<1>4. SettingsOK'
  BY DEF IInv, SettingsOK
<1> QED
  BY <1>1, <1>2, <1>3, <1>4 DEF IInv

(* A call that is dropped, dialled or rescheduled. *)
LEMMA CallSteps ==
  ASSUME CalendarAssumption, IInv, NEW r \in log,
         UserDrops(r) \/ Dial(r) \/ \E t \in 0..(Hours - 1) : UserMoves(r, t)
  PROVE  IInv'
<1>1. /\ r \in Entry /\ r.type \in Type /\ r.day \in Day /\ r.kind \in {"planned", "rescheduled"}
      /\ SlotOf(r) \in Type \X Day
  BY DEF IInv, RowsOK, RowTypes, Entry, SlotOf
<1>2. edits \in 0..MaxEdits /\ edits \in Nat /\ MaxEdits \in Nat /\ dropped \subseteq Type \X Day
  BY DEF IInv, RowsOK, RowTypes, CalendarAssumption
<1>3. CASE UserDrops(r)
  <2>1. PICK s : s = [r EXCEPT !.status = "dropped"]
    OBVIOUS
  <2>2. /\ s \in Entry /\ s.status = "dropped" /\ s.kind = r.kind /\ s.move = r.move
        /\ s.type = r.type /\ s.day = r.day
    BY <1>1, <2>1 DEF Entry
  <2>3. /\ Becomes(r, s) /\ dropped' = dropped \cup {SlotOf(r)} /\ dialled' = dialled
        /\ Edit /\ Today(r) /\ UNCHANGED <<windows, zone, onboarded, txn, now, fails>>
    BY <1>3, <2>1 DEF UserDrops
  <2>4. SlotOf(s) = SlotOf(r)
    BY <2>2 DEF SlotOf
  <2>5. edits' = edits + 1 /\ edits' \in 0..MaxEdits
    BY <1>2, <2>3 DEF Edit
  <2>6. TurnsInto(r, s) /\ ~Locked(r)
    BY <1>1, <1>2, <2>2, <2>3, <2>4, <2>5 DEF TurnsInto, Today, Same
  <2> QED
    BY <2>2, <2>3, <2>6, Turns
<1>4. CASE Dial(r)
  <2>1. PICK s : s = [r EXCEPT !.status = "dialled"]
    OBVIOUS
  <2>2. /\ s \in Entry /\ s.status = "dialled" /\ s.kind = r.kind /\ s.move = r.move
        /\ s.type = r.type /\ s.day = r.day
    BY <1>1, <2>1 DEF Entry
  <2>3. /\ Becomes(r, s) /\ dialled' = [dialled EXCEPT ![SlotOf(r)] = @ + 1]
        /\ r.status = "scheduled" /\ ~Locked(r)
        /\ UNCHANGED <<windows, zone, onboarded, txn, now, edits, fails, dropped>>
    BY <1>4, <2>1 DEF Dial, clocks
  <2>4. SlotOf(s) = SlotOf(r)
    BY <2>2 DEF SlotOf
  <2>5. TurnsInto(r, s)
    BY <1>1, <1>2, <2>2, <2>3, <2>4 DEF TurnsInto, Same
  <2> QED
    BY <2>2, <2>3, <2>5, Turns
<1>5. ASSUME NEW h \in 0..(Hours - 1), UserMoves(r, h) PROVE IInv'
  <2>1. PICK a : a = [r EXCEPT !.time = h]
    OBVIOUS
  <2>2. PICK b : b = [a EXCEPT !.kind = "rescheduled"]
    OBVIOUS
  <2>3. PICK c : c = [b EXCEPT !.zone = zone]
    OBVIOUS
  <2>4. PICK s : s = [c EXCEPT !.move = edits + 1]
    OBVIOUS
  <2>5. h \in Nat /\ zone \in Zone /\ edits + 1 \in Nat
    BY <1>2 DEF CalendarAssumption, IInv, SettingsOK
  <2>6. a \in Entry /\ a.type = r.type /\ a.day = r.day /\ a.status = r.status
    BY <1>1, <2>1, <2>5 DEF Entry
  <2>7. b \in Entry /\ b.type = r.type /\ b.day = r.day /\ b.status = r.status
        /\ b.kind = "rescheduled"
    BY <2>2, <2>6 DEF Entry
  <2>8. c \in Entry /\ c.type = r.type /\ c.day = r.day /\ c.status = r.status
        /\ c.kind = "rescheduled"
    BY <2>3, <2>5, <2>7 DEF Entry
  <2>9. s \in Entry /\ s.type = r.type /\ s.day = r.day /\ s.status = r.status
        /\ s.kind = "rescheduled" /\ s.move = edits + 1
    BY <2>4, <2>5, <2>8 DEF Entry
  <2>10. /\ Becomes(r, s) /\ Edit /\ Today(r)
         /\ UNCHANGED <<windows, zone, onboarded, txn, now, fails, dropped, dialled>>
    BY <1>5, <2>1, <2>2, <2>3, <2>4 DEF UserMoves, histories
  <2>11. SlotOf(s) = SlotOf(r) /\ edits' = edits + 1 /\ edits' \in 0..MaxEdits
    BY <1>2, <2>9, <2>10 DEF SlotOf, Edit
  <2>12. TurnsInto(r, s) /\ ~Locked(r) /\ s.status = "scheduled"
    BY <1>1, <1>2, <2>9, <2>10, <2>11 DEF TurnsInto, Today, Same
  <2> QED
    BY <2>10, <2>12, Turns
<1> QED
  BY <1>3, <1>4, <1>5

LEMMA QuietSteps ==
  ASSUME CalendarAssumption, IInv, Tick \/ UNCHANGED vars
  PROVE  IInv'
<1>1. UNCHANGED <<windows, zone, onboarded, log, txn, edits, fails, dropped, dialled>>
  BY DEF Tick, vars, histories
<1>2. now' \in 0..LastTick
  BY DEF Tick, vars, IInv, SettingsOK, CalendarAssumption
<1>3. edits' >= edits /\ edits' \in 0..MaxEdits /\ RowsOK
  BY <1>1 DEF IInv, RowsOK, RowTypes
<1>4. RowsOK'
  BY <1>1, <1>3, RowsSame
<1>5. Agree'
  BY <1>1, AgreeSame DEF IInv
<1>6. TxnOK'
  BY <1>1 DEF IInv, TxnOK, Fine, Plans
<1>7. SettingsOK'
  BY <1>1, <1>2 DEF IInv, SettingsOK
<1> QED
  BY <1>4, <1>5, <1>6, <1>7 DEF IInv

(* Every step keeps the invariant. *)
LEMMA NextIInv ==
  ASSUME CalendarAssumption, IInv, Next \/ UNCHANGED vars
  PROVE  IInv'
<1>1. Editor \subseteq Proc /\ "planner" \in Proc /\ "sweeper" \in Proc
  BY DEF Proc
<1>2. CASE PlannerBegins \/ SweepBegins
  BY <1>2, PlannerSteps
<1>3. CASE PlanCommits("planner") \/ PlanCommits("sweeper")
  BY <1>1, <1>3, PlanSteps
<1>4. ASSUME NEW p \in Editor, EditorBegins(p) PROVE IInv'
  BY <1>4, EditorSteps
<1>5. ASSUME NEW p \in Editor, Works(p) PROVE IInv'
  BY <1>1, <1>5, ChangeSteps, FailSteps, SaveSteps, RemoveSteps, AgainSteps, ZoneSteps,
     PlanSteps DEF Works
<1>6. ASSUME NEW z \in Zone, DashboardZone(z) PROVE IInv'
  BY <1>6, DashboardSteps
<1>7. ASSUME NEW r \in log,
             UserDrops(r) \/ Dial(r) \/ \E t \in 0..(Hours - 1) : UserMoves(r, t)
      PROVE  IInv'
  BY <1>7, CallSteps
<1>8. ASSUME NEW p \in Proc, Fail(p) PROVE IInv'
  BY <1>8, FailSteps
<1>9. CASE Tick \/ UNCHANGED vars
  BY <1>9, QuietSteps
<1> QED
  BY <1>2, <1>3, <1>4, <1>5, <1>6, <1>7, <1>8, <1>9 DEF Next

LEMMA InitIInv ==
  ASSUME CalendarAssumption, Init
  PROVE  IInv
<1>1. log = {} /\ Pending = {} /\ Unexcused = {}
  BY DEF Init, Pending, Unexcused
<1>2. RowsOK
  <2>1. \A s : DialledRows(s) = {}
    BY <1>1 DEF DialledRows
  <2>2. DialsCounted
    BY <2>1, FS_EmptySet DEF DialsCounted, Init
  <2>3. RowTypes
    BY <1>1, FS_EmptySet DEF RowTypes, Init, CalendarAssumption
  <2> QED
    BY <1>1, <2>2, <2>3 DEF RowsOK, OnePerSlot, MovesApart, DropStays, Init
<1>3. \A p \in Proc : txn[p] = Idle
  BY DEF Init
<1>4. Fine(Idle) /\ Idle.pc = "idle" /\ Idle.gone = {}
  BY IdleFine DEF Idle
<1>5. TxnOK
  BY <1>3, <1>4 DEF TxnOK, Init, Fine
<1>6. SettingsOK
  BY ChosenDefaults DEF SettingsOK, Init, CalendarAssumption
<1>7. \A p \in Proc : ~Changing(p)
  BY <1>3, <1>4 DEF Changing
<1>8. Agree
  BY <1>1, <1>3, <1>4, <1>7 DEF Agree, GoneOK, Alone, Current, Exclusive, NewOK, Clears,
     StalePlanHasCause
<1> QED
  BY <1>2, <1>5, <1>6, <1>8 DEF IInv

-----------------------------------------------------------------------------
(* What follows from the invariant. *)

LEMMA IsTyped ==
  ASSUME IInv
  PROVE  TypeOK
  BY DEF IInv, RowsOK, RowTypes, TxnOK, Fine, SettingsOK, TypeOK

(* A slot has one planned row, and as many others as it was rescheduled.   *)
LEMMA IsCapped ==
  ASSUME IInv
  PROVE  CallsPerDay
<1> SUFFICES ASSUME NEW s \in Slot
             PROVE  dialled[s] + Cardinality({r \in log : InSlot(r, s[1], s[2]) /\ r.status = "scheduled"})
                      <= 1 + Moves(s[1], s[2])
  BY DEF CallsPerDay
<1> DEFINE D == DialledRows(s)
           P == {r \in log : InSlot(r, s[1], s[2]) /\ r.status = "scheduled"}
           M == {r \in log : InSlot(r, s[1], s[2]) /\ r.kind = "rescheduled"}
           N == {r \in log : InSlot(r, s[1], s[2]) /\ r.kind = "planned"}
<1>1. \A r \in log : SlotOf(r) = s <=> InSlot(r, s[1], s[2])
  BY DEF SlotOf, InSlot, Slot
<1>2. IsFiniteSet(log) /\ \A r \in log : r.kind \in {"planned", "rescheduled"}
  BY DEF IInv, RowsOK, RowTypes, Entry
<1>3. IsFiniteSet(D) /\ IsFiniteSet(P) /\ IsFiniteSet(M) /\ IsFiniteSet(N)
  BY <1>2, FS_Subset DEF DialledRows
<1>4. D \cap P = {} /\ D \cup P \subseteq N \cup M /\ N \cap M = {}
  BY <1>1, <1>2 DEF DialledRows
<1>5. \A r, q \in N : r = q
  BY <1>1 DEF IInv, RowsOK, OnePerSlot, Same, InSlot, SlotOf
<1> HIDE DEF D, P, M, N
<1>6. Cardinality(N) <= 1
  <2>1. CASE N = {}
    BY <2>1, FS_EmptySet
  <2>2. CASE N # {}
    <3>1. PICK r : N = {r}
      BY <1>5, <2>2
    <3>2. Cardinality({r}) = 1
      BY FS_Singleton
    <3>3. Cardinality(N) = 1
      BY <3>1, <3>2
    <3> QED
      BY <3>3
  <2> QED
    BY <2>1, <2>2
<1>7. Cardinality(D \cup P) = Cardinality(D) + Cardinality(P)
  <2>1. Cardinality(D \cap P) = 0
    BY <1>4, FS_EmptySet
  <2>2. Cardinality(D \cup P) = Cardinality(D) + Cardinality(P) - Cardinality(D \cap P)
    BY <1>3, FS_Union
  <2>3. Cardinality(D) \in Nat /\ Cardinality(P) \in Nat
    BY <1>3, FS_CardinalityType
  <2> QED
    BY <2>1, <2>2, <2>3
<1>8. Cardinality(N \cup M) <= 1 + Cardinality(M)
  <2>1. Cardinality(N \cap M) = 0
    BY <1>4, FS_EmptySet
  <2>2. Cardinality(N \cup M) = Cardinality(N) + Cardinality(M) - Cardinality(N \cap M)
    BY <1>3, FS_Union
  <2>3. Cardinality(N) \in Nat /\ Cardinality(M) \in Nat
    BY <1>3, FS_CardinalityType
  <2> QED
    BY <1>6, <2>1, <2>2, <2>3
<1>9. Cardinality(D \cup P) <= Cardinality(N \cup M)
  <2>1. IsFiniteSet(N \cup M)
    BY <1>3, FS_Union
  <2> QED
    BY <1>4, <2>1, FS_Subset
<1>10. dialled[s] = Cardinality(D)
  BY DEF IInv, RowsOK, DialsCounted, D
<1>11. /\ Cardinality(D) \in Nat /\ Cardinality(P) \in Nat /\ Cardinality(M) \in Nat
       /\ Cardinality(D \cup P) \in Nat /\ Cardinality(N \cup M) \in Nat
  BY <1>3, FS_Union, FS_CardinalityType
<1>12. dialled[s] + Cardinality(P) <= 1 + Cardinality(M)
  BY <1>7, <1>8, <1>9, <1>10, <1>11
<1> QED
  BY <1>12 DEF P, M, Moves

(* A dropped call still holds its slot as long as nothing was rescheduled. *)
LEMMA StaysDropped ==
  ASSUME IInv
  PROVE  DroppedStaysDropped
<1> SUFFICES ASSUME NEW s \in dropped, Moves(s[1], s[2]) = 0,
                    NEW r \in log, InSlot(r, s[1], s[2]), r.status = "scheduled"
             PROVE  FALSE
  BY DEF DroppedStaysDropped
<1> DEFINE M == {q \in log : InSlot(q, s[1], s[2]) /\ q.kind = "rescheduled"}
<1>1. IsFiniteSet(log) /\ \A q \in log : q.kind \in {"planned", "rescheduled"}
  BY DEF IInv, RowsOK, RowTypes, Entry
<1>2. M = {}
  BY <1>1, FS_Subset, FS_EmptySet DEF Moves
<1>3. s \in Type \X Day
  BY DEF IInv, RowsOK, RowTypes
<1>4. PICK q \in log : SlotOf(q) = s /\ (q.kind = "planned" => q.status # "scheduled")
  BY DEF IInv, RowsOK, DropStays
<1>5. InSlot(q, s[1], s[2]) /\ SlotOf(r) = s
  BY <1>3, <1>4 DEF InSlot, SlotOf
<1>6. q.kind = "planned" /\ r.kind = "planned"
  BY <1>1, <1>2, <1>5
<1> QED
  BY <1>4, <1>5, <1>6 DEF IInv, RowsOK, OnePerSlot, Same

LEMMA StaleHasCause ==
  ASSUME IInv
  PROVE  StalePlanHasCause
  BY DEF IInv, Agree
=============================================================================
