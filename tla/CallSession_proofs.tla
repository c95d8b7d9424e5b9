-------------------------- MODULE CallSession_proofs --------------------------
(***************************************************************************)
(* Proofs about CallSession, for any number of calls, callbacks served at  *)
(* a time, retries and faults of any kind:                                 *)
(*   - the type invariant,                                                 *)
(*   - OneFollowUpPerMiss: a missed call is followed up at most once,      *)
(*   - MissHasCause: nothing but its causes makes a call a missed one,     *)
(*   - ValidTransitions: the version fence of every writer.                *)
(***************************************************************************)
EXTENDS CallSession, CallLog_proofs

-----------------------------------------------------------------------------
(* The inductive invariant.                                                *)

CallFor(s, r) == calls[s].row = r /\ calls[s].phase # "none"

(* A row is called once, after it was claimed; the SID it stores is that   *)
(* of its call; only a call that is over has an outcome.                   *)
Placed ==
    /\ \A s, q \in Sid, r \in RowId : CallFor(s, r) /\ CallFor(q, r) => s = q
    /\ \A s \in Sid : calls[s].phase # "none" =>
          rows[calls[s].row].status \notin {"none", "scheduled"}
    /\ \A r \in RowId : rows[r].sid # NoSid => CallFor(rows[r].sid, r)
    /\ \A s \in Sid : outcome[s] # "none" => calls[s].phase = "ended"

(* A callback says what has happened. *)
Truthful(e) == /\ calls[e.sid].phase # "none"
               /\ e.what \in Final => outcome[e.sid] = e.what
               /\ e.what = "machine" => e.sid \in machines

(* A handler works for the row of the call its callback is about. *)
Serving(h) ==
    handler[h].pc # "idle" =>
       /\ handler[h].ev \in Event /\ Truthful(handler[h].ev)
       /\ CallFor(handler[h].ev.sid, handler[h].row)
       /\ handler[h].pc = "apply" => handler[h].ev.what \notin {"initiated", "machine"}
       /\ handler[h].pc \in {"hangup", "reread", "cas"} => handler[h].ev.what = "machine"

Heard == /\ \A e \in net : Truthful(e)
         /\ \A h \in Handler : Serving(h)

(* How a conversation went is known only when it is over. *)
Streaming(s) ==
    /\ stream[s].pc # "none" => calls[s].phase \in {"answered", "ended"}
    /\ stream[s].pc \in {"none", "open", "join", "talking"} => stream[s].how = "none"
    /\ stream[s].pc \in {"cleanup", "cas", "missed"} => stream[s].how # "none"

Streamed == \A s \in Sid : Streaming(s)

(* Who has made r a missed call has yet to follow it up. *)
HandlerOwes(h, r) == handler[h].pc = "missed" /\ handler[h].row = r
StreamOwes(s, r)  == stream[s].pc = "missed" /\ calls[s].row = r
Owed(r) == \/ \E h \in Handler : HandlerOwes(h, r)
           \/ \E s \in Sid : StreamOwes(s, r)

(* One follow-up is owed for a missed call that has had none.  Streams of  *)
(* one row are one by Placed.                                              *)
Owing ==
    \A r \in RowId :
       /\ \A h, g \in Handler : HandlerOwes(h, r) /\ HandlerOwes(g, r) => h = g
       /\ \A h \in Handler, s \in Sid : ~(HandlerOwes(h, r) /\ StreamOwes(s, r))
       /\ Owed(r) => /\ rows[r].status = "missed" /\ r \notin encouraged
                     /\ \A q \in RowId : rows[q].parent # r
       /\ r \in encouraged => rows[r].status = "missed"
       /\ rows[r].status = "none" => rows[r].parent = NoRow

IInv == /\ TypeOK
        /\ Placed
        /\ Heard
        /\ Streamed
        /\ Owing
        /\ OneFollowUpPerMiss
        /\ MissHasCause

LEMMA InitIInv == Init => IInv
<1>. SUFFICES ASSUME Init PROVE IInv
  OBVIOUS
<1>1. PICK a \in [Root -> RootAttempts] :
          rows = [r \in RowId |-> IF r \in Root THEN [FreshRow EXCEPT !.attempt = a[r]] ELSE NoneRow]
  BY DEF Init
<1>2. \A r \in RowId : rows[r] \in Row /\ rows[r].sid = NoSid /\ rows[r].parent = NoRow
  <2>. SUFFICES ASSUME NEW r \in RowId
                PROVE  rows[r] \in Row /\ rows[r].sid = NoSid /\ rows[r].parent = NoRow
    OBVIOUS
  <2>1. CASE r \notin Root
    BY <1>1, <2>1, FreshRowIsRow DEF NoneRow
  <2>2. CASE r \in Root
    <3>1. a[r] \in Nat
      <4>1. a[r] \in RootAttempts
        BY <2>2
      <4>2. RootAttempts \subseteq 1..(MAX_RETRIES + 1)
        BY SessionAssumption
      <4>3. 1..(MAX_RETRIES + 1) \subseteq Nat
        BY DEF MAX_RETRIES
      <4>. QED
        BY <4>1, <4>2, <4>3
    <3>2. FreshRow.sid = NoSid /\ FreshRow.parent = NoRow
      BY FreshRowIs
    <3>. QED
      BY <1>1, <2>2, <3>1, <3>2, FreshRowIsRow, ColumnUpdate
  <2>. QED
    BY <2>1, <2>2
<1>3. TypeOK
  <2>1. RowsOK
    BY <1>1, <1>2 DEF RowsOK
  <2>2. CallsOK
    BY DEF Init, CallsOK, Call, NoCall, Phase
  <2>3. Idle \in HandlerRec /\ NoStream \in StreamRec
    BY DEF Idle, NoStream, HandlerRec, StreamRec, How
  <2>4. handler \in [Handler -> HandlerRec] /\ stream \in [Sid -> StreamRec]
    BY <2>3 DEF Init
  <2>5. \A h \in Handler : handler[h].pc = "idle"
    BY DEF Init, Idle
  <2>. QED
    BY <2>1, <2>2, <2>4, <2>5, SessionAssumption DEF Init, TypeOK
<1>4. Placed
  BY <1>2 DEF Init, Placed, CallFor, NoCall
<1>5. Heard /\ Streamed
  BY DEF Init, Heard, Serving, Streamed, Streaming, Idle, NoStream
<1>6. Owing
  BY <1>2 DEF Init, Owing, HandlerOwes, StreamOwes, Owed, Idle, NoStream
<1>7. OneFollowUpPerMiss /\ MissHasCause
  BY <1>2, CallLogAssumption DEF Init, OneFollowUpPerMiss, MissHasCause, NoCall
<1>. QED
  BY <1>3, <1>4, <1>5, <1>6, <1>7 DEF IInv

-----------------------------------------------------------------------------
(* What the steps keep.                                                    *)

(* A row keeps its place in its chain; it is inserted by a follow-up only, *)
(* claimed by Dial only, and a missed one stays missed.                    *)
RowKept(r) ==
    /\ rows'[r].parent = rows[r].parent /\ rows'[r].attempt = rows[r].attempt
    /\ rows'[r].sid = rows[r].sid
    /\ rows'[r].status = "none" <=> rows[r].status = "none"
    /\ rows'[r].status = "scheduled" => rows[r].status = "scheduled"
    /\ rows[r].status = "missed" => rows'[r].status = "missed"
RowsKept == \A r \in RowId : RowKept(r)

(* A call stays that of its row. *)
CallsKept == \A s \in Sid : /\ calls'[s].row = calls[s].row
                            /\ calls'[s].phase = "none" <=> calls[s].phase = "none"

(* What was said of a call stays true. *)
HistoryKept == /\ machines \subseteq machines'
               /\ \A s \in Sid : outcome[s] # "none" => outcome'[s] = outcome[s]

LEMMA StayKept == UNCHANGED rows => RowsKept
BY DEF RowsKept, RowKept

LEMMA MoveKept ==
    ASSUME RowsOK, NEW r \in RowId, NEW to \in Status, to # "scheduled", NEW v,
           CanMove(r, v, to), rows' = [rows EXCEPT ![r] = Moved(r, to)]
    PROVE  RowsKept /\ rows'[r].status = to /\ rows[r].status # to
<1>1. rows'[r] = Moved(r, to) /\ \A q \in RowId \ {r} : rows'[q] = rows[q]
  BY DEF RowsOK
<1>2. rows[r].status \in Status /\ to \in Succ[rows[r].status] /\ rows[r].status # "none"
  BY DEF RowsOK, Row, CanMove
<1>3. rows[r].status # "missed" /\ rows[r].status # to /\ to # "none"
  BY <1>2, StatusSet DEF Succ
<1>4. rows'[r].status = to
  BY <1>1, MovedRow
<1>5. RowKept(r)
  <2>1. /\ Moved(r, to).parent = rows[r].parent /\ Moved(r, to).attempt = rows[r].attempt
        /\ Moved(r, to).sid = rows[r].sid
    BY MovedRow
  <2>2. /\ rows'[r].parent = rows[r].parent /\ rows'[r].attempt = rows[r].attempt
        /\ rows'[r].sid = rows[r].sid
    BY <1>1, <2>1
  <2>. QED
    BY <1>2, <1>3, <1>4, <2>2 DEF RowKept
<1>6. \A q \in RowId \ {r} : RowKept(q)
  BY <1>1 DEF RowKept
<1>. QED
  BY <1>3, <1>4, <1>5, <1>6 DEF RowsKept

LEMMA TryMoveKept ==
    ASSUME RowsOK, NEW r \in RowId, NEW to \in Status, to # "scheduled", NEW v, TryMove(r, v, to)
    PROVE  RowsKept
BY MoveKept, StayKept DEF TryMove

(* A move of one row to anything but missed. *)
LEMMA QuietMove ==
    ASSUME RowsOK, NEW r \in RowId, NEW to \in Status, to \notin {"scheduled", "missed"},
           NEW v, TryMove(r, v, to)
    PROVE  /\ RowsOK' /\ RowsKept
           /\ \A x \in RowId : rows'[x].status = "missed" => rows[x].status = "missed"
<1>1. RowsOK' /\ RowsKept
  BY TryMoveType, TryMoveKept
<1>2. CASE CanMove(r, v, to)
  <2>1. rows' = [rows EXCEPT ![r] = Moved(r, to)]
    BY <1>2 DEF TryMove
  <2>2. rows'[r].status = to
    BY <1>2, <2>1, MoveKept
  <2>3. \A x \in RowId \ {r} : rows'[x] = rows[x]
    BY <2>1 DEF RowsOK
  <2>. QED
    BY <1>1, <2>2, <2>3
<1>3. CASE ~CanMove(r, v, to)
  BY <1>1, <1>3 DEF TryMove
<1>. QED
  BY <1>2, <1>3

(* A move to missed that succeeds. *)
LEMMA MissingMove ==
    ASSUME RowsOK, NEW r \in RowId, NEW v, CanMove(r, v, "missed"),
           rows' = [rows EXCEPT ![r] = Moved(r, "missed")]
    PROVE  /\ RowsOK' /\ RowsKept /\ rows[r].status # "missed" /\ rows'[r].status = "missed"
           /\ \A x \in RowId \ {r} : rows'[x] = rows[x]
<1>1. "missed" \in Status
  BY StatusSet
<1>2. TryMove(r, v, "missed")
  BY DEF TryMove
<1>3. RowsOK'
  BY <1>1, <1>2, TryMoveType
<1>4. RowsKept /\ rows[r].status # "missed" /\ rows'[r].status = "missed"
  BY <1>1, MoveKept
<1>5. \A x \in RowId \ {r} : rows'[x] = rows[x]
  BY DEF RowsOK
<1>. QED
  BY <1>3, <1>4, <1>5

(* A callback's move stores its sequence number too. *)
LEMMA SeqMove ==
    ASSUME RowsOK, NEW r \in RowId, NEW to \in Status, to # "scheduled", NEW v, NEW n \in Nat,
           CanMove(r, v, to), rows' = [rows EXCEPT ![r] = [Moved(r, to) EXCEPT !.seq = n]]
    PROVE  /\ RowsOK' /\ RowsKept /\ rows[r].status # to /\ rows'[r].status = to
           /\ \A x \in RowId \ {r} : rows'[x] = rows[x]
<1>. DEFINE new == [Moved(r, to) EXCEPT !.seq = n]
<1>1. /\ Moved(r, to) \in Row /\ Moved(r, to).status = to
      /\ Moved(r, to).parent = rows[r].parent /\ Moved(r, to).attempt = rows[r].attempt
      /\ Moved(r, to).sid = rows[r].sid
  BY MovedRow
<1>2. /\ new \in Row /\ new.status = to /\ new.parent = rows[r].parent
      /\ new.attempt = rows[r].attempt /\ new.sid = rows[r].sid
  BY <1>1 DEF Row
<1>. HIDE DEF new
<1>3. rows' = [rows EXCEPT ![r] = new]
  BY DEF new
<1>4. rows'[r] = new /\ \A x \in RowId \ {r} : rows'[x] = rows[x]
  BY <1>3 DEF RowsOK
<1>5. RowsOK'
  BY <1>2, <1>3 DEF RowsOK
<1>6. rows[r].status \in Status /\ to \in Succ[rows[r].status] /\ rows[r].status # "none"
  BY DEF RowsOK, Row, CanMove
<1>7. rows[r].status # "missed" /\ rows[r].status # to /\ to # "none"
  BY <1>6, StatusSet DEF Succ
<1>8. \A x \in RowId : RowKept(x)
  BY <1>2, <1>4, <1>6, <1>7 DEF RowKept
<1>. QED
  BY <1>2, <1>4, <1>5, <1>7, <1>8 DEF RowsKept

-----------------------------------------------------------------------------
(* Each part of the invariant, from what a step keeps and what it adds.    *)

LEMMA PlacedStep ==
    ASSUME TypeOK, Placed, CallsKept,
           \A r \in RowId : rows'[r].sid \in {rows[r].sid, NoSid},
           \A r \in RowId : rows[r].status \notin {"none", "scheduled"} =>
                               rows'[r].status \notin {"none", "scheduled"},
           \A s \in Sid : outcome'[s] # "none" => calls'[s].phase = "ended"
    PROVE  Placed'
<1>1. \A s \in Sid, r \in RowId : CallFor(s, r)' <=> CallFor(s, r)
  BY DEF CallsKept, CallFor
<1>2. \A s \in Sid : calls[s].phase # "none" => calls[s].row \in RowId
  BY DEF TypeOK, CallsOK
<1>3. \A s \in Sid : calls'[s].phase # "none" =>
          rows'[calls'[s].row].status \notin {"none", "scheduled"}
  <2>. SUFFICES ASSUME NEW s \in Sid, calls'[s].phase # "none"
                PROVE  rows'[calls'[s].row].status \notin {"none", "scheduled"}
    OBVIOUS
  <2>1. calls'[s].row = calls[s].row /\ calls[s].phase # "none"
    BY DEF CallsKept
  <2>2. rows[calls[s].row].status \notin {"none", "scheduled"}
    BY <2>1 DEF Placed
  <2>. QED
    BY <1>2, <2>1, <2>2
<1>4. \A r \in RowId : rows'[r].sid # NoSid => rows[r].sid \in Sid /\ rows'[r].sid = rows[r].sid
  BY DEF TypeOK, RowsOK, Row
<1>5. \A r \in RowId : rows'[r].sid # NoSid => CallFor(rows[r].sid, r)'
  <2>. SUFFICES ASSUME NEW r \in RowId, rows'[r].sid # NoSid
                PROVE  CallFor(rows[r].sid, r)'
    OBVIOUS
  <2>1. CallFor(rows[r].sid, r)
    BY <1>4 DEF Placed
  <2>. QED
    BY <1>4, <2>1 DEF CallsKept, CallFor
<1>6. \A s, q \in Sid, r \in RowId : CallFor(s, r)' /\ CallFor(q, r)' => s = q
  BY <1>1 DEF Placed
<1>. QED
  BY <1>3, <1>5, <1>6 DEF Placed

LEMMA TruthKept ==
    ASSUME CallsKept, HistoryKept, NEW e \in Event, Truthful(e)
    PROVE  Truthful(e)'
<1>1. e.sid \in Sid
  BY DEF Event
<1>2. "none" \notin Final
  BY DEF Final
<1>3. calls'[e.sid].phase # "none"
  BY <1>1 DEF CallsKept, Truthful
<1>4. e.what \in Final => outcome'[e.sid] = e.what
  BY <1>1, <1>2 DEF HistoryKept, Truthful
<1>. QED
  BY <1>3, <1>4 DEF HistoryKept, Truthful

LEMMA ServingKept ==
    ASSUME TypeOK, CallsKept, HistoryKept, NEW h \in Handler, Serving(h), handler'[h] = handler[h]
    PROVE  Serving(h)'
<1>. SUFFICES ASSUME handler[h].pc # "idle" PROVE Serving(h)'
  BY DEF Serving
<1>1. handler[h].ev \in Event /\ Truthful(handler[h].ev)'
  BY TruthKept DEF Serving
<1>2. CallFor(handler[h].ev.sid, handler[h].row)'
  BY <1>1 DEF Serving, CallFor, CallsKept, Event
<1>. QED
  BY <1>1, <1>2 DEF Serving

LEMMA HeardStep ==
    ASSUME TypeOK, Heard, CallsKept, HistoryKept,
           \A e \in net' : e \in net \/ Truthful(e)',
           \A h \in Handler : handler'[h] = handler[h] \/ Serving(h)'
    PROVE  Heard'
<1>1. \A e \in net' : Truthful(e)'
  BY TruthKept DEF Heard, TypeOK
<1>2. \A h \in Handler : Serving(h)'
  BY ServingKept DEF Heard
<1>. QED
  BY <1>1, <1>2 DEF Heard

LEMMA StreamedStep ==
    ASSUME Streamed,
           \A s \in Sid : calls[s].phase \in {"answered", "ended"} =>
                             calls'[s].phase \in {"answered", "ended"},
           \A s \in Sid : stream'[s] = stream[s] \/ Streaming(s)'
    PROVE  Streamed'
BY DEF Streamed, Streaming

(* What excuses a miss of call s. *)
Cause(s) == \/ outcome[s] \in {"busy", "no-answer", "failed"}
            \/ stream[s].how \in {"early", "failed"}
            \/ s \in machines

LEMMA MissStep ==
    ASSUME TypeOK, MissHasCause, CallsKept, HistoryKept,
           \A s \in Sid : stream[s].how # "none" => stream'[s].how = stream[s].how,
           \A s \in Sid : calls[s].phase # "none" /\ rows'[calls[s].row].status = "missed" =>
                             rows[calls[s].row].status = "missed" \/ Cause(s)'
    PROVE  MissHasCause'
<1>. SUFFICES ASSUME NEW s \in Sid, calls'[s].phase # "none",
                     rows'[calls'[s].row].status = "missed"
              PROVE  Cause(s)'
  BY DEF MissHasCause, Cause
<1>1. calls[s].phase # "none" /\ calls'[s].row = calls[s].row
  BY DEF CallsKept
<1>2. CASE rows[calls[s].row].status = "missed"
  BY <1>1, <1>2 DEF MissHasCause, HistoryKept, Cause
<1>. QED
  BY <1>1, <1>2

(* No new debt. *)
LEMMA OwingStep ==
    ASSUME Owing, OneFollowUpPerMiss, RowsKept, UNCHANGED encouraged,
           \A h \in Handler, r \in RowId : HandlerOwes(h, r)' => HandlerOwes(h, r),
           \A s \in Sid, r \in RowId : StreamOwes(s, r)' => StreamOwes(s, r)
    PROVE  Owing' /\ OneFollowUpPerMiss'
<1>1. \A r \in RowId : Owed(r)' => Owed(r)
  BY DEF Owed
<1>2. OneFollowUpPerMiss'
  BY DEF OneFollowUpPerMiss, RowsKept, RowKept
<1>3. Owing'
  BY <1>1 DEF Owing, RowsKept, RowKept
<1>. QED
  BY <1>2, <1>3

(* A call becomes a missed one, and one follow-up of it is owed. *)
LEMMA OwingNew ==
    ASSUME Owing, OneFollowUpPerMiss, RowsKept, UNCHANGED encouraged,
           NEW m \in RowId, rows[m].status # "missed", rows'[m].status = "missed",
           \A h \in Handler, r \in RowId \ {m} : HandlerOwes(h, r)' => HandlerOwes(h, r),
           \A s \in Sid, r \in RowId \ {m} : StreamOwes(s, r)' => StreamOwes(s, r),
           \A h, g \in Handler : HandlerOwes(h, m)' /\ HandlerOwes(g, m)' => h = g,
           \A h \in Handler, s \in Sid : ~(HandlerOwes(h, m)' /\ StreamOwes(s, m)')
    PROVE  Owing' /\ OneFollowUpPerMiss'
<1>1. \A r \in RowId \ {m} : Owed(r)' => Owed(r)
  BY DEF Owed
<1>2. OneFollowUpPerMiss'
  BY DEF OneFollowUpPerMiss, RowsKept, RowKept
<1>3. m \notin encouraged /\ \A q \in RowId : rows[q].parent # m
  BY DEF Owing, OneFollowUpPerMiss
<1>4. Owing'
  BY <1>1, <1>3 DEF Owing, RowsKept, RowKept
<1>. QED
  BY <1>2, <1>4

(* A step that misses no call and follows none up. *)
LEMMA QuietStep ==
    ASSUME IInv, TypeOK', RowsKept,
           \A r \in RowId : rows'[r].status = "missed" => rows[r].status = "missed",
           \A s \in Sid : calls'[s].row = calls[s].row /\ calls'[s].phase = calls[s].phase,
           UNCHANGED <<outcome, machines, encouraged>>, net' \subseteq net,
           \A h \in Handler : handler'[h] = handler[h] \/ (handler'[h].pc # "missed" /\ Serving(h)'),
           \A s \in Sid : \/ stream'[s] = stream[s]
                          \/ /\ stream'[s].pc # "missed" /\ Streaming(s)'
                             /\ stream[s].how # "none" => stream'[s].how = stream[s].how
    PROVE  IInv'
<1>. USE DEF IInv
<1>1. CallsKept /\ HistoryKept
  BY DEF CallsKept, HistoryKept
<1>2. Placed'
  <2>1. \A r \in RowId : /\ rows'[r].sid = rows[r].sid
                         /\ rows[r].status \notin {"none", "scheduled"} =>
                               rows'[r].status \notin {"none", "scheduled"}
    BY DEF RowsKept, RowKept
  <2>2. \A s \in Sid : outcome'[s] # "none" => calls'[s].phase = "ended"
    BY DEF Placed
  <2>. QED
    BY <1>1, <2>1, <2>2, PlacedStep
<1>3. Heard'
  BY <1>1, HeardStep
<1>4. Streamed'
  BY StreamedStep
<1>5. Owing' /\ OneFollowUpPerMiss'
  <2>1. \A h \in Handler, r \in RowId : HandlerOwes(h, r)' => HandlerOwes(h, r)
    BY DEF HandlerOwes
  <2>2. \A s \in Sid, r \in RowId : StreamOwes(s, r)' => StreamOwes(s, r)
    BY DEF StreamOwes
  <2>. QED
    BY <2>1, <2>2, OwingStep
<1>6. MissHasCause'
  <2>1. \A s \in Sid : calls[s].phase # "none" => calls[s].row \in RowId
    BY DEF TypeOK, CallsOK
  <2>2. \A s \in Sid : stream[s].how # "none" => stream'[s].how = stream[s].how
    OBVIOUS
  <2>. QED
    BY <1>1, <2>1, <2>2, MissStep
<1>. QED
  BY <1>2, <1>3, <1>4, <1>5, <1>6

(* A step that makes m a missed call, for a cause, with one follow-up owed. *)
LEMMA MissedStep ==
    ASSUME IInv, TypeOK', RowsKept, UNCHANGED <<calls, net, outcome, machines, encouraged>>,
           NEW m \in RowId, rows[m].status # "missed", rows'[m].status = "missed",
           \A r \in RowId \ {m} : rows'[r] = rows[r],
           \A h \in Handler : handler'[h] = handler[h] \/ Serving(h)',
           \A s \in Sid : stream'[s] = stream[s] \/ Streaming(s)',
           \A s \in Sid : stream[s].how # "none" => stream'[s].how = stream[s].how,
           \A h \in Handler, r \in RowId \ {m} : HandlerOwes(h, r)' => HandlerOwes(h, r),
           \A s \in Sid, r \in RowId \ {m} : StreamOwes(s, r)' => StreamOwes(s, r),
           \A h, g \in Handler : HandlerOwes(h, m)' /\ HandlerOwes(g, m)' => h = g,
           \A h \in Handler, s \in Sid : ~(HandlerOwes(h, m)' /\ StreamOwes(s, m)'),
           \A s \in Sid : CallFor(s, m) => Cause(s)'
    PROVE  IInv'
<1>. USE DEF IInv
<1>1. CallsKept /\ HistoryKept
  BY DEF CallsKept, HistoryKept
<1>2. Placed'
  <2>1. \A r \in RowId : /\ rows'[r].sid = rows[r].sid
                         /\ rows[r].status \notin {"none", "scheduled"} =>
                               rows'[r].status \notin {"none", "scheduled"}
    BY DEF RowsKept, RowKept
  <2>2. \A s \in Sid : outcome'[s] # "none" => calls'[s].phase = "ended"
    BY DEF Placed
  <2>. QED
    BY <1>1, <2>1, <2>2, PlacedStep
<1>3. Heard'
  BY <1>1, HeardStep
<1>4. Streamed'
  BY StreamedStep
<1>5. Owing' /\ OneFollowUpPerMiss'
  BY OwingNew
<1>6. MissHasCause'
  <2>1. \A s \in Sid : calls[s].phase # "none" => calls[s].row \in RowId
    BY DEF TypeOK, CallsOK
  <2>2. \A s \in Sid : calls[s].phase # "none" /\ rows'[calls[s].row].status = "missed" =>
                          rows[calls[s].row].status = "missed" \/ Cause(s)'
    BY <2>1 DEF CallFor
  <2>. QED
    BY <1>1, <2>2, MissStep
<1>. QED
  BY <1>2, <1>3, <1>4, <1>5, <1>6

-----------------------------------------------------------------------------
(* How handlers and streams go on.                                         *)

HandlersOK == /\ handler \in [Handler -> HandlerRec]
              /\ \A h \in Handler : handler[h].pc # "idle" => handler[h].row \in RowId
StreamsOK == stream \in [Sid -> StreamRec]

HandlerAt(h, p) == handler' = [handler EXCEPT ![h].pc = p]

LEMMA Rest == Idle \in HandlerRec /\ Idle.pc = "idle"
BY DEF Idle, HandlerRec

LEMMA LeavesStep ==
    ASSUME HandlersOK, NEW h \in Handler, Leaves(h)
    PROVE  /\ HandlersOK'
           /\ handler'[h].pc = "idle" /\ \A g \in Handler \ {h} : handler'[g] = handler[g]
BY Rest DEF HandlersOK, Leaves

LEMMA HandlerAtStep ==
    ASSUME HandlersOK, NEW h \in Handler, handler[h].pc # "idle",
           NEW p \in {"seq", "apply", "hangup", "reread", "cas", "missed"}, HandlerAt(h, p)
    PROVE  /\ HandlersOK'
           /\ handler'[h].pc = p
           /\ handler'[h].ev = handler[h].ev /\ handler'[h].row = handler[h].row
           /\ \A g \in Handler \ {h} : handler'[g] = handler[g]
<1>1. handler[h] \in HandlerRec /\ handler[h].row \in RowId
  BY DEF HandlersOK
<1>2. /\ [handler[h] EXCEPT !.pc = p] \in HandlerRec
      /\ [handler[h] EXCEPT !.pc = p].pc = p
      /\ [handler[h] EXCEPT !.pc = p].ev = handler[h].ev
      /\ [handler[h] EXCEPT !.pc = p].row = handler[h].row
  BY <1>1 DEF HandlerRec
<1>3. handler'[h] = [handler[h] EXCEPT !.pc = p] /\ \A g \in Handler \ {h} : handler'[g] = handler[g]
  BY DEF HandlersOK, HandlerAt
<1>. QED
  BY <1>1, <1>2, <1>3 DEF HandlersOK, HandlerAt

LEMMA EntersStep ==
    ASSUME HandlersOK, RowsOK, NEW h \in Handler,
           NEW p \in {"seq", "apply", "hangup", "reread", "cas", "missed"},
           NEW e \in Event, NEW r \in RowId, Enters(h, p, e, r)
    PROVE  /\ HandlersOK'
           /\ handler'[h].pc = p /\ handler'[h].ev = e /\ handler'[h].row = r
           /\ \A g \in Handler \ {h} : handler'[g] = handler[g]
<1>. DEFINE new == [pc |-> p, ev |-> e, row |-> r, st |-> rows[r].status, ver |-> rows[r].version]
<1>1. rows[r].status \in Status \cup {"none"} /\ rows[r].version \in Nat
  BY DEF RowsOK, Row
<1>2. new \in HandlerRec /\ new.pc = p /\ new.ev = e /\ new.row = r
  BY <1>1 DEF HandlerRec
<1>3. handler'[h] = new /\ \A g \in Handler \ {h} : handler'[g] = handler[g]
  BY DEF HandlersOK, Enters
<1>. HIDE DEF new
<1>4. handler' \in [Handler -> HandlerRec]
  BY <1>2, <1>3 DEF HandlersOK, Enters
<1>. QED
  BY <1>2, <1>3, <1>4 DEF HandlersOK

LEMMA AtStep ==
    ASSUME StreamsOK, NEW s \in Sid,
           NEW p \in {"none", "open", "join", "talking", "cleanup", "cas", "missed", "done"}, At(s, p)
    PROVE  /\ StreamsOK'
           /\ stream'[s].pc = p /\ stream'[s].how = stream[s].how
           /\ \A q \in Sid \ {s} : stream'[q] = stream[q]
<1>1. stream[s] \in StreamRec
  BY DEF StreamsOK
<1>2. /\ [stream[s] EXCEPT !.pc = p] \in StreamRec
      /\ [stream[s] EXCEPT !.pc = p].pc = p
      /\ [stream[s] EXCEPT !.pc = p].how = stream[s].how
  BY <1>1 DEF StreamRec
<1>3. stream'[s] = [stream[s] EXCEPT !.pc = p] /\ \A q \in Sid \ {s} : stream'[q] = stream[q]
  BY DEF StreamsOK, At
<1>. QED
  BY <1>2, <1>3 DEF StreamsOK, At

LEMMA SnapshotStep ==
    ASSUME StreamsOK, RowsOK, NEW s \in Sid, calls[s].row \in RowId,
           NEW p \in {"join", "cas"}, Snapshot(s, p)
    PROVE  /\ StreamsOK'
           /\ stream'[s].pc = p /\ stream'[s].how = stream[s].how
           /\ \A q \in Sid \ {s} : stream'[q] = stream[q]
<1>. DEFINE a == [stream[s] EXCEPT !.pc = p]
            b == [a EXCEPT !.st = rows[calls[s].row].status]
            c == [b EXCEPT !.ver = rows[calls[s].row].version]
<1>1. rows[calls[s].row].status \in Status \cup {"none"} /\ rows[calls[s].row].version \in Nat
  BY DEF RowsOK, Row
<1>2. stream[s] \in StreamRec
  BY DEF StreamsOK
<1>3. a \in StreamRec /\ a.pc = p /\ a.how = stream[s].how
  BY <1>2 DEF StreamRec
<1>4. b \in StreamRec /\ b.pc = p /\ b.how = stream[s].how
  BY <1>1, <1>3 DEF StreamRec
<1>5. c \in StreamRec /\ c.pc = p /\ c.how = stream[s].how
  BY <1>1, <1>4 DEF StreamRec
<1>6. stream'[s] = c /\ \A q \in Sid \ {s} : stream'[q] = stream[q]
  BY DEF StreamsOK, Snapshot
<1>7. stream' \in [Sid -> StreamRec]
  <2>. HIDE DEF c
  <2>1. stream' = [stream EXCEPT ![s] = c]
    BY DEF Snapshot, c, StreamsOK
  <2>. QED
    BY <1>5, <2>1 DEF StreamsOK
<1>. QED
  BY <1>5, <1>6, <1>7 DEF StreamsOK

LEMMA ClosesStep ==
    ASSUME StreamsOK, NEW s \in Sid, Closes(s)
    PROVE  /\ StreamsOK'
           /\ stream'[s].pc = "done" /\ stream'[s].how = stream[s].how
           /\ \A q \in Sid \ {s} : stream'[q] = stream[q]
<1>. DEFINE a == [NoStream EXCEPT !.pc = "done"]
            b == [a EXCEPT !.how = stream[s].how]
<1>1. stream[s].how \in How
  BY DEF StreamsOK, StreamRec
<1>2. a \in StreamRec /\ a.pc = "done"
  BY DEF NoStream, StreamRec, How
<1>3. b \in StreamRec /\ b.pc = "done" /\ b.how = stream[s].how
  BY <1>1, <1>2 DEF StreamRec
<1>4. stream'[s] = b /\ \A q \in Sid \ {s} : stream'[q] = stream[q]
  BY DEF StreamsOK, Closes
<1>. QED
  BY <1>3, <1>4 DEF StreamsOK, Closes

TypeParts == /\ RowsOK /\ CallsOK /\ HandlersOK /\ StreamsOK
             /\ net \subseteq Event /\ outcome \in [Sid -> Final \cup {"none"}]
             /\ machines \subseteq Sid /\ encouraged \subseteq RowId /\ budget \in Nat

LEMMA Parts == (TypeOK <=> TypeParts) /\ (TypeOK' <=> TypeParts')
BY DEF TypeOK, TypeParts, HandlersOK, StreamsOK

LEMMA RetryRowIs ==
    ASSUME RowsOK, NEW m \in RowId
    PROVE  /\ RetryRow(m) \in Row /\ RetryRow(m).status = "scheduled" /\ RetryRow(m).sid = NoSid
           /\ RetryRow(m).parent = m /\ RetryRow(m).attempt = rows[m].attempt + 1
<1>1. rows[m].attempt + 1 \in Nat
  BY DEF RowsOK, Row
<1>2. FreshRow \in Row
  BY FreshRowIsRow
<1>. DEFINE a == [FreshRow EXCEPT !.attempt = rows[m].attempt + 1]
<1>3. a \in Row /\ a.attempt = rows[m].attempt + 1 /\ a.status = "scheduled" /\ a.sid = NoSid
  BY <1>1, <1>2, FreshRowIs DEF Row
<1>4. RetryRow(m) = [a EXCEPT !.parent = m]
  BY DEF RetryRow
<1>. HIDE DEF a
<1>. QED
  BY <1>3, <1>4 DEF Row

(* A row whose SID is that of a call is the row of that call. *)
LEMMA OwnerCalled ==
    ASSUME IInv, NEW e \in Event, NEW r \in Owner(e.sid)
    PROVE  r \in RowId /\ CallFor(e.sid, r)
BY CallLogAssumption DEF Owner, IInv, Placed, Event

LEMMA StoreSeqStep ==
    ASSUME IInv, NEW h \in Handler, handler[h].pc # "idle", rows' = StoreSeq(h)
    PROVE  /\ RowsOK' /\ RowsKept
           /\ \A r \in RowId : rows'[r].status = rows[r].status
<1>. DEFINE q == handler[h].row
            n == handler[h].ev.seq + 1
<1>1. q \in RowId /\ n \in Nat
  BY DEF IInv, Heard, Serving, TypeOK, Event
<1>2. rows[q] \in Row
  BY <1>1 DEF IInv, TypeOK, RowsOK
<1>3. rows' = [rows EXCEPT ![q] = [rows[q] EXCEPT !.seq = n]]
  BY DEF StoreSeq
<1>4. [rows[q] EXCEPT !.seq = n] \in Row
  BY <1>1, <1>2, ColumnUpdate
<1>5. /\ [rows[q] EXCEPT !.seq = n].status = rows[q].status
      /\ [rows[q] EXCEPT !.seq = n].sid = rows[q].sid
      /\ [rows[q] EXCEPT !.seq = n].parent = rows[q].parent
      /\ [rows[q] EXCEPT !.seq = n].attempt = rows[q].attempt
  BY <1>2 DEF Row
<1>. HIDE DEF q, n
<1>6. RowsOK'
  BY <1>1, <1>3, <1>4 DEF IInv, TypeOK, RowsOK
<1>7. ASSUME NEW r \in RowId
      PROVE  /\ rows'[r].status = rows[r].status /\ rows'[r].sid = rows[r].sid
             /\ rows'[r].parent = rows[r].parent /\ rows'[r].attempt = rows[r].attempt
  BY <1>1, <1>3, <1>5 DEF IInv, TypeOK, RowsOK
<1>8. RowsKept
  BY <1>7 DEF RowsKept, RowKept
<1>. QED
  BY <1>6, <1>7, <1>8

-----------------------------------------------------------------------------
(* Dispatching and Twilio.                                                 *)

LEMMA DialStep ==
    ASSUME IInv, NEW r \in RowId, NEW s \in Sid, Dial(r, s)
    PROVE  IInv'
<1>. USE DEF IInv
<1>1. /\ calls[s].phase = "none" /\ rows[r].status = "scheduled"
      /\ calls' = [calls EXCEPT ![s] = [row |-> r, phase |-> "queued", hangup |-> FALSE]]
      /\ rows' = [rows EXCEPT ![r] = Moved(r, "dispatching")]
      /\ UNCHANGED own
  BY DEF Dial, PlaceCall
<1>2. /\ calls'[s].row = r /\ calls'[s].phase = "queued"
      /\ \A q \in Sid \ {s} : calls'[q] = calls[q]
  BY <1>1 DEF TypeOK, CallsOK
<1>3. /\ rows'[r].status = "dispatching" /\ rows'[r].sid = rows[r].sid
      /\ rows'[r].parent = rows[r].parent /\ rows'[r].attempt = rows[r].attempt
      /\ \A q \in RowId \ {r} : rows'[q] = rows[q]
  <2>1. RowsOK /\ "dispatching" \in Status
    BY StatusSet DEF TypeOK
  <2>. DEFINE new == Moved(r, "dispatching")
  <2>2. /\ new.status = "dispatching" /\ new.sid = rows[r].sid
        /\ new.parent = rows[r].parent /\ new.attempt = rows[r].attempt
    BY <2>1, MovedRow
  <2>. HIDE DEF new
  <2>3. rows' = [rows EXCEPT ![r] = new]
    BY <1>1 DEF new
  <2>. QED
    BY <2>1, <2>2, <2>3 DEF RowsOK
<1>4. TypeOK'
  <2>1. RowsOK' /\ CallsOK'
    BY <1>1, MovedRow, StatusSet, RowsUpdate, PlaceCallType DEF TypeOK, RowsOK, PlaceCall
  <2>. QED
    BY <1>1, <2>1 DEF TypeOK, own
<1>5. \A q \in Sid, x \in RowId : CallFor(q, x) => CallFor(q, x)' /\ x # r /\ q # s
  BY <1>1, <1>2 DEF CallFor, Placed
<1>6. \A q \in Sid, x \in RowId : CallFor(q, x)' => CallFor(q, x) \/ (q = s /\ x = r)
  BY <1>2 DEF CallFor
<1>7. Placed'
  <2>1. \A q \in Sid, t \in Sid, x \in RowId : CallFor(q, x)' /\ CallFor(t, x)' => q = t
    BY <1>5, <1>6 DEF Placed
  <2>2. \A q \in Sid : calls'[q].phase # "none" =>
            rows'[calls'[q].row].status \notin {"none", "scheduled"}
    <3>. SUFFICES ASSUME NEW q \in Sid, calls'[q].phase # "none"
                  PROVE  rows'[calls'[q].row].status \notin {"none", "scheduled"}
      OBVIOUS
    <3>1. CASE q = s
      BY <1>2, <1>3, <3>1
    <3>2. CASE q # s
      BY <1>2, <1>3, <3>2 DEF Placed, TypeOK, CallsOK
    <3>. QED
      BY <3>1, <3>2
  <2>3. \A x \in RowId : rows'[x].sid # NoSid => CallFor(rows[x].sid, x)'
    <3>1. \A x \in RowId : rows'[x].sid = rows[x].sid /\ rows[x].sid \in Sid \cup {NoSid}
      BY <1>3 DEF TypeOK, RowsOK, Row
    <3>2. \A x \in RowId : rows[x].sid # NoSid => CallFor(rows[x].sid, x)
      BY DEF Placed
    <3>3. \A x \in RowId : rows[x].sid # NoSid => rows[x].sid # s /\ rows[x].sid \in Sid
      BY <1>1, <3>1, <3>2 DEF CallFor
    <3>. QED
      BY <1>2, <3>1, <3>2, <3>3 DEF CallFor
  <2>4. \A q \in Sid : outcome'[q] # "none" => calls'[q].phase = "ended"
    BY <1>1, <1>2 DEF Placed, own
  <2>. QED
    BY <2>1, <2>2, <2>3, <2>4 DEF Placed
<1>8. Heard'
  <2>1. \A e \in Event : Truthful(e) => Truthful(e)'
    BY <1>1, <1>2 DEF Truthful, Event, own
  <2>2. \A h \in Handler : Serving(h)'
    BY <1>1, <1>5, <2>1 DEF Heard, Serving, own, Event, TypeOK
  <2>. QED
    BY <1>1, <2>1, <2>2 DEF Heard, own, TypeOK
<1>9. Streamed'
  BY <1>1, <1>2 DEF Streamed, Streaming, own
<1>10. Owing' /\ OneFollowUpPerMiss'
  <2>1. \A q \in Sid, x \in RowId : StreamOwes(q, x)' => StreamOwes(q, x)
    BY <1>1, <1>2 DEF StreamOwes, Streamed, Streaming, own
  <2>2. \A h \in Handler, x \in RowId : HandlerOwes(h, x)' => HandlerOwes(h, x)
    BY <1>1 DEF HandlerOwes, own
  <2>3. \A x \in RowId : Owed(x)' => Owed(x)
    BY <2>1, <2>2 DEF Owed
  <2>4. \A x \in RowId : /\ rows'[x].parent = rows[x].parent /\ rows'[x].attempt = rows[x].attempt
                         /\ rows[x].status = "missed" => rows'[x].status = "missed"
                         /\ rows'[x].status = "none" => rows[x].status = "none"
    BY <1>1, <1>3
  <2>5. UNCHANGED encouraged
    BY <1>1 DEF own
  <2>6. OneFollowUpPerMiss'
    BY <2>4, <2>5 DEF OneFollowUpPerMiss
  <2>. QED
    BY <2>1, <2>2, <2>3, <2>4, <2>5, <2>6 DEF Owing
<1>11. MissHasCause'
  <2>. SUFFICES ASSUME NEW q \in Sid, calls'[q].phase # "none",
                       rows'[calls'[q].row].status = "missed"
                PROVE  Cause(q)'
    BY DEF MissHasCause, Cause
  <2>1. q # s
    BY <1>2, <1>3
  <2>2. calls[q].row \in RowId /\ rows[calls[q].row].status = "missed" /\ calls[q].phase # "none"
    BY <1>2, <1>3, <2>1 DEF TypeOK, CallsOK
  <2>. QED
    BY <1>1, <2>2 DEF MissHasCause, Cause, own
<1>. QED
  BY <1>4, <1>7, <1>8, <1>9, <1>10, <1>11

LEMMA RecordStep ==
    ASSUME IInv, NEW s \in Sid, Record(s)
    PROVE  IInv'
<1>. USE DEF IInv
<1>. DEFINE r == calls[s].row
            new == [Moved(r, "ringing") EXCEPT !.sid = s]
<1>1. /\ CallFor(s, r) /\ rows[r].status = "dispatching" /\ r \in RowId
      /\ rows' = [rows EXCEPT ![r] = new]
      /\ UNCHANGED <<calls, own>>
  BY DEF Record, CallFor, TypeOK, CallsOK
<1>2. /\ new \in Row /\ new.status = "ringing" /\ new.sid = s
      /\ new.parent = rows[r].parent /\ new.attempt = rows[r].attempt
  <2>1. "ringing" \in Status
    BY StatusSet
  <2>2. /\ Moved(r, "ringing") \in Row /\ Moved(r, "ringing").status = "ringing"
        /\ Moved(r, "ringing").parent = rows[r].parent
        /\ Moved(r, "ringing").attempt = rows[r].attempt
    BY <1>1, <2>1, MovedRow DEF TypeOK
  <2>. QED
    BY <2>2 DEF Row
<1>. HIDE DEF new
<1>3. /\ rows'[r].status = "ringing" /\ rows'[r].sid = s
      /\ rows'[r].parent = rows[r].parent /\ rows'[r].attempt = rows[r].attempt
      /\ \A q \in RowId \ {r} : rows'[q] = rows[q]
  BY <1>1, <1>2 DEF TypeOK, RowsOK
<1>4. TypeOK'
  <2>1. RowsOK'
    BY <1>1, <1>2, RowsUpdate DEF TypeOK, RowsOK
  <2>. QED
    BY <1>1, <2>1 DEF TypeOK, own, CallsOK
<1>. HIDE DEF r
<1>5. Placed'
  <2>1. \A q \in Sid, x \in RowId : CallFor(q, x)' <=> CallFor(q, x)
    BY <1>1 DEF CallFor
  <2>2. \A q \in Sid : calls'[q].phase # "none" =>
            rows'[calls'[q].row].status \notin {"none", "scheduled"}
    BY <1>1, <1>3 DEF Placed, TypeOK, CallsOK
  <2>3. \A x \in RowId : rows'[x].sid # NoSid => CallFor(rows[x].sid, x)'
    <3>. SUFFICES ASSUME NEW x \in RowId, rows'[x].sid # NoSid PROVE CallFor(rows[x].sid, x)'
      OBVIOUS
    <3>1. CASE x = r
      BY <1>1, <1>3, <3>1 DEF CallFor
    <3>2. CASE x # r
      BY <1>1, <1>3, <3>2 DEF CallFor, Placed
    <3>. QED
      BY <3>1, <3>2
  <2>. QED
    BY <1>1, <2>1, <2>2, <2>3 DEF Placed, own
<1>6. CallsKept /\ HistoryKept
  BY <1>1 DEF CallsKept, HistoryKept, own
<1>7. Heard'
  BY <1>1, <1>6, HeardStep DEF own
<1>8. Streamed'
  BY <1>1 DEF Streamed, Streaming, own
<1>9. Owing' /\ OneFollowUpPerMiss'
  <2>1. \A x \in RowId : Owed(x)' <=> Owed(x)
    BY <1>1 DEF Owed, HandlerOwes, StreamOwes, own
  <2>2. \A x \in RowId : /\ rows'[x].parent = rows[x].parent /\ rows'[x].attempt = rows[x].attempt
                         /\ rows[x].status = "missed" => rows'[x].status = "missed"
                         /\ rows'[x].status = "none" => rows[x].status = "none"
    BY <1>1, <1>3
  <2>3. UNCHANGED encouraged
    BY <1>1 DEF own
  <2>4. OneFollowUpPerMiss'
    BY <2>2, <2>3 DEF OneFollowUpPerMiss
  <2>. QED
    BY <1>1, <2>1, <2>2, <2>3, <2>4 DEF Owing, HandlerOwes, StreamOwes, own
<1>10. MissHasCause'
  <2>1. \A q \in Sid : calls[q].phase # "none" /\ rows'[calls[q].row].status = "missed" =>
                          rows[calls[q].row].status = "missed"
    BY <1>3 DEF TypeOK, CallsOK
  <2>. QED
    BY <1>1, <1>6, <2>1, MissStep DEF own
<1>. QED
  BY <1>4, <1>5, <1>7, <1>8, <1>9, <1>10

(* Twilio writes no row and nobody owes anything for what it reports. *)
LEMMA ReportStep ==
    ASSUME IInv, TypeOK', UNCHANGED <<rows, handler, encouraged>>, CallsKept, HistoryKept,
           \A s \in Sid : outcome'[s] # "none" => calls'[s].phase = "ended",
           \A e \in net' : e \in net \/ Truthful(e)',
           \A s \in Sid : calls[s].phase \in {"answered", "ended"} =>
                             calls'[s].phase \in {"answered", "ended"},
           \A s \in Sid : \/ stream'[s] = stream[s]
                          \/ Streaming(s)' /\ stream'[s].pc # "missed" /\ stream[s].how = "none"
    PROVE  IInv'
<1>. USE DEF IInv
<1>1. Placed'
  BY PlacedStep
<1>2. Heard'
  BY HeardStep
<1>3. Streamed'
  BY StreamedStep
<1>4. Owing' /\ OneFollowUpPerMiss'
  <2>1. \A s \in Sid, r \in RowId : StreamOwes(s, r)' => StreamOwes(s, r)
    BY DEF StreamOwes, CallsKept
  <2>2. \A h \in Handler, r \in RowId : HandlerOwes(h, r)' => HandlerOwes(h, r)
    BY DEF HandlerOwes
  <2>. QED
    BY <2>1, <2>2, StayKept, OwingStep
<1>5. MissHasCause'
  <2>1. \A s \in Sid : stream[s].how # "none" => stream'[s].how = stream[s].how
    OBVIOUS
  <2>. QED
    BY <2>1, MissStep
<1>. QED
  BY <1>1, <1>2, <1>3, <1>4, <1>5

LEMMA EnterStep ==
    ASSUME CallsOK, NEW s \in Sid, calls[s].phase # "none", NEW p \in Phase \ {"none"}, Enter(s, p)
    PROVE  /\ CallsOK' /\ CallsKept
           /\ calls'[s].phase = p /\ \A q \in Sid \ {s} : calls'[q] = calls[q]
<1>1. calls[s] \in Call /\ calls[s].row \in RowId
  BY DEF CallsOK
<1>2. /\ [calls[s] EXCEPT !.phase = p] \in Call
      /\ [calls[s] EXCEPT !.phase = p].phase = p
      /\ [calls[s] EXCEPT !.phase = p].row = calls[s].row
  BY <1>1 DEF Call
<1>3. /\ calls'[s] = [calls[s] EXCEPT !.phase = p]
      /\ \A q \in Sid \ {s} : calls'[q] = calls[q]
  BY DEF CallsOK, Enter
<1>4. calls' \in [Sid -> Call]
  BY <1>2, <1>3 DEF CallsOK, Enter
<1>. QED
  BY <1>1, <1>2, <1>3, <1>4 DEF CallsOK, CallsKept

LEMMA ReportType ==
    ASSUME NEW s \in Sid, NEW what \in What, NEW n \in 0..3
    PROVE  /\ Report(s, what, n) \in Event
           /\ Report(s, what, n).sid = s /\ Report(s, what, n).what = what
BY DEF Report, Event

LEMMA TwilioStep ==
    ASSUME IInv, NEW s \in Sid, Twilio(s)
    PROVE  IInv'
<1>. USE Parts DEF IInv, TypeParts
<1>1. CASE TwilioRings(s)
  <2>1. /\ calls[s].phase = "queued" /\ Enter(s, "ringing")
        /\ net' = net \cup {Report(s, "initiated", 0), Report(s, "ringing", 1)}
        /\ UNCHANGED <<rows, outcome, machines, handler, stream, encouraged, budget>>
    BY <1>1 DEF TwilioRings
  <2>2. /\ CallsOK' /\ CallsKept /\ calls'[s].phase = "ringing"
        /\ \A q \in Sid \ {s} : calls'[q] = calls[q]
    BY <2>1, EnterStep DEF Phase
  <2>3. /\ Report(s, "initiated", 0) \in Event /\ Report(s, "initiated", 0).what = "initiated"
        /\ Report(s, "ringing", 1) \in Event /\ Report(s, "ringing", 1).what = "ringing"
        /\ Report(s, "initiated", 0).sid = s /\ Report(s, "ringing", 1).sid = s
    BY ReportType DEF What
  <2>4. TypeOK'
    BY <2>1, <2>2, <2>3 DEF RowsOK, HandlersOK, StreamsOK
  <2>5. \A e \in net' : e \in net \/ Truthful(e)'
    BY <2>1, <2>2, <2>3 DEF Truthful, Final
  <2>6. HistoryKept
    BY <2>1 DEF HistoryKept
  <2>7. \A q \in Sid : /\ outcome'[q] # "none" => calls'[q].phase = "ended"
                       /\ calls[q].phase \in {"answered", "ended"} =>
                             calls'[q].phase \in {"answered", "ended"}
    BY <2>1, <2>2 DEF Placed
  <2>. QED
    BY <2>1, <2>2, <2>4, <2>5, <2>6, <2>7, ReportStep
<1>2. CASE TwilioAnswers(s)
  <2>1. /\ calls[s].phase = "ringing" /\ Enter(s, "answered")
        /\ net' = net \cup {Report(s, "in-progress", 2)}
        /\ At(s, "open")
        /\ UNCHANGED <<rows, outcome, machines, handler, encouraged, budget>>
    BY <1>2 DEF TwilioAnswers, At
  <2>2. /\ CallsOK' /\ CallsKept /\ calls'[s].phase = "answered"
        /\ \A q \in Sid \ {s} : calls'[q] = calls[q]
    BY <2>1, EnterStep DEF Phase
  <2>3. /\ Report(s, "in-progress", 2) \in Event /\ Report(s, "in-progress", 2).sid = s
        /\ Report(s, "in-progress", 2).what = "in-progress"
    BY ReportType DEF What
  <2>4. /\ StreamsOK' /\ stream'[s].pc = "open" /\ stream'[s].how = stream[s].how
        /\ \A q \in Sid \ {s} : stream'[q] = stream[q]
    BY <2>1, AtStep
  <2>5. TypeOK'
    BY <2>1, <2>2, <2>3, <2>4 DEF RowsOK, HandlersOK
  <2>6. \A e \in net' : e \in net \/ Truthful(e)'
    BY <2>1, <2>2, <2>3 DEF Truthful, Final
  <2>7. HistoryKept
    BY <2>1 DEF HistoryKept
  <2>8. \A q \in Sid : /\ outcome'[q] # "none" => calls'[q].phase = "ended"
                       /\ calls[q].phase \in {"answered", "ended"} =>
                             calls'[q].phase \in {"answered", "ended"}
    BY <2>1, <2>2 DEF Placed
  <2>9. stream[s].how = "none" /\ Streaming(s)'
    BY <2>1, <2>2, <2>4 DEF Streamed, Streaming, StreamsOK, StreamRec
  <2>. QED
    BY <2>1, <2>2, <2>4, <2>5, <2>6, <2>7, <2>8, <2>9, ReportStep
<1>3. CASE TwilioHearsMachine(s)
  <2>1. /\ calls[s].phase = "answered" /\ machines' = machines \cup {s}
        /\ net' = net \cup {Report(s, "machine", 0)}
        /\ UNCHANGED <<rows, calls, outcome, handler, stream, encouraged, budget>>
    BY <1>3 DEF TwilioHearsMachine
  <2>2. /\ Report(s, "machine", 0) \in Event /\ Report(s, "machine", 0).sid = s
        /\ Report(s, "machine", 0).what = "machine"
    BY ReportType DEF What
  <2>3. TypeOK'
    BY <2>1, <2>2 DEF RowsOK, CallsOK, HandlersOK, StreamsOK
  <2>4. \A e \in net' : e \in net \/ Truthful(e)'
    BY <2>1, <2>2 DEF Truthful, Final
  <2>5. CallsKept /\ HistoryKept
    BY <2>1 DEF CallsKept, HistoryKept
  <2>. QED
    BY <2>1, <2>3, <2>4, <2>5, ReportStep DEF Placed
<1>4. CASE TwilioEnds(s)
  <2>1. PICK f \in Endings(s) :
            /\ calls[s].phase \in {"ringing", "answered"} /\ Enter(s, "ended")
            /\ outcome' = [outcome EXCEPT ![s] = f]
            /\ net' = net \cup {Report(s, f, IF f = "completed" THEN 3 ELSE 2)}
            /\ UNCHANGED <<rows, machines, handler, stream, encouraged, budget>>
    BY <1>4 DEF TwilioEnds
  <2>2. f \in Final /\ f # "none"
    BY DEF Endings, Final
  <2>3. /\ CallsOK' /\ CallsKept /\ calls'[s].phase = "ended"
        /\ \A q \in Sid \ {s} : calls'[q] = calls[q]
    BY <2>1, EnterStep DEF Phase
  <2>. DEFINE e == Report(s, f, IF f = "completed" THEN 3 ELSE 2)
  <2>4. e \in Event /\ e.sid = s /\ e.what = f
    BY <2>2, ReportType DEF What
  <2>5. /\ outcome'[s] = f /\ \A q \in Sid \ {s} : outcome'[q] = outcome[q]
        /\ outcome' \in [Sid -> Final \cup {"none"}]
    BY <2>1, <2>2
  <2>6. outcome[s] = "none"
    BY <2>1 DEF Placed
  <2>7. HistoryKept
    BY <2>1, <2>5, <2>6 DEF HistoryKept
  <2>8. Truthful(e)'
    BY <2>2, <2>3, <2>4, <2>5 DEF Truthful, Final
  <2>9. TypeOK'
    BY <2>1, <2>3, <2>4, <2>5 DEF RowsOK, HandlersOK, StreamsOK
  <2>10. \A q \in Sid : /\ outcome'[q] # "none" => calls'[q].phase = "ended"
                        /\ calls[q].phase \in {"answered", "ended"} =>
                              calls'[q].phase \in {"answered", "ended"}
    BY <2>3, <2>5 DEF Placed
  <2>. QED
    BY <2>1, <2>3, <2>7, <2>8, <2>9, <2>10, ReportStep
<1>. QED
  BY <1>1, <1>2, <1>3, <1>4 DEF Twilio
-----------------------------------------------------------------------------
(* What the follow-ups of a miss change.                                   *)

(* The debt for m is paid with a new row q, or m's chain is told, or the   *)
(* miss is left at that.                                                   *)
LEMMA FollowUpStep ==
    ASSUME IInv, NEW m \in RowId, NEW what, FollowUp(m, what), Owed(m),
           UNCHANGED <<calls, net, outcome, machines>>, HandlersOK', StreamsOK',
           \A h \in Handler : handler'[h] = handler[h] \/ (handler'[h].pc # "missed" /\ Serving(h)'),
           \A s \in Sid : \/ stream'[s] = stream[s]
                          \/ /\ stream'[s].pc # "missed" /\ Streaming(s)'
                             /\ stream'[s].how = stream[s].how,
           ~Owed(m)'
    PROVE  IInv'
<1>. USE DEF IInv
<1>1. /\ rows[m].status = "missed" /\ m \notin encouraged
      /\ \A q \in RowId : rows[q].parent # m
  BY DEF Owing
<1>2. RowsOK /\ CallsOK /\ rows[m].attempt \in Nat
  BY DEF TypeOK, RowsOK, Row
<1>3. CallsKept /\ HistoryKept
  BY DEF CallsKept, HistoryKept
<1>4. \A r \in RowId \ {m} : Owed(r)' => Owed(r)
  BY DEF Owed, HandlerOwes, StreamOwes
<1>5. \A r \in RowId :
         /\ \A h, g \in Handler : HandlerOwes(h, r)' /\ HandlerOwes(g, r)' => h = g
         /\ \A h \in Handler, s \in Sid : ~(HandlerOwes(h, r)' /\ StreamOwes(s, r)')
  BY DEF HandlerOwes, StreamOwes, Owing
<1>6. Heard' /\ Streamed'
  BY <1>3, HeardStep, StreamedStep
<1>7. CASE \E q \in RowId : /\ rows[q].status = "none" /\ ~Exhausted(m)
                            /\ rows' = [rows EXCEPT ![q] = RetryRow(m)]
                            /\ UNCHANGED <<encouraged, budget>>
  <2>1. PICK q \in RowId : /\ rows[q].status = "none" /\ ~Exhausted(m)
                           /\ rows' = [rows EXCEPT ![q] = RetryRow(m)]
                           /\ UNCHANGED <<encouraged, budget>>
    BY <1>7
  <2>. DEFINE new == RetryRow(m)
  <2>2. /\ new \in Row /\ new.status = "scheduled" /\ new.sid = NoSid
        /\ new.parent = m /\ new.attempt = rows[m].attempt + 1
    BY <1>2, RetryRowIs
  <2>. HIDE DEF new
  <2>3. rows' = [rows EXCEPT ![q] = new]
    BY <2>1 DEF new
  <2>4. rows'[q] = new /\ \A r \in RowId \ {q} : rows'[r] = rows[r]
    BY <1>2, <2>3 DEF RowsOK
  <2>5. RowsOK'
    BY <1>2, <2>2, <2>3 DEF RowsOK
  <2>6. TypeOK'
    BY <2>1, <2>5, Parts DEF TypeParts, CallsOK
  <2>7. m # q /\ \A s \in Sid : calls[s].phase # "none" => calls[s].row \in RowId \ {q}
    BY <1>1, <1>2, <2>1 DEF Placed, CallsOK
  <2>8. Placed'
    <3>1. \A r \in RowId : rows'[r].sid \in {rows[r].sid, NoSid}
      BY <2>2, <2>4
    <3>2. \A r \in RowId : rows[r].status \notin {"none", "scheduled"} =>
                               rows'[r].status \notin {"none", "scheduled"}
      BY <2>1, <2>4
    <3>3. \A s \in Sid : outcome'[s] # "none" => calls'[s].phase = "ended"
      BY DEF Placed
    <3>. QED
      BY <1>3, <3>1, <3>2, <3>3, PlacedStep
  <2>9. Owing'
    <3>. SUFFICES ASSUME NEW r \in RowId
                  PROVE  /\ Owed(r)' => /\ rows'[r].status = "missed" /\ r \notin encouraged'
                                        /\ \A x \in RowId : rows'[x].parent # r
                         /\ r \in encouraged' => rows'[r].status = "missed"
                         /\ rows'[r].status = "none" => rows'[r].parent = NoRow
      BY <1>5 DEF Owing
    <3>1. Owed(r)' => Owed(r) /\ r # m
      BY <1>4
    <3>2. Owed(r) => r # q
      BY <2>1 DEF Owing
    <3>3. Owed(r)' => /\ rows'[r].status = "missed" /\ r \notin encouraged'
                      /\ \A x \in RowId : rows'[x].parent # r
      BY <2>1, <2>2, <2>4, <3>1, <3>2 DEF Owing
    <3>4. r \in encouraged' => rows'[r].status = "missed"
      BY <2>1, <2>4 DEF Owing
    <3>5. rows'[r].status = "none" => rows'[r].parent = NoRow
      BY <2>2, <2>4 DEF Owing
    <3>. QED
      BY <3>3, <3>4, <3>5
  <2>10. OneFollowUpPerMiss'
    <3>. SUFFICES ASSUME NEW r \in RowId, NEW x \in RowId, rows'[x].parent = r
                  PROVE  /\ rows'[r].status = "missed"
                         /\ \A p \in RowId : rows'[p].parent = r => p = x
                         /\ r \notin encouraged'
                         /\ rows'[x].attempt <= MAX_RETRIES + 1
      BY DEF OneFollowUpPerMiss
    <3>1. CASE r = m
      <4>1. x = q
        BY <1>1, <2>4, <3>1
      <4>2. rows[m].attempt + 1 <= MAX_RETRIES + 1
        BY <1>2, <2>1 DEF Exhausted, MAX_RETRIES
      <4>. QED
        BY <1>1, <2>1, <2>2, <2>4, <2>7, <3>1, <4>1, <4>2
    <3>2. CASE r # m
      <4>1. x # q /\ rows[x].parent = r
        BY <2>2, <2>4, <3>2
      <4>2. r # q
        BY <2>1, <4>1 DEF OneFollowUpPerMiss
      <4>. QED
        BY <2>1, <2>2, <2>4, <3>2, <4>1, <4>2 DEF OneFollowUpPerMiss
    <3>. QED
      BY <3>1, <3>2
  <2>11. MissHasCause'
    <3>1. \A s \in Sid : stream[s].how # "none" => stream'[s].how = stream[s].how
      OBVIOUS
    <3>2. \A s \in Sid : calls[s].phase # "none" /\ rows'[calls[s].row].status = "missed" =>
                             rows[calls[s].row].status = "missed"
      BY <2>4, <2>7
    <3>. QED
      BY <1>3, <3>1, <3>2, MissStep
  <2>. QED
    BY <1>6, <2>6, <2>8, <2>9, <2>10, <2>11
<1>8. CASE UNCHANGED rows /\ encouraged' \in {encouraged, encouraged \cup {m}} /\ budget' \in Nat
  <2>1. TypeOK'
    BY <1>8, Parts DEF TypeParts, RowsOK, CallsOK
  <2>2. Placed'
    BY <1>3, <1>8, PlacedStep DEF Placed
  <2>3. Owing' /\ OneFollowUpPerMiss'
    BY <1>1, <1>4, <1>5, <1>8 DEF Owing, OneFollowUpPerMiss
  <2>4. MissHasCause'
    <3>1. \A s \in Sid : stream[s].how # "none" => stream'[s].how = stream[s].how
      OBVIOUS
    <3>. QED
      BY <1>3, <1>8, <3>1, MissStep
  <2>. QED
    BY <1>6, <2>1, <2>2, <2>3, <2>4
<1>9. budget \in Nat /\ \A f \in SessionFault : Fault(f) => budget' \in Nat
  BY DEF TypeOK, Fault
<1>. QED
  BY <1>7, <1>8, <1>9 DEF FollowUp, Retries, Encourages, SessionFault
LEMMA HandlerFollowsUpStep ==
    ASSUME IInv, NEW h \in Handler, HandlerFollowsUp(h)
    PROVE  IInv'
<1>. USE DEF IInv
<1>1. /\ handler[h].pc = "missed" /\ Leaves(h)
      /\ FollowUp(handler[h].row, handler[h].ev.what)
      /\ UNCHANGED <<calls, net, outcome, machines, stream>>
  BY DEF HandlerFollowsUp
<1>2. /\ HandlersOK' /\ handler'[h].pc = "idle"
      /\ \A g \in Handler \ {h} : handler'[g] = handler[g]
  BY <1>1, LeavesStep, Parts DEF TypeParts
<1>3. PICK m \in RowId : m = handler[h].row
  BY <1>1 DEF TypeOK
<1>4. PICK what : what = handler[h].ev.what
  OBVIOUS
<1>5. StreamsOK' /\ Serving(h)'
  BY <1>1, <1>2, Parts DEF TypeParts, StreamsOK, Serving
<1>6. FollowUp(m, what) /\ HandlerOwes(h, m) /\ Owed(m)
  BY <1>1, <1>3, <1>4 DEF HandlerOwes, Owed
<1>7. ~Owed(m)'
  <2>1. \A g \in Handler : HandlerOwes(g, m)' => g # h /\ HandlerOwes(g, m)
    BY <1>2 DEF HandlerOwes
  <2>2. \A s \in Sid : StreamOwes(s, m)' => StreamOwes(s, m)
    BY <1>1 DEF StreamOwes
  <2>. QED
    BY <1>6, <2>1, <2>2 DEF Owed, Owing
<1>8. \A g \in Handler : handler'[g] = handler[g] \/ (handler'[g].pc # "missed" /\ Serving(g)')
  BY <1>2, <1>5
<1>9. (\A s \in Sid : stream'[s] = stream[s]) /\ UNCHANGED <<calls, net, outcome, machines>>
  BY <1>1
<1>. QED
  BY <1>2, <1>5, <1>6, <1>7, <1>8, <1>9, FollowUpStep

LEMMA StreamFollowsUpStep ==
    ASSUME IInv, NEW s \in Sid, StreamFollowsUp(s)
    PROVE  IInv'
<1>. USE DEF IInv
<1>1. /\ stream[s].pc = "missed" /\ Closes(s) /\ FollowUp(calls[s].row, "early")
      /\ UNCHANGED <<calls, net, outcome, machines, handler>>
  BY DEF StreamFollowsUp
<1>2. /\ StreamsOK' /\ stream'[s].pc = "done" /\ stream'[s].how = stream[s].how
      /\ \A q \in Sid \ {s} : stream'[q] = stream[q]
  BY <1>1, ClosesStep, Parts DEF TypeParts
<1>3. calls[s].phase \in {"answered", "ended"} /\ calls[s].row \in RowId
  BY <1>1 DEF Streamed, Streaming, TypeOK, CallsOK
<1>4. PICK m \in RowId : m = calls[s].row
  BY <1>3
<1>5. FollowUp(m, "early") /\ CallFor(s, m) /\ StreamOwes(s, m) /\ Owed(m)
  BY <1>1, <1>3, <1>4 DEF StreamOwes, Owed, CallFor
<1>6. ~Owed(m)'
  <2>1. \A g \in Handler : HandlerOwes(g, m)' => HandlerOwes(g, m)
    BY <1>1 DEF HandlerOwes
  <2>2. \A q \in Sid : StreamOwes(q, m)' => q # s /\ StreamOwes(q, m)
    BY <1>1, <1>2 DEF StreamOwes
  <2>3. \A q \in Sid : StreamOwes(q, m) => q = s
    BY <1>5 DEF Placed, Streamed, Streaming, CallFor, StreamOwes
  <2>. QED
    BY <1>5, <2>1, <2>2, <2>3 DEF Owed, Owing
<1>7. HandlersOK' /\ Streaming(s)'
  BY <1>1, <1>2, <1>3, Parts DEF TypeParts, HandlersOK, Streamed, Streaming
<1>8. \A q \in Sid : \/ stream'[q] = stream[q]
                     \/ /\ stream'[q].pc # "missed" /\ Streaming(q)'
                        /\ stream'[q].how = stream[q].how
  BY <1>2, <1>7
<1>9. (\A g \in Handler : handler'[g] = handler[g]) /\ UNCHANGED <<calls, net, outcome, machines>>
  BY <1>1
<1>. QED
  BY <1>2, <1>5, <1>6, <1>7, <1>8, <1>9, FollowUpStep

-----------------------------------------------------------------------------
(* Steps that read, wait or store a sequence number.                       *)

(* Nothing but callbacks in the network, one handler and the budget.       *)
LEMMA HandlerQuietStep ==
    ASSUME IInv, NEW h \in Handler, RowsOK', RowsKept,
           \A r \in RowId : rows'[r].status = "missed" => rows[r].status = "missed",
           CallsOK', \A s \in Sid : calls'[s].row = calls[s].row /\ calls'[s].phase = calls[s].phase,
           UNCHANGED <<outcome, machines, stream, encouraged>>, net' \subseteq net, budget' \in Nat,
           HandlersOK', \A g \in Handler \ {h} : handler'[g] = handler[g],
           handler'[h] = handler[h] \/ (handler'[h].pc # "missed" /\ Serving(h)')
    PROVE  IInv'
<1>1. TypeOK'
  BY Parts DEF IInv, TypeParts, StreamsOK
<1>. QED
  BY <1>1, QuietStep

(* ... and with the rows as they were. *)
LEMMA HandlerReadStep ==
    ASSUME IInv, NEW h \in Handler, UNCHANGED <<rows, calls, outcome, machines, stream, encouraged>>,
           net' \subseteq net, budget' \in Nat,
           HandlersOK', \A g \in Handler \ {h} : handler'[g] = handler[g],
           handler'[h] = handler[h] \/ (handler'[h].pc # "missed" /\ Serving(h)')
    PROVE  IInv'
<1>1. RowsOK' /\ CallsOK'
  BY Parts DEF IInv, TypeParts, RowsOK, CallsOK
<1>. QED
  BY <1>1, StayKept, HandlerQuietStep

(* Nothing but the stream of a call and the rows. *)
LEMMA StreamQuietStep ==
    ASSUME IInv, NEW s \in Sid, RowsOK', RowsKept,
           \A r \in RowId : rows'[r].status = "missed" => rows[r].status = "missed",
           UNCHANGED <<calls, net, outcome, machines, handler, encouraged>>, budget' \in Nat,
           StreamsOK', \A q \in Sid \ {s} : stream'[q] = stream[q],
           stream'[s].pc # "missed" /\ Streaming(s)',
           stream[s].how # "none" => stream'[s].how = stream[s].how
    PROVE  IInv'
<1>1. TypeOK'
  BY Parts DEF IInv, TypeParts, CallsOK, HandlersOK
<1>. QED
  BY <1>1, QuietStep

LEMMA FaultType == ASSUME TypeOK, NEW f, Fault(f) PROVE budget' \in Nat
BY DEF TypeOK, Fault

LEMMA ConsumeType ==
    ASSUME TypeOK, NEW e \in net, Consume(e)
    PROVE  net' \subseteq net /\ budget' \in Nat
<1>1. CASE net' = net \ {e} /\ UNCHANGED budget
  BY <1>1 DEF TypeOK
<1>2. CASE Fault("duplicate") /\ UNCHANGED net
  BY <1>2, FaultType
<1>. QED
  BY <1>1, <1>2 DEF Consume

LEMMA LostStep ==
    ASSUME IInv, NEW e \in net, CallbackUnknown(e) \/ CallbackLost(e)
    PROVE  IInv'
<1>1. /\ UNCHANGED <<rows, calls, outcome, machines, handler, stream, encouraged>>
      /\ net' \subseteq net /\ budget' \in Nat
  BY FaultType DEF CallbackUnknown, CallbackLost, IInv
<1>2. TypeOK'
  BY <1>1, Parts DEF IInv, TypeParts, RowsOK, CallsOK, HandlersOK, StreamsOK
<1>. QED
  BY <1>1, <1>2, StayKept, QuietStep

LEMMA HandlerDiesStep ==
    ASSUME IInv, NEW h \in Handler, HandlerDies(h)
    PROVE  IInv'
<1>1. /\ Leaves(h) /\ budget' \in Nat
      /\ UNCHANGED <<rows, calls, net, outcome, machines, stream, encouraged>>
  BY FaultType DEF HandlerDies, IInv
<1>2. /\ HandlersOK' /\ handler'[h].pc = "idle"
      /\ \A g \in Handler \ {h} : handler'[g] = handler[g]
  BY <1>1, LeavesStep, Parts DEF IInv, TypeParts
<1>3. Serving(h)'
  BY <1>2 DEF Serving
<1>. QED
  BY <1>1, <1>2, <1>3, HandlerReadStep

LEMMA StreamDiesStep ==
    ASSUME IInv, NEW s \in Sid, StreamDies(s)
    PROVE  IInv'
<1>1. /\ Closes(s) /\ stream[s].pc # "none" /\ budget' \in Nat
      /\ UNCHANGED <<rows, calls, net, outcome, machines, handler, encouraged>>
  BY FaultType DEF StreamDies, IInv
<1>2. /\ StreamsOK' /\ stream'[s].pc = "done" /\ stream'[s].how = stream[s].how
      /\ \A q \in Sid \ {s} : stream'[q] = stream[q]
  BY <1>1, ClosesStep, Parts DEF IInv, TypeParts
<1>3. Streaming(s)'
  BY <1>1, <1>2 DEF Streaming, IInv, Streamed
<1>4. RowsOK'
  BY <1>1, Parts DEF IInv, TypeParts, RowsOK
<1>. QED
  BY <1>1, <1>2, <1>3, <1>4, StayKept, StreamQuietStep

LEMMA CallbackReadStep ==
    ASSUME IInv, NEW h \in Handler, NEW e \in net, NEW r \in RowId, CallbackRead(h, e, r)
    PROVE  IInv'
<1>1. /\ r \in Owner(e.sid) /\ Consume(e) /\ e.what # "machine"
      /\ UNCHANGED <<rows, calls, outcome, machines, stream, encouraged>>
  BY DEF CallbackRead
<1>2. net' \subseteq net /\ budget' \in Nat
  BY <1>1, ConsumeType DEF IInv
<1>3. RowsOK /\ HandlersOK /\ e \in Event
  BY Parts DEF IInv, TypeParts
<1>4. CallFor(e.sid, r) /\ Truthful(e)
  BY <1>1, <1>3, OwnerCalled DEF IInv, Heard
<1>5. CASE UNCHANGED handler
  BY <1>1, <1>2, <1>3, <1>5, HandlerReadStep DEF HandlersOK
<1>6. CASE Enters(h, IF e.what = "initiated" THEN "seq" ELSE "apply", e, r)
  <2>. DEFINE p == IF e.what = "initiated" THEN "seq" ELSE "apply"
  <2>0. p \in {"seq", "apply"} /\ (p = "apply" => e.what # "initiated")
    OBVIOUS
  <2>00. Enters(h, p, e, r)
    BY <1>6
  <2>. HIDE DEF p
  <2>1. /\ HandlersOK' /\ handler'[h].pc = p /\ handler'[h].ev = e /\ handler'[h].row = r
        /\ \A g \in Handler \ {h} : handler'[g] = handler[g]
    BY <1>3, <2>0, <2>00, EntersStep
  <2>2. CallFor(e.sid, r)' /\ Truthful(e)'
    BY <1>1, <1>4 DEF CallFor, Truthful
  <2>3. Serving(h)'
    BY <1>1, <1>3, <2>0, <2>1, <2>2 DEF Serving
  <2>. QED
    BY <1>1, <1>2, <2>0, <2>1, <2>3, HandlerReadStep
<1>. QED
  BY <1>5, <1>6 DEF CallbackRead

LEMMA AmdReadStep ==
    ASSUME IInv, NEW h \in Handler, NEW e \in net, NEW r \in RowId, AmdRead(h, e, r)
    PROVE  IInv'
<1>1. /\ r \in Owner(e.sid) /\ Consume(e) /\ e.what = "machine" /\ Enters(h, "hangup", e, r)
      /\ UNCHANGED <<rows, calls, outcome, machines, stream, encouraged>>
  BY DEF AmdRead
<1>2. net' \subseteq net /\ budget' \in Nat
  BY <1>1, ConsumeType DEF IInv
<1>3. RowsOK /\ HandlersOK /\ e \in Event
  BY Parts DEF IInv, TypeParts
<1>4. CallFor(e.sid, r) /\ Truthful(e)
  BY <1>1, <1>3, OwnerCalled DEF IInv, Heard
<1>5. /\ HandlersOK' /\ handler'[h].pc = "hangup" /\ handler'[h].ev = e /\ handler'[h].row = r
      /\ \A g \in Handler \ {h} : handler'[g] = handler[g]
  BY <1>1, <1>3, EntersStep
<1>6. CallFor(e.sid, r)' /\ Truthful(e)'
  BY <1>1, <1>4 DEF CallFor, Truthful
<1>7. Serving(h)'
  BY <1>1, <1>3, <1>5, <1>6 DEF Serving
<1>. QED
  BY <1>1, <1>2, <1>5, <1>7, HandlerReadStep

LEMMA StoresSeqStep ==
    ASSUME IInv, NEW h \in Handler, CallbackStoresSeq(h) \/ CallbackInvalid(h)
    PROVE  IInv'
<1>1. /\ handler[h].pc # "idle" /\ rows' = StoreSeq(h) /\ Leaves(h)
      /\ UNCHANGED <<calls, net, outcome, machines, stream, encouraged, budget>>
  BY DEF CallbackStoresSeq, CallbackInvalid
<1>2. /\ HandlersOK' /\ handler'[h].pc = "idle"
      /\ \A g \in Handler \ {h} : handler'[g] = handler[g]
  BY <1>1, LeavesStep, Parts DEF IInv, TypeParts
<1>3. /\ RowsOK' /\ RowsKept
      /\ \A r \in RowId : rows'[r].status = rows[r].status
  BY <1>1, StoreSeqStep
<1>4. CallsOK' /\ budget' \in Nat
  BY <1>1, Parts DEF IInv, TypeParts, CallsOK
<1>5. Serving(h)'
  BY <1>2 DEF Serving
<1>. QED
  BY <1>1, <1>2, <1>3, <1>4, <1>5, HandlerQuietStep

LEMMA AmdHangsUpStep ==
    ASSUME IInv, NEW h \in Handler, AmdHangsUp(h)
    PROVE  IInv'
<1>1. /\ handler[h].pc = "hangup" /\ HandlerAt(h, "reread")
      /\ calls' = HangUp(handler[h].ev.sid) \/ UNCHANGED calls
      /\ UNCHANGED <<rows, net, outcome, machines, stream, encouraged, budget>>
  BY DEF AmdHangsUp, HandlerAt
<1>2. /\ HandlersOK' /\ handler'[h].pc = "reread"
      /\ handler'[h].ev = handler[h].ev /\ handler'[h].row = handler[h].row
      /\ \A g \in Handler \ {h} : handler'[g] = handler[g]
  BY <1>1, HandlerAtStep, Parts DEF IInv, TypeParts
<1>3. /\ handler[h].ev \in Event /\ Truthful(handler[h].ev) /\ handler[h].ev.what = "machine"
      /\ CallFor(handler[h].ev.sid, handler[h].row)
  BY <1>1 DEF IInv, Heard, Serving
<1>4. handler[h].ev.sid \in Sid /\ CallsOK
  BY <1>3 DEF Event, IInv, TypeOK
<1>5. CallsOK' /\ \A s \in Sid : calls'[s].row = calls[s].row /\ calls'[s].phase = calls[s].phase
  <2>1. CASE calls' = HangUp(handler[h].ev.sid)
    <3>1. CallsOK'
      BY <1>4, <2>1, HangUpType
    <3>2. \A s \in Sid : calls'[s].row = calls[s].row /\ calls'[s].phase = calls[s].phase
      BY <1>4, <2>1 DEF HangUp, CallsOK, Call
    <3>. QED
      BY <3>1, <3>2
  <2>2. CASE UNCHANGED calls
    BY <1>4, <2>2 DEF CallsOK
  <2>. QED
    BY <1>1, <2>1, <2>2
<1>6. Serving(h)'
  BY <1>1, <1>2, <1>3, <1>4, <1>5 DEF Serving, CallFor, Truthful
<1>7. RowsOK' /\ budget' \in Nat
  BY <1>1, Parts DEF IInv, TypeParts, RowsOK
<1>. QED
  BY <1>1, <1>2, <1>5, <1>6, <1>7, StayKept, HandlerQuietStep

LEMMA RereadEnters ==
    ASSUME IInv, NEW h \in Handler, NEW e \in Event, NEW r \in RowId, Enters(h, "cas", e, r),
           Truthful(e), CallFor(e.sid, r), e.what = "machine",
           UNCHANGED <<rows, calls, net, outcome, machines, stream, encouraged, budget>>
    PROVE  IInv'
<1>1. RowsOK /\ HandlersOK /\ budget' \in Nat
  BY Parts DEF IInv, TypeParts
<1>2. /\ HandlersOK' /\ handler'[h].pc = "cas" /\ handler'[h].ev = e /\ handler'[h].row = r
      /\ \A g \in Handler \ {h} : handler'[g] = handler[g]
  BY <1>1, EntersStep
<1>3. CallFor(e.sid, r)' /\ Truthful(e)'
  BY DEF CallFor, Truthful
<1>4. Serving(h)'
  BY <1>2, <1>3 DEF Serving
<1>. QED
  BY <1>1, <1>2, <1>4, HandlerReadStep

LEMMA AmdRereadStep ==
    ASSUME IInv, NEW h \in Handler, AmdReread(h)
    PROVE  IInv'
<1>1. /\ handler[h].pc = "reread"
      /\ UNCHANGED <<rows, calls, net, outcome, machines, stream, encouraged, budget>>
  BY DEF AmdReread
<1>2. HandlersOK /\ handler[h].row \in RowId /\ budget' \in Nat
  BY <1>1, Parts DEF IInv, TypeParts, HandlersOK
<1>3. /\ handler[h].ev \in Event /\ Truthful(handler[h].ev) /\ handler[h].ev.what = "machine"
      /\ CallFor(handler[h].ev.sid, handler[h].row)
  BY <1>1 DEF IInv, Heard, Serving
<1>4. CASE Leaves(h)
  <2>1. /\ HandlersOK' /\ handler'[h].pc = "idle"
        /\ \A g \in Handler \ {h} : handler'[g] = handler[g]
    BY <1>2, <1>4, LeavesStep
  <2>2. Serving(h)'
    BY <2>1 DEF Serving
  <2>. QED
    BY <1>1, <1>2, <2>1, <2>2, HandlerReadStep
<1>5. CASE Enters(h, "cas", handler[h].ev, handler[h].row)
  BY <1>1, <1>2, <1>3, <1>5, RereadEnters
<1>. QED
  BY <1>4, <1>5 DEF AmdReread

LEMMA StreamReadStep ==
    ASSUME IInv, NEW s \in Sid, StreamRead(s)
    PROVE  IInv'
<1>1. /\ stream[s].pc = "open"
      /\ UNCHANGED <<rows, calls, net, outcome, machines, handler, encouraged, budget>>
  BY DEF StreamRead
<1>2. RowsOK' /\ budget' \in Nat /\ StreamsOK /\ RowsOK /\ CallsOK
  BY <1>1, Parts DEF IInv, TypeParts, RowsOK
<1>3. calls[s].phase \in {"answered", "ended"} /\ stream[s].how = "none" /\ calls[s].row \in RowId
  BY <1>1, <1>2 DEF IInv, Streamed, Streaming, CallsOK
<1>4. /\ StreamsOK' /\ stream'[s].pc \in {"talking", "join", "done"} /\ stream'[s].how = stream[s].how
      /\ \A q \in Sid \ {s} : stream'[q] = stream[q]
  <2>1. CASE At(s, "talking")
    BY <1>2, <2>1, AtStep
  <2>2. CASE Snapshot(s, "join")
    BY <1>2, <1>3, <2>2, SnapshotStep
  <2>3. CASE Closes(s)
    BY <1>2, <2>3, ClosesStep
  <2>. QED
    BY <2>1, <2>2, <2>3 DEF StreamRead
<1>5. Streaming(s)'
  BY <1>1, <1>3, <1>4 DEF Streaming
<1>. QED
  BY <1>1, <1>2, <1>4, <1>5, StayKept, StreamQuietStep

LEMMA StreamEndsStep ==
    ASSUME IInv, NEW s \in Sid, StreamEnds(s)
    PROVE  IInv'
<1>1. PICK how \in How \ {"none"} :
         /\ stream[s].pc = "talking"
         /\ stream' = [stream EXCEPT ![s].pc = "cleanup", ![s].how = how]
         /\ UNCHANGED <<rows, calls, net, outcome, machines, handler, encouraged, budget>>
  BY DEF StreamEnds
<1>2. RowsOK' /\ budget' \in Nat /\ StreamsOK
  BY <1>1, Parts DEF IInv, TypeParts, RowsOK
<1>3. calls[s].phase \in {"answered", "ended"} /\ stream[s].how = "none"
  BY <1>1 DEF IInv, Streamed, Streaming
<1>. DEFINE a == [stream[s] EXCEPT !.pc = "cleanup"]
            b == [a EXCEPT !.how = how]
<1>4. stream[s] \in StreamRec
  BY <1>2 DEF StreamsOK
<1>5. a \in StreamRec /\ a.pc = "cleanup"
  BY <1>4 DEF StreamRec
<1>6. b \in StreamRec /\ b.pc = "cleanup" /\ b.how = how
  BY <1>5 DEF StreamRec
<1>7. stream' = [stream EXCEPT ![s] = b]
  BY <1>1, <1>2 DEF StreamsOK
<1>. HIDE DEF b
<1>8. /\ StreamsOK' /\ stream'[s].pc = "cleanup" /\ stream'[s].how = how
      /\ \A q \in Sid \ {s} : stream'[q] = stream[q]
  BY <1>2, <1>6, <1>7 DEF StreamsOK
<1>9. Streaming(s)'
  BY <1>1, <1>3, <1>8 DEF Streaming
<1>. QED
  BY <1>1, <1>2, <1>3, <1>8, <1>9, StayKept, StreamQuietStep

LEMMA CleanupReadStep ==
    ASSUME IInv, NEW s \in Sid, CleanupRead(s)
    PROVE  IInv'
<1>1. /\ stream[s].pc = "cleanup"
      /\ UNCHANGED <<rows, calls, net, outcome, machines, handler, encouraged, budget>>
  BY DEF CleanupRead
<1>2. RowsOK' /\ budget' \in Nat /\ StreamsOK /\ RowsOK /\ CallsOK
  BY <1>1, Parts DEF IInv, TypeParts, RowsOK
<1>3. calls[s].phase \in {"answered", "ended"} /\ stream[s].how # "none" /\ calls[s].row \in RowId
  BY <1>1, <1>2 DEF IInv, Streamed, Streaming, CallsOK
<1>4. /\ StreamsOK' /\ stream'[s].pc \in {"cas", "done"} /\ stream'[s].how = stream[s].how
      /\ \A q \in Sid \ {s} : stream'[q] = stream[q]
  <2>1. CASE Snapshot(s, "cas")
    BY <1>2, <1>3, <2>1, SnapshotStep
  <2>2. CASE Closes(s)
    BY <1>2, <2>2, ClosesStep
  <2>. QED
    BY <2>1, <2>2 DEF CleanupRead
<1>5. Streaming(s)'
  BY <1>1, <1>3, <1>4 DEF Streaming
<1>. QED
  BY <1>1, <1>2, <1>4, <1>5, StayKept, StreamQuietStep
-----------------------------------------------------------------------------
(* Steps that move the row.                                                *)

LEMMA StreamJoinStep ==
    ASSUME IInv, NEW s \in Sid, StreamJoin(s)
    PROVE  IInv'
<1>. DEFINE r == calls[s].row
<1>1. /\ stream[s].pc = "join" /\ TryMove(r, stream[s].ver, "in_progress")
      /\ At(s, "talking") \/ Closes(s)
      /\ UNCHANGED <<calls, net, outcome, machines, handler, encouraged, budget>>
  BY DEF StreamJoin
<1>2. budget' \in Nat /\ StreamsOK /\ RowsOK /\ CallsOK
  BY <1>1, Parts DEF IInv, TypeParts
<1>3. calls[s].phase \in {"answered", "ended"} /\ stream[s].how = "none" /\ r \in RowId
  BY <1>1, <1>2 DEF IInv, Streamed, Streaming, CallsOK
<1>4. /\ StreamsOK' /\ stream'[s].pc \in {"talking", "done"} /\ stream'[s].how = stream[s].how
      /\ \A q \in Sid \ {s} : stream'[q] = stream[q]
  BY <1>1, <1>2, AtStep, ClosesStep
<1>5. Streaming(s)'
  BY <1>1, <1>3, <1>4 DEF Streaming
<1>6. "in_progress" \in Status
  BY StatusSet
<1>. HIDE DEF r
<1>7. /\ RowsOK' /\ RowsKept
      /\ \A x \in RowId : rows'[x].status = "missed" => rows[x].status = "missed"
  BY <1>1, <1>2, <1>3, <1>6, QuietMove
<1>. QED
  BY <1>1, <1>2, <1>4, <1>5, <1>7, StreamQuietStep

LEMMA CleanupWriteStep ==
    ASSUME IInv, NEW s \in Sid, CleanupWrite(s)
    PROVE  IInv'
<1>. DEFINE v == stream[s].ver
<1>0. PICK r \in RowId : r = calls[s].row
  BY DEF CleanupWrite, IInv, Streamed, Streaming, TypeOK, CallsOK
<1>1. /\ stream[s].pc = "cas"
      /\ TryMove(r, v, IF stream[s].how = "normal" THEN "completed" ELSE "missed")
      /\ IF CanMove(r, v, IF stream[s].how = "normal" THEN "completed" ELSE "missed")
            /\ stream[s].how = "early"
         THEN At(s, "missed") ELSE Closes(s)
      /\ UNCHANGED <<calls, net, outcome, machines, handler, encouraged, budget>>
  BY <1>0 DEF CleanupWrite
<1>2. budget' \in Nat /\ StreamsOK /\ RowsOK /\ CallsOK
  BY <1>1, Parts DEF IInv, TypeParts
<1>3. /\ calls[s].phase \in {"answered", "ended"} /\ stream[s].how \in How \ {"none"}
      /\ CallFor(s, r)
  BY <1>0, <1>1, <1>2 DEF IInv, Streamed, Streaming, CallsOK, StreamsOK, StreamRec, CallFor
<1>4. "completed" \in Status /\ "missed" \in Status
  BY StatusSet
<1>5. /\ StreamsOK' /\ stream'[s].pc \in {"missed", "done"} /\ stream'[s].how = stream[s].how
      /\ \A q \in Sid \ {s} : stream'[q] = stream[q]
  BY <1>1, <1>2, AtStep, ClosesStep
<1>6. Streaming(s)'
  BY <1>1, <1>3, <1>5 DEF Streaming
<1>. HIDE DEF v
<1>7. CASE stream[s].how = "normal"
  <2>1. TryMove(r, v, "completed") /\ Closes(s)
    BY <1>1, <1>7
  <2>2. stream'[s].pc = "done"
    BY <1>2, <2>1, ClosesStep
  <2>3. /\ RowsOK' /\ RowsKept
        /\ \A x \in RowId : rows'[x].status = "missed" => rows[x].status = "missed"
    BY <1>2, <1>3, <1>4, <2>1, QuietMove
  <2>. QED
    BY <1>1, <1>2, <1>5, <1>6, <2>2, <2>3, StreamQuietStep
<1>8. CASE stream[s].how # "normal" /\ ~CanMove(r, v, "missed")
  <2>1. UNCHANGED rows /\ Closes(s)
    BY <1>1, <1>8 DEF TryMove
  <2>2. stream'[s].pc = "done" /\ RowsOK'
    BY <1>2, <2>1, ClosesStep DEF RowsOK
  <2>. QED
    BY <1>1, <1>2, <1>5, <1>6, <2>1, <2>2, StayKept, StreamQuietStep
<1>9. CASE stream[s].how # "normal" /\ CanMove(r, v, "missed")
  <2>1. rows' = [rows EXCEPT ![r] = Moved(r, "missed")]
    BY <1>1, <1>9 DEF TryMove
  <2>2. /\ RowsOK' /\ RowsKept /\ rows[r].status # "missed" /\ rows'[r].status = "missed"
        /\ \A x \in RowId \ {r} : rows'[x] = rows[x]
    BY <1>2, <1>3, <1>4, <1>9, <2>1, MissingMove
  <2>3. TypeOK'
    BY <1>1, <1>2, <1>5, <2>2, Parts DEF IInv, TypeParts, CallsOK, HandlersOK
  <2>4. \A h \in Handler : ~HandlerOwes(h, r)'
    BY <1>1, <2>2 DEF HandlerOwes, IInv, Owing, Owed
  <2>5. \A h \in Handler, x \in RowId \ {r} : HandlerOwes(h, x)' => HandlerOwes(h, x)
    BY <1>1 DEF HandlerOwes
  <2>6. \A q \in Sid, x \in RowId \ {r} : StreamOwes(q, x)' => StreamOwes(q, x)
    BY <1>1, <1>3, <1>5 DEF StreamOwes, CallFor
  <2>7. \A q \in Sid : CallFor(q, r) => Cause(q)'
    <3>1. \A q \in Sid : CallFor(q, r) => q = s
      BY <1>3 DEF IInv, Placed
    <3>2. stream[s].how \in {"early", "failed"}
      BY <1>3, <1>9 DEF How
    <3>. QED
      BY <1>5, <3>1, <3>2 DEF Cause
  <2>8. \A h \in Handler : handler'[h] = handler[h]
    BY <1>1
  <2>9. /\ \A q \in Sid : stream'[q] = stream[q] \/ Streaming(q)'
        /\ \A q \in Sid : stream[q].how # "none" => stream'[q].how = stream[q].how
    BY <1>5, <1>6
  <2>10. UNCHANGED <<calls, net, outcome, machines, encouraged>>
    BY <1>1
  <2>. QED
    BY <1>3, <2>2, <2>3, <2>4, <2>5, <2>6, <2>7, <2>8, <2>9, <2>10, MissedStep
<1>. QED
  BY <1>7, <1>8, <1>9

(* A handler makes its row a missed call, or gives way.                    *)
LEMMA HandlerMisses ==
    ASSUME IInv, NEW h \in Handler, NEW m \in RowId, m = handler[h].row,
           handler[h].pc \in {"apply", "cas"},
           RowsOK', RowsKept, rows[m].status # "missed", rows'[m].status = "missed",
           \A x \in RowId \ {m} : rows'[x] = rows[x],
           HandlerAt(h, "missed"), Cause(handler[h].ev.sid),
           UNCHANGED <<calls, net, outcome, machines, stream, encouraged, budget>>
    PROVE  IInv'
<1>1. /\ HandlersOK' /\ handler'[h].pc = "missed"
      /\ handler'[h].ev = handler[h].ev /\ handler'[h].row = m
      /\ \A g \in Handler \ {h} : handler'[g] = handler[g]
  BY HandlerAtStep, Parts DEF IInv, TypeParts
<1>2. /\ handler[h].ev \in Event /\ Truthful(handler[h].ev)
      /\ CallFor(handler[h].ev.sid, m)
  BY DEF IInv, Heard, Serving
<1>3. TypeOK'
  BY <1>1, Parts DEF IInv, TypeParts, CallsOK, StreamsOK
<1>4. Serving(h)'
  BY <1>1, <1>2 DEF Serving, Truthful, CallFor
<1>5. /\ \A g \in Handler : HandlerOwes(g, m)' => g = h
      /\ \A s \in Sid : ~StreamOwes(s, m)'
      /\ \A g \in Handler, x \in RowId \ {m} : HandlerOwes(g, x)' => HandlerOwes(g, x)
      /\ \A s \in Sid, x \in RowId \ {m} : StreamOwes(s, x)' => StreamOwes(s, x)
  BY <1>1 DEF HandlerOwes, StreamOwes, IInv, Owing, Owed
<1>6. \A s \in Sid : CallFor(s, m) => Cause(s)'
  BY <1>2 DEF IInv, Placed, Event, Cause
<1>7. \A g \in Handler : handler'[g] = handler[g] \/ Serving(g)'
  BY <1>1, <1>4
<1>. QED
  BY <1>3, <1>5, <1>6, <1>7, MissedStep

(* A handler is done, and no call has become a missed one.                 *)
LEMMA HandlerDone ==
    ASSUME IInv, NEW h \in Handler, RowsOK', RowsKept,
           \A x \in RowId : rows'[x].status = "missed" => rows[x].status = "missed",
           Leaves(h), UNCHANGED <<calls, net, outcome, machines, stream, encouraged, budget>>
    PROVE  IInv'
<1>1. /\ HandlersOK' /\ handler'[h].pc = "idle"
      /\ \A g \in Handler \ {h} : handler'[g] = handler[g]
  BY LeavesStep, Parts DEF IInv, TypeParts
<1>2. Serving(h)' /\ CallsOK' /\ budget' \in Nat
  BY <1>1, Parts DEF Serving, IInv, TypeParts, CallsOK
<1>. QED
  BY <1>1, <1>2, HandlerQuietStep

LEMMA AmdApplyStep ==
    ASSUME IInv, NEW h \in Handler, AmdApply(h)
    PROVE  IInv'
<1>. DEFINE r == handler[h].row
            v == handler[h].ver
<1>1. /\ handler[h].pc = "cas" /\ TryMove(r, v, "missed")
      /\ IF CanMove(r, v, "missed") THEN HandlerAt(h, "missed") ELSE Leaves(h)
      /\ UNCHANGED <<calls, net, outcome, machines, stream, encouraged, budget>>
  BY DEF AmdApply, HandlerAt
<1>2. RowsOK /\ r \in RowId
  BY <1>1, Parts DEF IInv, TypeParts, HandlersOK
<1>3. Truthful(handler[h].ev) /\ handler[h].ev.what = "machine"
  BY <1>1 DEF IInv, Heard, Serving
<1>. HIDE DEF r, v
<1>4. CASE CanMove(r, v, "missed")
  <2>1. rows' = [rows EXCEPT ![r] = Moved(r, "missed")] /\ HandlerAt(h, "missed")
    BY <1>1, <1>4 DEF TryMove
  <2>2. /\ RowsOK' /\ RowsKept /\ rows[r].status # "missed" /\ rows'[r].status = "missed"
        /\ \A x \in RowId \ {r} : rows'[x] = rows[x]
    BY <1>2, <1>4, <2>1, MissingMove
  <2>3. Cause(handler[h].ev.sid)
    BY <1>3 DEF Truthful, Cause
  <2>. QED
    BY <1>1, <1>2, <2>1, <2>2, <2>3, HandlerMisses DEF r
<1>5. CASE ~CanMove(r, v, "missed")
  <2>1. UNCHANGED rows /\ Leaves(h)
    BY <1>1, <1>5 DEF TryMove
  <2>2. RowsOK'
    BY <1>2, <2>1 DEF RowsOK
  <2>. QED
    BY <1>1, <2>1, <2>2, StayKept, HandlerDone
<1>. QED
  BY <1>4, <1>5

LEMMA CallbackApplyStep ==
    ASSUME IInv, NEW h \in Handler, CallbackApply(h)
    PROVE  IInv'
<1>. DEFINE r  == handler[h].row
            v  == handler[h].ver
            to == InternalStatus(handler[h].ev.what)
            n  == handler[h].ev.seq + 1
<1>1. /\ handler[h].pc = "apply"
      /\ IF CanMove(r, v, to)
         THEN /\ rows' = [rows EXCEPT ![r] = [Moved(r, to) EXCEPT !.seq = n]]
              /\ IF to = "missed" THEN HandlerAt(h, "missed") ELSE Leaves(h)
         ELSE UNCHANGED rows /\ Leaves(h)
      /\ UNCHANGED <<calls, net, outcome, machines, stream, encouraged, budget>>
  BY DEF CallbackApply, HandlerAt
<1>2. RowsOK /\ r \in RowId
  BY <1>1, Parts DEF IInv, TypeParts, HandlersOK
<1>3. /\ handler[h].ev \in Event /\ Truthful(handler[h].ev)
      /\ handler[h].ev.what \notin {"initiated", "machine"}
  BY <1>1 DEF IInv, Heard, Serving
<1>4. /\ to \in {"ringing", "in_progress", "completed", "cancelled", "missed"}
      /\ to = "missed" => handler[h].ev.what \in {"busy", "no-answer", "failed"}
      /\ n \in Nat
  BY <1>3 DEF Event, What, Final, InternalStatus
<1>5. to \in Status /\ to # "scheduled"
  BY <1>4, StatusSet
<1>. HIDE DEF r, v, to, n
<1>6. CASE CanMove(r, v, to)
  <2>1. rows' = [rows EXCEPT ![r] = [Moved(r, to) EXCEPT !.seq = n]]
    BY <1>1, <1>6
  <2>2. /\ RowsOK' /\ RowsKept /\ rows[r].status # to /\ rows'[r].status = to
        /\ \A x \in RowId \ {r} : rows'[x] = rows[x]
    BY <1>2, <1>4, <1>5, <1>6, <2>1, SeqMove
  <2>3. CASE to = "missed"
    <3>1. Cause(handler[h].ev.sid)
      BY <1>3, <1>4, <2>3 DEF Truthful, Cause, Final
    <3>2. HandlerAt(h, "missed")
      BY <1>1, <1>6, <2>3
    <3>. QED
      BY <1>1, <1>2, <2>2, <2>3, <3>1, <3>2, HandlerMisses DEF r
  <2>4. CASE to # "missed"
    <3>1. Leaves(h)
      BY <1>1, <1>6, <2>4
    <3>2. \A x \in RowId : rows'[x].status = "missed" => rows[x].status = "missed"
      BY <2>2, <2>4
    <3>. QED
      BY <1>1, <2>2, <3>1, <3>2, HandlerDone
  <2>. QED
    BY <2>3, <2>4
<1>7. CASE ~CanMove(r, v, to)
  <2>1. UNCHANGED rows /\ Leaves(h)
    BY <1>1, <1>7
  <2>2. RowsOK'
    BY <1>2, <2>1 DEF RowsOK
  <2>. QED
    BY <1>1, <2>1, <2>2, StayKept, HandlerDone
<1>. QED
  BY <1>6, <1>7

-----------------------------------------------------------------------------
(* The theorems.                                                           *)

LEMMA InductiveStep == IInv /\ [Next]_vars => IInv'
<1>. SUFFICES ASSUME IInv, [Next]_vars PROVE IInv'
  OBVIOUS
<1>1. CASE UNCHANGED vars
  <2>1. UNCHANGED <<rows, calls, net, outcome, machines, handler, stream, encouraged, budget>>
    BY <1>1 DEF vars, own
  <2>2. TypeOK'
    BY <2>1 DEF IInv, TypeOK, RowsOK, CallsOK
  <2>. QED
    BY <2>1, <2>2, StayKept, QuietStep
<1>2. ASSUME NEW r \in RowId, NEW s \in Sid, Dial(r, s) PROVE IInv'
  BY <1>2, DialStep
<1>3. ASSUME NEW s \in Sid, Record(s) PROVE IInv'
  BY <1>3, RecordStep
<1>4. ASSUME NEW s \in Sid, Twilio(s) \/ StreamStep(s) \/ StreamDies(s) PROVE IInv'
  BY <1>4, TwilioStep, StreamReadStep, StreamJoinStep, StreamEndsStep, CleanupReadStep,
     CleanupWriteStep, StreamFollowsUpStep, StreamDiesStep DEF StreamStep
<1>5. ASSUME NEW h \in Handler, HandlerStep(h) \/ HandlerDies(h) PROVE IInv'
  BY <1>5, CallbackReadStep, AmdReadStep, StoresSeqStep, CallbackApplyStep, AmdHangsUpStep,
     AmdRereadStep, AmdApplyStep, HandlerFollowsUpStep, HandlerDiesStep DEF HandlerStep
<1>6. ASSUME NEW e \in net, CallbackUnknown(e) \/ CallbackLost(e) PROVE IInv'
  BY <1>6, LostStep
<1>. QED
  BY <1>1, <1>2, <1>3, <1>4, <1>5, <1>6 DEF Next, SessionNext

(* Every reachable state satisfies the inductive invariant: a call belongs *)
(* to one row, callbacks tell the truth about it, and at most one process  *)
(* owes a missed row its follow-up.                                        *)
THEOREM Invariance == Spec => []IInv
<1>1. Init => IInv
  BY InitIInv
<1>2. IInv /\ [Next]_vars => IInv'
  BY InductiveStep
<1>. QED
  BY <1>1, <1>2, PTL DEF Spec

(* Whatever callbacks are lost, repeated or overtaken, and whatever        *)
(* processes die, the rows, the requests being served and the streams keep *)
(* their types; a request being served has its row.                        *)
THEOREM TypeCorrect == Spec => []TypeOK
<1>1. IInv => TypeOK
  BY DEF IInv
<1>. QED
  BY <1>1, Invariance, PTL

(* A missed call is followed up at most once: the status callback, the AMD *)
(* callback and the stream's cleanup that race to record the miss never    *)
(* insert two retries of it, retry beyond MAX_RETRIES, or send the         *)
(* encouragement of an exhausted chain to a caller who is being retried.   *)
THEOREM OneFollowUp == Spec => []OneFollowUpPerMiss
<1>1. IInv => OneFollowUpPerMiss
  BY DEF IInv
<1>. QED
  BY <1>1, Invariance, PTL

(* A call is recorded as missed only when nobody picked up, the stream     *)
(* ended early or failed, or a machine answered; no reordered, repeated or *)
(* late callback turns a conversation into a miss.                         *)
THEOREM MissCause == Spec => []MissHasCause
<1>1. IInv => MissHasCause
  BY DEF IInv
<1>. QED
  BY <1>1, Invariance, PTL

-----------------------------------------------------------------------------
(* The version fence.                                                      *)

LEMMA WriteOK ==
    ASSUME RowsOK, NEW r \in RowId, NEW new \in Row, rows' = [rows EXCEPT ![r] = new],
           \/ rows[r].status = "none" /\ new.status = "scheduled"
           \/ /\ new.status \in Succ[rows[r].status] \cup {rows[r].status}
              /\ new.version = rows[r].version + 1
           \/ new.status = rows[r].status /\ new.version = rows[r].version
    PROVE  \A x \in RowId : RowStepOK(x)
<1>1. rows'[r] = new /\ \A x \in RowId : x # r => rows'[x] = rows[x]
  BY DEF RowsOK
<1>2. RowStepOK(r)
  BY <1>1 DEF RowStepOK
<1>. QED
  BY <1>1, <1>2, StayOK

LEMMA StoreSeqOK ==
    ASSUME IInv, NEW h \in Handler, handler[h].pc # "idle", rows' = StoreSeq(h)
    PROVE  \A x \in RowId : RowStepOK(x)
<1>. DEFINE q == handler[h].row
            n == handler[h].ev.seq + 1
<1>1. q \in RowId /\ n \in Nat /\ RowsOK
  BY DEF IInv, Heard, Serving, TypeOK, Event
<1>2. rows' = [rows EXCEPT ![q] = [rows[q] EXCEPT !.seq = n]] /\ rows[q] \in Row
  BY <1>1 DEF StoreSeq, RowsOK
<1>3. [rows[q] EXCEPT !.seq = n] \in Row
  BY <1>1, <1>2, ColumnUpdate
<1>4. /\ [rows[q] EXCEPT !.seq = n].status = rows[q].status
      /\ [rows[q] EXCEPT !.seq = n].version = rows[q].version
  BY <1>2 DEF Row
<1>. HIDE DEF q, n
<1>. QED
  BY <1>1, <1>2, <1>3, <1>4, WriteOK

LEMMA FollowUpOK ==
    ASSUME RowsOK, NEW m \in RowId, NEW what, FollowUp(m, what)
    PROVE  \A x \in RowId : RowStepOK(x)
<1>1. CASE UNCHANGED rows
  BY <1>1, StayOK
<1>2. CASE \E q \in RowId : /\ rows[q].status = "none"
                            /\ rows' = [rows EXCEPT ![q] = RetryRow(m)]
  <2>1. PICK q \in RowId : rows[q].status = "none" /\ rows' = [rows EXCEPT ![q] = RetryRow(m)]
    BY <1>2
  <2>2. RetryRow(m) \in Row /\ RetryRow(m).status = "scheduled"
    BY RetryRowIs
  <2>. QED
    BY <2>1, <2>2, WriteOK
<1>. QED
  BY <1>1, <1>2 DEF FollowUp, Retries, Encourages

LEMMA CallbackApplyOK ==
    ASSUME IInv, NEW h \in Handler, CallbackApply(h)
    PROVE  \A x \in RowId : RowStepOK(x)
<1>. DEFINE r  == handler[h].row
            to == InternalStatus(handler[h].ev.what)
            n  == handler[h].ev.seq + 1
            new == [Moved(r, to) EXCEPT !.seq = n]
<1>1. /\ handler[h].pc = "apply" /\ to \in Succ[handler[h].st]
      /\ \/ UNCHANGED rows
         \/ CanMove(r, handler[h].ver, to) /\ rows' = [rows EXCEPT ![r] = new]
  BY DEF CallbackApply
<1>2. /\ r \in RowId /\ RowsOK /\ n \in Nat
      /\ to \in {"ringing", "in_progress", "completed", "cancelled", "missed"}
  BY <1>1 DEF IInv, TypeOK, Heard, Serving, Event, What, Final, InternalStatus
<1>3. Moved(r, to) \in Row /\ Moved(r, to).status = to /\ Moved(r, to).version = rows[r].version + 1
  <2>1. to \in Status
    BY <1>2, StatusSet
  <2>. HIDE DEF to, r
  <2>. QED
    BY <1>2, <2>1, MovedRow
<1>4. new \in Row /\ new.status = to /\ new.version = rows[r].version + 1
  BY <1>2, <1>3 DEF Row
<1>. HIDE DEF new, to, r, n
<1>. QED
  BY <1>1, <1>2, <1>4, WriteOK, StayOK DEF CanMove

LEMMA TransitionStep ==
    ASSUME IInv, [Next]_vars
    PROVE  \A x \in RowId : RowStepOK(x)
<1>. USE DEF IInv
<1>1. RowsOK /\ HandlersOK /\ CallsOK
  BY Parts DEF TypeParts
<1>2. ASSUME UNCHANGED rows PROVE \A x \in RowId : RowStepOK(x)
  BY <1>2, StayOK
<1>3. ASSUME NEW r \in RowId, NEW s \in Sid, Dial(r, s) PROVE \A x \in RowId : RowStepOK(x)
  <2>1. rows[r].status = "scheduled" /\ rows' = [rows EXCEPT ![r] = Moved(r, "dispatching")]
    BY <1>3 DEF Dial
  <2>2. "dispatching" \in Succ[rows[r].status] /\ "dispatching" \in Status
    BY <2>1, SuccTable, StatusSet
  <2>. QED
    BY <1>1, <2>1, <2>2, MoveOK
<1>4. ASSUME NEW s \in Sid, Record(s) PROVE \A x \in RowId : RowStepOK(x)
  <2>. DEFINE r == calls[s].row
              new == [Moved(r, "ringing") EXCEPT !.sid = s]
  <2>1. r \in RowId /\ rows[r].status = "dispatching" /\ rows' = [rows EXCEPT ![r] = new]
    BY <1>1, <1>4 DEF Record, CallsOK
  <2>2. /\ Moved(r, "ringing") \in Row /\ Moved(r, "ringing").status = "ringing"
        /\ Moved(r, "ringing").version = rows[r].version + 1
    BY <1>1, <2>1, MovedRow, StatusSet
  <2>3. new \in Row /\ new.status = "ringing" /\ new.version = rows[r].version + 1
    BY <2>2 DEF Row
  <2>4. "ringing" \in Succ[rows[r].status]
    BY <2>1, SuccTable
  <2>. HIDE DEF new, r
  <2>. QED
    BY <1>1, <2>1, <2>3, <2>4, WriteOK
<1>5. ASSUME NEW s \in Sid, StreamJoin(s) \/ CleanupWrite(s) PROVE \A x \in RowId : RowStepOK(x)
  <2>1. /\ stream[s].pc # "none"
        /\ \E to \in {"in_progress", "completed", "missed"} :
              TryMove(calls[s].row, stream[s].ver, to)
    BY <1>5 DEF StreamJoin, CleanupWrite
  <2>2. calls[s].row \in RowId
    BY <1>1, <2>1 DEF Streamed, Streaming, CallsOK
  <2>3. {"in_progress", "completed", "missed"} \subseteq Status
    BY StatusSet
  <2>. QED
    BY <1>1, <2>1, <2>2, <2>3, TryMoveOK
<1>6. ASSUME NEW s \in Sid, StreamFollowsUp(s) PROVE \A x \in RowId : RowStepOK(x)
  <2>1. calls[s].row \in RowId
    BY <1>1, <1>6 DEF StreamFollowsUp, Streamed, Streaming, CallsOK
  <2>. QED
    BY <1>1, <1>6, <2>1, FollowUpOK DEF StreamFollowsUp
<1>7. ASSUME NEW h \in Handler, CallbackStoresSeq(h) \/ CallbackInvalid(h)
      PROVE \A x \in RowId : RowStepOK(x)
  BY <1>7, StoreSeqOK DEF CallbackStoresSeq, CallbackInvalid
<1>8. ASSUME NEW h \in Handler, AmdApply(h) PROVE \A x \in RowId : RowStepOK(x)
  BY <1>1, <1>8, TryMoveOK, StatusSet DEF AmdApply, HandlersOK
<1>9. ASSUME NEW h \in Handler, HandlerFollowsUp(h) PROVE \A x \in RowId : RowStepOK(x)
  BY <1>1, <1>9, FollowUpOK DEF HandlerFollowsUp, HandlersOK
<1>10. ASSUME NEW s \in Sid,
              \/ Twilio(s) \/ StreamRead(s) \/ StreamEnds(s) \/ CleanupRead(s) \/ StreamDies(s)
       PROVE  UNCHANGED rows
  BY <1>10 DEF Twilio, TwilioRings, TwilioAnswers, TwilioHearsMachine, TwilioEnds, StreamRead,
               StreamEnds, CleanupRead, StreamDies
<1>11. ASSUME NEW h \in Handler,
              \/ \E e \in net, r \in RowId : CallbackRead(h, e, r) \/ AmdRead(h, e, r)
              \/ AmdHangsUp(h) \/ AmdReread(h) \/ HandlerDies(h)
       PROVE  UNCHANGED rows
  BY <1>11 DEF CallbackRead, AmdRead, AmdHangsUp, AmdReread, HandlerDies
<1>12. ASSUME NEW e \in net, CallbackUnknown(e) \/ CallbackLost(e) PROVE UNCHANGED rows
  BY <1>12 DEF CallbackUnknown, CallbackLost
<1>13. ASSUME NEW h \in Handler, HandlerStep(h) \/ HandlerDies(h)
       PROVE  \A x \in RowId : RowStepOK(x)
  BY <1>2, <1>7, <1>8, <1>9, <1>11, <1>13, CallbackApplyOK DEF HandlerStep
<1>14. ASSUME NEW s \in Sid, Twilio(s) \/ StreamStep(s) \/ StreamDies(s)
       PROVE  \A x \in RowId : RowStepOK(x)
  BY <1>2, <1>5, <1>6, <1>10, <1>14 DEF StreamStep
<1>. QED
  BY <1>2, <1>3, <1>4, <1>12, <1>13, <1>14 DEF Next, SessionNext, vars

(* The version fence for live calls: the status callback, the AMD callback *)
(* and the stream act on snapshots of the row they read in an earlier      *)
(* statement, yet no step takes a row along an edge VALID_TRANSITIONS does *)
(* not have, and no two status changes are made at the same version.       *)
THEOREM SessionFence == Spec => ValidTransitions
<1>1. IInv /\ [Next]_vars => [\A r \in RowId : RowStepOK(r)]_rows
  BY TransitionStep
<1>2. [\A r \in RowId : RowStepOK(r)]_rows =>
      [\A r \in RowId :
        /\ rows'[r].status # rows[r].status =>
              \/ rows[r].status = "none" /\ rows'[r].status = "scheduled"
              \/ rows'[r].status \in Succ[rows[r].status]
        /\ rows[r].status # "none" =>
              /\ rows'[r].version \in {rows[r].version, rows[r].version + 1}
              /\ rows'[r].status # rows[r].status =>
                    rows'[r].version = rows[r].version + 1]_rows
  BY DEF RowStepOK
<1>. QED
  BY <1>1, <1>2, Invariance, PTL DEF Spec, ValidTransitions
=============================================================================
