----------------------- MODULE WhatsAppWebhook_proofs -----------------------
(***************************************************************************)
(* Proofs about EmailDrafts and WhatsAppWebhook: the types, one reply per  *)
(* thread, no reply after a drop, what is on record as sent, one answer    *)
(* per check-in and one conversation per user, whatever the number of      *)
(* sessions, threads and messages.                                         *)
(***************************************************************************)
EXTENDS WhatsAppWebhook, FiniteSetTheorems, WellFoundedInduction, TLAPS

-----------------------------------------------------------------------------
(* The inductive invariant of the drafts.                                  *)

Holding(p) == work[p].pc \in {"sending", "accepted"}

(* What an operation under way knows of the row it works on. *)
Engaged(p) ==
    /\ work[p].seen = "pending"
    /\ Resting(p) => work[p].op = "none"
    /\ Holding(p) => work[p].op = "approve"
    /\ work[p].op \in {"update", "approve", "abandon"} => work[p].draft \in Rows
    /\ work[p].op = "update" => work[p].revision < MaxRevisions
    /\ work[p].op = "create" => \/ work[p].draft = 0
                                \/ /\ work[p].draft \in Rows
                                   /\ drafts[work[p].draft].thread = work[p].thread

Creators == {p \in Actor : work[p].op = "create"}

(* Rows created and about to be. *)
Room == Len(drafts) + Cardinality(Creators) <= MaxDrafts

(* A row's lock has one holder, and of a thread's rows one is in the index. *)
OneHolder == \A p, q \in Actor :
    Holding(p) /\ Holding(q) /\ work[p].draft = work[q].draft => p = q

Taken(d) == Active(d) \/ Held(d)

OneTaken == \A d, e \in Rows :
    drafts[d].thread = drafts[e].thread /\ Taken(d) /\ Taken(e) => d = e

(* While a reply is being sent its thread has none on record. *)
Pledged(p) == Holding(p) =>
    LET d == work[p].draft IN
    /\ drafts[d].thread \notin replied
    /\ gmail[d] = IF Sending(p) THEN doubt[d] ELSE doubt[d] + 1

(* A reported reply is of a row, and either not committed yet or on record. *)
Reported(d) == gmail[d] > doubt[d]

Counted(d) ==
    /\ doubt[d] <= gmail[d] /\ gmail[d] <= doubt[d] + 1
    /\ Reported(d) =>
          /\ d \in Rows
          /\ \/ \E p \in Actor : work[p].pc = "accepted" /\ work[p].draft = d
             \/ drafts[d].thread \in replied /\ drafts[d].status # "pending"

OneReported == \A d, e \in Rows :
    drafts[d].thread = drafts[e].thread /\ Reported(d) /\ Reported(e) => d = e

(* A draft dropped with no decision crossing it is out of reach. *)
Dropped(d) == /\ d \in Rows /\ drafts[d].status # "pending"
              /\ ~Held(d) /\ ~Reported(d)

DraftsInv ==
    /\ DraftsTypeOK /\ \A p \in Actor : Engaged(p)
    /\ Room /\ OneHolder /\ OneTaken
    /\ \A p \in Actor : Pledged(p)
    /\ \A d \in Id : Counted(d)
    /\ OneReported /\ SentIsRecorded
    /\ \A d \in told \ crossed : Dropped(d)

-----------------------------------------------------------------------------
(* The inductive invariant of the handlers.                                *)

HookTypeOK ==
    /\ marks \subseteq Message /\ hook \in [Handler -> Hook]
    /\ checkin \in {"none", "open", "answered"}
    /\ mapping \in 0..MaxSessions /\ sessions \subseteq 1..MaxSessions
    /\ purges \in 0..MaxPurges /\ made \in 0..MaxSessions
    /\ answers \in Nat /\ raced \in Nat

(* Requests that have taken their message as the answer and are not done. *)
Answering == {h \in Handler : hook[h].answer}

(* The check-in is marked, or about to be. *)
Due == IF checkin = "answered" \/ \E h \in Handler : hook[h].lock THEN 1 ELSE 0

(* Answers given and under way are the one the mark stands for, and one for *)
(* each cause.                                                             *)
CheckinOK ==
    /\ \A h \in Handler : hook[h].lock => hook[h].answer
    /\ answers + Cardinality(Answering) <= raced + Due

(* The session a handler created and does not share yet. *)
Own(h) == hook[h].stage \in {"map", "lost"}

SessionsOK ==
    /\ mapping <= made /\ (mapping # 0 => mapping \in sessions)
    /\ \A h \in Handler :
          /\ ~At(h, "heal")
          /\ At(h, "agent") => hook[h].session = mapping /\ mapping # 0
          /\ Own(h) => /\ hook[h].session \in sessions /\ hook[h].session \in 1..made
                       /\ hook[h].session # mapping
                       /\ \A g \in Handler : Own(g) /\ hook[g].session = hook[h].session
                                                => g = h
          /\ At(h, "lost") => mapping # 0

HookInv == HookTypeOK /\ CheckinOK /\ (purges > 0 \/ SessionsOK)

IInv == DraftsInv /\ HookInv

-----------------------------------------------------------------------------
(* Maxima, rows and transactions.                                          *)

(* A nonempty finite set of numbers has a maximum: a smallest upper part. *)
LEMMA MaxIsIn ==
    ASSUME NEW S \in SUBSET Nat, IsFiniteSet(S), S # {}
    PROVE  Max(S) \in S
<1> DEFINE Above(x) == {y \in S : y >= x}
           T == {Above(x) : x \in S}
<1>1. IsWellFoundedOn(StrictSubsetOrdering(S), FiniteSubsetsOf(S))
  BY FS_StrictSubsetOrderingWellFounded
<1>2. T \subseteq FiniteSubsetsOf(S)
  <2>1. \A x \in S : IsFiniteSet(Above(x))
    BY FS_Subset
  <2> QED
    BY <2>1 DEF FiniteSubsetsOf
<1>3. T # {}
  <2>1. PICK x : x \in S
    OBVIOUS
  <2>2. Above(x) \in T
    BY <2>1
  <2> QED
    BY <2>2
<1>4. PICK U \in T : \A V \in T : ~(<<V, U>> \in StrictSubsetOrdering(S))
  <2> HIDE DEF T
  <2> QED
    BY <1>1, <1>2, <1>3, WFMin
<1>5. PICK x \in S : U = Above(x)
  OBVIOUS
<1>6. \A y \in S : x >= y
  <2> SUFFICES ASSUME NEW y \in S, ~(x >= y) PROVE FALSE
    OBVIOUS
  <2>1. Above(y) \subseteq Above(x) /\ x \in Above(x) /\ x \notin Above(y)
    <3>1. x \in Nat /\ y \in Nat /\ \A z \in S : z \in Nat
      OBVIOUS
    <3>2. \A z \in S : z >= y => z >= x
      BY <3>1
    <3>3. x >= x
      BY <3>1
    <3>4. Above(y) \subseteq Above(x)
      BY <3>2
    <3> QED
      BY <3>3, <3>4
  <2>2. <<Above(y), Above(x)>> \in StrictSubsetOrdering(S)
    BY <2>1 DEF StrictSubsetOrdering
  <2> QED
    BY <1>4, <1>5, <2>2
<1> QED
  BY <1>6 DEF Max

(* The row of no operation. *)
LEMMA RestTyped == Rest \in Work /\ Rest.op = "none" /\ Rest.pc = "idle"
                   /\ Rest.draft = 0 /\ Rest.seen = "pending"
<1>1. (CHOOSE t \in Thread : TRUE) \in Thread
  BY DraftsAssumption
<1> QED
  BY <1>1, DraftsAssumption DEF Rest, Work

(* Rows are the first ids. *)
LEMMA RowsTyped ==
    ASSUME DraftsTypeOK
    PROVE  /\ Rows = 1..Len(drafts) /\ Len(drafts) \in Nat
           /\ Rows \subseteq Id /\ Rows \in SUBSET Nat /\ IsFiniteSet(Rows)
           /\ \A d \in Rows : drafts[d] \in Draft
<1>1. Rows = 1..Len(drafts) /\ Len(drafts) \in Nat
  BY DEF DraftsTypeOK, Rows
<1>2. IsFiniteSet(1..Len(drafts))
  BY <1>1, FS_Interval
<1> QED
  BY <1>1, <1>2, DraftsAssumption DEF DraftsTypeOK, Rows, Id

(* What Status writes. *)
LEMMA StatusWrites ==
    ASSUME DraftsTypeOK, NEW d \in Rows,
           NEW s \in {"pending", "approved", "abandoned", "sent"}, Status(d, s)
    PROVE  /\ drafts' \in Seq(Draft) /\ Len(drafts') = Len(drafts) /\ Rows' = Rows
           /\ \A e \in Rows : /\ drafts'[e].thread = drafts[e].thread
                               /\ drafts'[e].revision = drafts[e].revision
                               /\ drafts'[e].status = IF e = d THEN s ELSE drafts[e].status
<1>1. drafts \in [1..Len(drafts) -> Draft] /\ Len(drafts) \in Nat /\ d \in 1..Len(drafts)
  BY RowsTyped DEF DraftsTypeOK, Rows
<1>2. drafts' = [drafts EXCEPT ![d].status = s]
  BY DEF Status
<1>3. [drafts[d] EXCEPT !.status = s] \in Draft
  BY <1>1 DEF Draft
<1>4. drafts' \in [1..Len(drafts) -> Draft]
  BY <1>1, <1>2, <1>3
<1>5. drafts' \in Seq(Draft) /\ Len(drafts') = Len(drafts)
  BY <1>1, <1>4
<1> QED
  BY <1>1, <1>2, <1>4, <1>5 DEF Rows, Draft

(* What the end of a transaction writes. *)
LEMMA FinishWrites ==
    ASSUME DraftsTypeOK, NEW p \in Actor, Finish(p)
    PROVE  /\ work' \in [Actor -> Work] /\ work'[p] = Rest
           /\ \A q \in Actor \ {p} : work'[q] = work[q]
BY RestTyped DEF Finish, DraftsTypeOK

-----------------------------------------------------------------------------
(* What a step of one actor leaves of the others.                          *)

(* Only p's operation changes, and no row changes its thread. *)
Local(p) == /\ work' \in [Actor -> Work] /\ \A q \in Actor \ {p} : work'[q] = work[q]
            /\ Rows \subseteq Rows' /\ \A e \in Rows : drafts'[e].thread = drafts[e].thread

(* An operation that holds a row is an approval of that row. *)
LEMMA HeldRow ==
    ASSUME DraftsInv, NEW p \in Actor, Holding(p)
    PROVE  /\ work[p].draft \in Rows /\ work[p].draft \in Id /\ Held(work[p].draft)
           /\ drafts[work[p].draft] \in Draft /\ drafts[work[p].draft].thread \notin replied
           /\ gmail[work[p].draft] \in Nat /\ doubt[work[p].draft] \in Nat
           /\ gmail[work[p].draft] = IF Sending(p) THEN doubt[work[p].draft]
                                                   ELSE doubt[work[p].draft] + 1
<1>1. work[p].draft \in Rows
  BY DEF DraftsInv, Engaged, Holding
<1>2. work[p].draft \in Id /\ drafts[work[p].draft] \in Draft
  BY <1>1, RowsTyped DEF DraftsInv
<1>3. Held(work[p].draft)
  BY DEF Held, Holding
<1>4. drafts[work[p].draft].thread \notin replied
      /\ gmail[work[p].draft] = IF Sending(p) THEN doubt[work[p].draft]
                                              ELSE doubt[work[p].draft] + 1
  BY DEF DraftsInv, Pledged
<1>5. gmail[work[p].draft] \in Nat /\ doubt[work[p].draft] \in Nat
  BY <1>2 DEF DraftsInv, DraftsTypeOK
<1> QED
  BY <1>1, <1>2, <1>3, <1>4, <1>5

(* Two operations never hold rows of one thread. *)
LEMMA Apart ==
    ASSUME DraftsInv, NEW p \in Actor, NEW q \in Actor, p # q, Holding(p), Holding(q)
    PROVE  /\ work[p].draft # work[q].draft
           /\ drafts[work[p].draft].thread # drafts[work[q].draft].thread
<1>1. work[p].draft # work[q].draft
  BY DEF DraftsInv, OneHolder
<1> QED
  BY <1>1, HeldRow DEF DraftsInv, OneTaken, Taken

LEMMA EngagedKept ==
    ASSUME DraftsInv, NEW p \in Actor, Local(p), Engaged(p)'
    PROVE  \A q \in Actor : Engaged(q)'
<1> SUFFICES ASSUME NEW q \in Actor, q # p PROVE Engaged(q)'
  OBVIOUS
<1>1. work'[q] = work[q] /\ Engaged(q) /\ Rows \subseteq Rows'
      /\ \A e \in Rows : drafts'[e].thread = drafts[e].thread
  BY DEF DraftsInv, Local
<1>2. work'[q].op = "create" => \/ work'[q].draft = 0
                                \/ /\ work'[q].draft \in Rows'
                                   /\ drafts'[work'[q].draft].thread = work'[q].thread
  BY <1>1 DEF Engaged
<1>3. work'[q].op \in {"update", "approve", "abandon"} => work'[q].draft \in Rows'
  BY <1>1 DEF Engaged
<1> QED
  BY <1>1, <1>2, <1>3 DEF Engaged, Resting, Holding

LEMMA RoomKept ==
    ASSUME DraftsInv, Len(drafts') = Len(drafts), Creators' \subseteq Creators
    PROVE  Room'
<1>1. IsFiniteSet(Creators)
  BY DraftsAssumption, FS_Subset DEF Creators
<1>2. Cardinality(Creators') <= Cardinality(Creators)
      /\ Cardinality(Creators') \in Nat /\ Cardinality(Creators) \in Nat
  BY <1>1, FS_Subset, FS_CardinalityType
<1>3. Len(drafts) \in Nat /\ Room
  BY RowsTyped DEF DraftsInv
<1> QED
  BY <1>2, <1>3, DraftsAssumption DEF Room

(* p is done: its lock is free, and the rest of the locks are as before. *)
LEMMA Freed ==
    ASSUME DraftsInv, NEW p \in Actor, Local(p), work'[p] = Rest
    PROVE  /\ \A q \in Actor : Engaged(q)'
           /\ OneHolder'
           /\ ~Holding(p)'
           /\ \A e \in Rows : Held(e)' => Held(e) /\ (Holding(p) => e # work[p].draft)
           /\ \A e \in Rows : Held(e) => Held(e)' \/ (Holding(p) /\ e = work[p].draft)
           /\ Len(drafts') = Len(drafts) => Room'
<1>1. Rest.op = "none" /\ Rest.pc = "idle" /\ Rest.draft = 0 /\ Rest.seen = "pending"
  BY RestTyped
<1>2. Engaged(p)'
  BY <1>1 DEF Engaged, Resting, Holding
<1>3. \A q \in Actor : Engaged(q)'
  BY <1>2, EngagedKept
<1>4. ~Holding(p)' /\ \A q \in Actor \ {p} : work'[q] = work[q]
  BY <1>1 DEF Holding, Local
<1>5. OneHolder'
  BY <1>4 DEF DraftsInv, OneHolder, Holding
<1>6. \A e \in Rows : Held(e)' => Held(e) /\ (Holding(p) => e # work[p].draft)
  BY <1>1, <1>4 DEF DraftsInv, Held, OneHolder, Holding
<1>7. \A e \in Rows : Held(e) => Held(e)' \/ (Holding(p) /\ e = work[p].draft)
  BY <1>4 DEF Held, Holding
<1>8. Len(drafts') = Len(drafts) => Room'
  <2>1. Creators' \subseteq Creators
    BY <1>1, <1>4 DEF Creators
  <2> QED
    BY <2>1, RoomKept
<1> QED
  BY <1>3, <1>4, <1>5, <1>6, <1>7, <1>8

(* The promises of the others stand while their rows and replies do. *)
LEMMA PledgedKept ==
    ASSUME DraftsInv, NEW p \in Actor, Local(p), Pledged(p)',
           \A q \in Actor \ {p} : Holding(q) =>
               /\ gmail'[work[q].draft] = gmail[work[q].draft]
               /\ doubt'[work[q].draft] = doubt[work[q].draft]
               /\ drafts[work[q].draft].thread \notin replied'
    PROVE  \A q \in Actor : Pledged(q)'
<1> SUFFICES ASSUME NEW q \in Actor, q # p, Holding(q)' PROVE Pledged(q)'
  BY DEF Pledged
<1>1. work'[q] = work[q] /\ Holding(q) /\ Pledged(q)
  BY DEF DraftsInv, Local, Holding
<1>2. drafts'[work[q].draft].thread = drafts[work[q].draft].thread
  BY <1>1, HeldRow DEF Local
<1>3. /\ gmail'[work[q].draft] = gmail[work[q].draft]
      /\ doubt'[work[q].draft] = doubt[work[q].draft]
      /\ drafts[work[q].draft].thread \notin replied'
  BY <1>1
<1> QED
  BY <1>1, <1>2, <1>3 DEF Pledged, Sending, Holding

(* A step that hears nothing of Gmail, and returns no reported row to pending. *)
LEMMA Quiet ==
    ASSUME DraftsInv, Rows \subseteq Rows', Rows' \subseteq Id,
           \A e \in Rows : drafts'[e].thread = drafts[e].thread,
           UNCHANGED <<gmail, doubt, replied>>,
           \A q \in Actor : work[q].pc = "accepted" => work'[q] = work[q],
           \A e \in Rows : drafts[e].status # "pending" /\ Reported(e)
                               => drafts'[e].status # "pending"
    PROVE  (\A e \in Id : Counted(e)') /\ OneReported'
<1>1. \A e \in Id : Reported(e)' <=> Reported(e)
  BY DEF Reported
<1>2. ASSUME NEW e \in Id PROVE Counted(e)'
  <2>1. Counted(e)
    BY DEF DraftsInv
  <2>2. gmail'[e] = gmail[e] /\ doubt'[e] = doubt[e]
    OBVIOUS
  <2>3. ASSUME Reported(e)
        PROVE  /\ e \in Rows'
               /\ \/ \E q \in Actor : work'[q].pc = "accepted" /\ work'[q].draft = e
                  \/ drafts'[e].thread \in replied' /\ drafts'[e].status # "pending"
    <3>1. e \in Rows
      BY <2>1, <2>3 DEF Counted
    <3>2. e \in Rows' /\ drafts'[e].thread = drafts[e].thread
      BY <3>1
    <3>3. CASE \E q \in Actor : work[q].pc = "accepted" /\ work[q].draft = e
      BY <3>2, <3>3
    <3>4. CASE drafts[e].thread \in replied /\ drafts[e].status # "pending"
      BY <2>3, <3>1, <3>2, <3>4
    <3> QED
      BY <2>1, <2>3, <3>3, <3>4 DEF Counted
  <2> QED
    BY <1>1, <2>1, <2>2, <2>3 DEF Counted
<1>3. OneReported'
  <2> SUFFICES ASSUME NEW e \in Rows', NEW f \in Rows',
                      drafts'[e].thread = drafts'[f].thread,
                      gmail'[e] > doubt'[e], gmail'[f] > doubt'[f]
               PROVE  e = f
    BY DEF OneReported, Reported
  <2>1. Reported(e) /\ Reported(f)
    BY DEF Reported
  <2>2. e \in Rows /\ f \in Rows
    <3>1. e \in Id /\ f \in Id /\ Counted(e) /\ Counted(f)
      BY DEF DraftsInv
    <3> QED
      BY <2>1, <3>1 DEF Counted
  <2> QED
    BY <2>1, <2>2 DEF DraftsInv, OneReported
<1> QED
  BY <1>2, <1>3

(* A step that counts replies for the row p holds, and no other. *)
LEMMA Recounted ==
    ASSUME DraftsInv, NEW p \in Actor, Local(p), Rows' = Rows, Holding(p),
           \A e \in Id \ {work[p].draft} : gmail'[e] = gmail[e] /\ doubt'[e] = doubt[e],
           replied \subseteq replied',
           \A e \in Rows \ {work[p].draft} : drafts'[e].status = drafts[e].status,
           \A e \in Id : e = work[p].draft => Counted(e)'
    PROVE  (\A e \in Id : Counted(e)') /\ OneReported'
<1> DEFINE d == work[p].draft
<1>0. d \in Rows /\ drafts[d].thread \notin replied
  BY HeldRow
<1>1. ASSUME NEW e \in Id, e # d PROVE Counted(e)'
  <2>1. Counted(e) /\ gmail'[e] = gmail[e] /\ doubt'[e] = doubt[e]
    BY <1>1 DEF DraftsInv
  <2>2. ASSUME Reported(e)
        PROVE  /\ e \in Rows'
               /\ \/ \E q \in Actor : work'[q].pc = "accepted" /\ work'[q].draft = e
                  \/ drafts'[e].thread \in replied' /\ drafts'[e].status # "pending"
    <3>1. e \in Rows /\ drafts'[e].thread = drafts[e].thread
          /\ drafts'[e].status = drafts[e].status
      BY <1>1, <2>1, <2>2 DEF Counted, Local
    <3>2. CASE \E q \in Actor : work[q].pc = "accepted" /\ work[q].draft = e
      BY <1>1, <3>1, <3>2 DEF Local
    <3>3. CASE drafts[e].thread \in replied /\ drafts[e].status # "pending"
      BY <3>1, <3>3
    <3> QED
      BY <2>1, <2>2, <3>2, <3>3 DEF Counted
  <2> QED
    BY <2>1, <2>2 DEF Counted, Reported
<1>2. ASSUME NEW e \in Rows, e # d, drafts[e].thread = drafts[d].thread
      PROVE  ~Reported(e)
  <2>1. e \in Id /\ Counted(e)
    BY RowsTyped DEF DraftsInv
  <2>2. ASSUME NEW q \in Actor, work[q].pc = "accepted", work[q].draft = e PROVE FALSE
    BY <1>2, <2>2, Apart DEF Holding
  <2> QED
    BY <1>0, <1>2, <2>1, <2>2 DEF Counted
<1>3. OneReported'
  <2> SUFFICES ASSUME NEW e \in Rows, NEW f \in Rows,
                      drafts'[e].thread = drafts'[f].thread,
                      gmail'[e] > doubt'[e], gmail'[f] > doubt'[f], e # f
               PROVE  FALSE
    BY DEF OneReported, Reported
  <2>1. drafts[e].thread = drafts[f].thread /\ e \in Id /\ f \in Id
    BY RowsTyped DEF Local, DraftsInv
  <2>2. (e # d => Reported(e)) /\ (f # d => Reported(f))
    BY <2>1 DEF Reported
  <2> QED
    BY <1>2, <2>1, <2>2 DEF DraftsInv, OneReported
<1> QED
  BY <1>1, <1>3

-----------------------------------------------------------------------------
(* The steps of a draft's transaction.                                     *)

LEMMA ApproveCommitsInv ==
    ASSUME DraftsInv, NEW p \in Actor, ApproveCommits(p)
    PROVE  DraftsInv'
<1>1. PICK d \in Rows : d = work[p].draft
  BY HeldRow DEF ApproveCommits, Holding
<1>2. /\ work[p].pc = "accepted" /\ Status(d, "sent") /\ Finish(p)
      /\ replied' = replied \cup {drafts[d].thread}
      /\ UNCHANGED <<gmail, faults, doubt, told, crossed>>
  BY <1>1 DEF ApproveCommits, outcome, decisions
<1>3. /\ drafts' \in Seq(Draft) /\ Len(drafts') = Len(drafts) /\ Rows' = Rows
      /\ \A e \in Rows : /\ drafts'[e].thread = drafts[e].thread
                         /\ drafts'[e].revision = drafts[e].revision
                         /\ drafts'[e].status = IF e = d THEN "sent" ELSE drafts[e].status
  BY <1>2, StatusWrites DEF DraftsInv
<1>4. work' \in [Actor -> Work] /\ work'[p] = Rest /\ \A q \in Actor \ {p} : work'[q] = work[q]
  BY <1>2, FinishWrites DEF DraftsInv
<1>5. Local(p)
  BY <1>3, <1>4 DEF Local
<1>6. /\ Holding(p) /\ d \in Id /\ drafts[d].thread \notin replied /\ drafts[d].thread \in Thread
      /\ gmail[d] = doubt[d] + 1 /\ gmail[d] \in Nat /\ doubt[d] \in Nat
  BY <1>1, <1>2, HeldRow DEF Holding, Sending, Draft
<1>7. DraftsTypeOK'
  BY <1>2, <1>3, <1>4, <1>6 DEF DraftsInv, DraftsTypeOK
<1>8. (\A q \in Actor : Engaged(q)') /\ OneHolder' /\ ~Holding(p)' /\ Room'
      /\ \A e \in Rows : Held(e)' => Held(e) /\ e # d
  BY <1>1, <1>3, <1>4, <1>5, <1>6, Freed
<1>9. OneTaken'
  BY <1>3, <1>8 DEF DraftsInv, OneTaken, Taken, Active
<1>10. \A q \in Actor : Pledged(q)'
  <2>1. \A q \in Actor \ {p} : Holding(q) => drafts[work[q].draft].thread \notin replied'
    BY <1>1, <1>2, <1>6, Apart, HeldRow
  <2> QED
    BY <1>2, <1>5, <1>8, <2>1, PledgedKept DEF Pledged
<1>11. (\A e \in Id : Counted(e)') /\ OneReported'
  <2>1. Counted(d)'
    BY <1>2, <1>3, <1>6 DEF Counted, Reported
  <2> QED
    BY <1>1, <1>2, <1>3, <1>5, <1>6, <2>1, Recounted
<1>12. SentIsRecorded'
  <2>1. \A e \in Rows : drafts'[e].status = "sent" => drafts'[e].thread \in replied'
    BY <1>2, <1>3 DEF DraftsInv, SentIsRecorded
  <2>2. \A t \in replied' : \E e \in Rows : drafts'[e].thread = t /\ gmail'[e] > doubt'[e]
    <3>1. gmail'[d] > doubt'[d]
      BY <1>2, <1>6
    <3> QED
      BY <1>2, <1>3, <3>1 DEF DraftsInv, SentIsRecorded
  <2> QED
    BY <1>3, <2>1, <2>2 DEF SentIsRecorded
<1>13. \A e \in told' \ crossed' : Dropped(e)'
  BY <1>2, <1>3, <1>8 DEF DraftsInv, Dropped, Reported
<1> QED
  BY <1>7, <1>8, <1>9, <1>10, <1>11, <1>12, <1>13 DEF DraftsInv

LEMMA GmailRefusesInv ==
    ASSUME DraftsInv, NEW p \in Actor, GmailRefuses(p)
    PROVE  DraftsInv'
<1>1. PICK d \in Rows : d = work[p].draft
  BY HeldRow DEF GmailRefuses, Sending, Holding
<1>2. /\ work[p].pc = "sending" /\ Status(d, "pending") /\ Finish(p)
      /\ UNCHANGED <<replied, gmail, faults, doubt, told, crossed>>
  BY <1>1 DEF GmailRefuses, Sending, outcome, decisions
<1>3. /\ drafts' \in Seq(Draft) /\ Len(drafts') = Len(drafts) /\ Rows' = Rows
      /\ \A e \in Rows : /\ drafts'[e].thread = drafts[e].thread
                         /\ drafts'[e].revision = drafts[e].revision
                         /\ drafts'[e].status = IF e = d THEN "pending" ELSE drafts[e].status
  BY <1>2, StatusWrites DEF DraftsInv
<1>4. work' \in [Actor -> Work] /\ work'[p] = Rest /\ \A q \in Actor \ {p} : work'[q] = work[q]
  BY <1>2, FinishWrites DEF DraftsInv
<1>5. Local(p) /\ Rows' \subseteq Id
  BY <1>3, <1>4, RowsTyped DEF Local, DraftsInv
<1>6. Holding(p) /\ Held(d) /\ gmail[d] = doubt[d] /\ gmail[d] \in Nat
  BY <1>1, <1>2, HeldRow DEF Holding, Sending
<1>7. DraftsTypeOK'
  BY <1>2, <1>3, <1>4 DEF DraftsInv, DraftsTypeOK
<1>8. (\A q \in Actor : Engaged(q)') /\ OneHolder' /\ ~Holding(p)' /\ Room'
      /\ \A e \in Rows : Held(e)' => Held(e)
  BY <1>3, <1>4, <1>5, Freed
<1>9. OneTaken'
  BY <1>3, <1>6, <1>8 DEF DraftsInv, OneTaken, Taken, Active
<1>10. \A q \in Actor : Pledged(q)'
  <2>1. \A q \in Actor \ {p} : Holding(q) => drafts[work[q].draft].thread \notin replied'
    BY <1>2, HeldRow
  <2> QED
    BY <1>2, <1>5, <1>8, <2>1, PledgedKept DEF Pledged
<1>11. (\A e \in Id : Counted(e)') /\ OneReported'
  <2>1. \A e \in Rows : drafts[e].status # "pending" /\ Reported(e)
                            => drafts'[e].status # "pending"
    BY <1>3, <1>6 DEF Reported
  <2>2. \A q \in Actor : work[q].pc = "accepted" => work'[q] = work[q]
    BY <1>2, <1>4
  <2> QED
    BY <1>2, <1>3, <1>5, <2>1, <2>2, Quiet DEF Local
<1>12. SentIsRecorded'
  <2>1. \A e \in Rows : drafts'[e].status = "sent" => drafts'[e].thread \in replied'
    BY <1>2, <1>3 DEF DraftsInv, SentIsRecorded
  <2>2. \A t \in replied' : \E e \in Rows : drafts'[e].thread = t /\ gmail'[e] > doubt'[e]
    BY <1>2, <1>3 DEF DraftsInv, SentIsRecorded
  <2> QED
    BY <1>3, <2>1, <2>2 DEF SentIsRecorded
<1>13. \A e \in told' \ crossed' : Dropped(e)'
  BY <1>2, <1>3, <1>6, <1>8 DEF DraftsInv, Dropped, Reported
<1> QED
  BY <1>7, <1>8, <1>9, <1>10, <1>11, <1>12, <1>13 DEF DraftsInv

LEMMA GmailAnswersLateInv ==
    ASSUME DraftsInv, NEW p \in Actor, GmailAnswersLate(p)
    PROVE  DraftsInv'
<1>1. PICK d \in Rows : d = work[p].draft
  BY HeldRow DEF GmailAnswersLate, Sending, Holding
<1>2. /\ work[p].pc = "sending" /\ Status(d, "pending") /\ Finish(p)
      /\ gmail' = [gmail EXCEPT ![d] = @ + 1] /\ doubt' = [doubt EXCEPT ![d] = @ + 1]
      /\ faults < MaxFaults /\ faults' = faults + 1
      /\ UNCHANGED <<replied, told, crossed>>
  BY <1>1 DEF GmailAnswersLate, Sending, Accepts, Misleads, decisions
<1>3. /\ drafts' \in Seq(Draft) /\ Len(drafts') = Len(drafts) /\ Rows' = Rows
      /\ \A e \in Rows : /\ drafts'[e].thread = drafts[e].thread
                         /\ drafts'[e].revision = drafts[e].revision
                         /\ drafts'[e].status = IF e = d THEN "pending" ELSE drafts[e].status
  BY <1>2, StatusWrites DEF DraftsInv
<1>4. work' \in [Actor -> Work] /\ work'[p] = Rest /\ \A q \in Actor \ {p} : work'[q] = work[q]
  BY <1>2, FinishWrites DEF DraftsInv
<1>5. Local(p) /\ Rows' \subseteq Id
  BY <1>3, <1>4, RowsTyped DEF Local, DraftsInv
<1>6. Holding(p) /\ Held(d) /\ gmail[d] = doubt[d] /\ gmail[d] \in Nat /\ d \in Id
  BY <1>1, <1>2, HeldRow DEF Holding, Sending
<1>7. DraftsTypeOK'
  <2>1. gmail' \in [Id -> Nat] /\ doubt' \in [Id -> Nat]
    BY <1>2, <1>6 DEF DraftsInv, DraftsTypeOK
  <2>2. faults' \in 0..MaxFaults
    BY <1>2, DraftsAssumption DEF DraftsInv, DraftsTypeOK
  <2> QED
    BY <1>2, <1>3, <1>4, <2>1, <2>2 DEF DraftsInv, DraftsTypeOK
<1>8. (\A q \in Actor : Engaged(q)') /\ OneHolder' /\ ~Holding(p)' /\ Room'
      /\ \A e \in Rows : Held(e)' => Held(e)
  BY <1>3, <1>4, <1>5, Freed
<1>9. OneTaken'
  BY <1>3, <1>6, <1>8 DEF DraftsInv, OneTaken, Taken, Active
<1>10. /\ \A e \in Id \ {d} : gmail'[e] = gmail[e] /\ doubt'[e] = doubt[e]
       /\ gmail'[d] = gmail[d] + 1 /\ doubt'[d] = gmail[d] + 1
  BY <1>2, <1>6 DEF DraftsInv, DraftsTypeOK
<1>11. \A q \in Actor : Pledged(q)'
  <2>1. \A q \in Actor \ {p} : Holding(q) =>
               /\ gmail'[work[q].draft] = gmail[work[q].draft]
               /\ doubt'[work[q].draft] = doubt[work[q].draft]
               /\ drafts[work[q].draft].thread \notin replied'
    BY <1>1, <1>2, <1>6, <1>10, HeldRow, Apart
  <2> QED
    BY <1>5, <1>8, <2>1, PledgedKept DEF Pledged
<1>12. (\A e \in Id : Counted(e)') /\ OneReported'
  <2>1. Counted(d)'
    BY <1>6, <1>10 DEF Counted, Reported
  <2> QED
    BY <1>1, <1>2, <1>3, <1>5, <1>6, <1>10, <2>1, Recounted
<1>13. \A e \in Rows : Reported(e)' <=> Reported(e)
  BY <1>6, <1>10, RowsTyped DEF Reported, DraftsInv
<1>14. SentIsRecorded'
  BY <1>2, <1>3, <1>13 DEF DraftsInv, SentIsRecorded, Reported
<1>15. \A e \in told' \ crossed' : Dropped(e)'
  BY <1>2, <1>3, <1>6, <1>8, <1>13 DEF DraftsInv, Dropped
<1> QED
  BY <1>7, <1>8, <1>9, <1>11, <1>12, <1>14, <1>15 DEF DraftsInv

LEMMA ApproveDiesInv ==
    ASSUME DraftsInv, NEW p \in Actor, ApproveDies(p)
    PROVE  DraftsInv'
<1>1. PICK d \in Rows : d = work[p].draft
  BY HeldRow DEF ApproveDies, Holding
<1>2. /\ Holding(p) /\ Finish(p) /\ UNCHANGED <<drafts, replied, gmail, told, crossed>>
      /\ IF Sending(p) THEN UNCHANGED <<faults, doubt>> ELSE Misleads(d)
  BY <1>1 DEF ApproveDies, Holding, decisions
<1>3. work' \in [Actor -> Work] /\ work'[p] = Rest /\ \A q \in Actor \ {p} : work'[q] = work[q]
  BY <1>2, FinishWrites DEF DraftsInv
<1>4. Local(p) /\ Rows' = Rows /\ Rows' \subseteq Id
  BY <1>2, <1>3, RowsTyped DEF Local, DraftsInv, Rows
<1>5. /\ d \in Id /\ gmail[d] \in Nat /\ doubt[d] \in Nat /\ drafts[d].thread \notin replied
      /\ gmail[d] = IF Sending(p) THEN doubt[d] ELSE doubt[d] + 1
  BY <1>1, <1>2, HeldRow
<1>6. /\ \A e \in Id \ {d} : doubt'[e] = doubt[e]
      /\ doubt'[d] = gmail[d] /\ doubt' \in [Id -> Nat] /\ faults' \in 0..MaxFaults
  BY <1>2, <1>5, DraftsAssumption DEF DraftsInv, DraftsTypeOK, Misleads
<1>7. DraftsTypeOK'
  BY <1>2, <1>3, <1>6 DEF DraftsInv, DraftsTypeOK
<1>8. (\A q \in Actor : Engaged(q)') /\ OneHolder' /\ ~Holding(p)' /\ Room'
      /\ \A e \in Rows : Held(e)' => Held(e)
  BY <1>2, <1>3, <1>4, Freed
<1>9. OneTaken'
  BY <1>2, <1>4, <1>8 DEF DraftsInv, OneTaken, Taken, Active
<1>10. \A q \in Actor : Pledged(q)'
  <2>1. \A q \in Actor \ {p} : Holding(q) =>
               /\ gmail'[work[q].draft] = gmail[work[q].draft]
               /\ doubt'[work[q].draft] = doubt[work[q].draft]
               /\ drafts[work[q].draft].thread \notin replied'
    BY <1>1, <1>2, <1>6, HeldRow, Apart
  <2> QED
    BY <1>4, <1>8, <2>1, PledgedKept DEF Pledged
<1>11. (\A e \in Id : Counted(e)') /\ OneReported'
  <2>1. Counted(d)'
    BY <1>2, <1>5, <1>6 DEF Counted, Reported
  <2> QED
    BY <1>1, <1>2, <1>4, <1>6, <2>1, Recounted
<1>12. \A e \in Rows : Reported(e)' => Reported(e)
  BY <1>2, <1>4, <1>5, <1>6 DEF Reported
<1>13. SentIsRecorded'
  <2>1. \A t \in replied : \E e \in Rows : drafts[e].thread = t /\ gmail'[e] > doubt'[e]
    <3> SUFFICES ASSUME NEW t \in replied
                 PROVE  \E e \in Rows : drafts[e].thread = t /\ gmail'[e] > doubt'[e]
      OBVIOUS
    <3>1. PICK e \in Rows : drafts[e].thread = t /\ gmail[e] > doubt[e]
      BY DEF DraftsInv, SentIsRecorded
    <3>2. e # d /\ e \in Id
      BY <1>4, <1>5, <3>1
    <3> QED
      BY <1>2, <1>6, <3>1, <3>2
  <2> QED
    BY <1>2, <1>4, <2>1 DEF DraftsInv, SentIsRecorded
<1>14. \A e \in told' \ crossed' : Dropped(e)'
  BY <1>2, <1>4, <1>8, <1>12 DEF DraftsInv, Dropped
<1> QED
  BY <1>7, <1>8, <1>9, <1>10, <1>11, <1>13, <1>14 DEF DraftsInv

LEMMA GmailAcceptsInv ==
    ASSUME DraftsInv, NEW p \in Actor, GmailAccepts(p)
    PROVE  DraftsInv'
<1>1. PICK d \in Rows : d = work[p].draft
  BY HeldRow DEF GmailAccepts, Sending, Holding
<1>2. /\ work[p].pc = "sending" /\ work' = [work EXCEPT ![p].pc = "accepted"]
      /\ gmail' = [gmail EXCEPT ![d] = @ + 1]
      /\ UNCHANGED <<drafts, replied, faults, doubt, told, crossed>>
  BY <1>1 DEF GmailAccepts, Sending, Accepts, decisions
<1>3. /\ work' \in [Actor -> Work] /\ \A q \in Actor \ {p} : work'[q] = work[q]
      /\ work'[p].pc = "accepted" /\ work'[p].op = work[p].op
      /\ work'[p].draft = d /\ work'[p].seen = work[p].seen
      /\ work'[p].thread = work[p].thread /\ work'[p].revision = work[p].revision
  <2>1. work \in [Actor -> Work] /\ work'[p] = [work[p] EXCEPT !.pc = "accepted"]
    BY <1>2 DEF DraftsInv, DraftsTypeOK
  <2>2. work'[p] \in Work
    BY <2>1 DEF Work
  <2> QED
    BY <1>1, <1>2, <2>1, <2>2 DEF Work
<1>4. Local(p) /\ Rows' = Rows /\ Rows' \subseteq Id
  BY <1>2, <1>3, RowsTyped DEF Local, DraftsInv, Rows
<1>5. /\ Holding(p) /\ Holding(p)' /\ d \in Id /\ gmail[d] \in Nat /\ doubt[d] \in Nat
      /\ drafts[d].thread \notin replied /\ gmail[d] = doubt[d]
  BY <1>1, <1>2, <1>3, HeldRow DEF Holding, Sending
<1>6. /\ \A e \in Id \ {d} : gmail'[e] = gmail[e]
      /\ gmail'[d] = doubt[d] + 1 /\ gmail' \in [Id -> Nat]
  BY <1>2, <1>5 DEF DraftsInv, DraftsTypeOK
<1>7. DraftsTypeOK'
  BY <1>2, <1>3, <1>6 DEF DraftsInv, DraftsTypeOK
<1>8. \A q \in Actor : Engaged(q)'
  <2>1. Engaged(p)'
    BY <1>1, <1>2, <1>3, <1>4, <1>5 DEF DraftsInv, Engaged, Resting, Holding
  <2> QED
    BY <1>4, <2>1, EngagedKept
<1>9. Room'
  BY <1>2, <1>3, RoomKept DEF Creators
<1>10. \A q \in Actor : Holding(q)' <=> Holding(q)
  BY <1>3, <1>5 DEF Holding
<1>11. \A q \in Actor : work'[q].draft = work[q].draft
  BY <1>1, <1>3
<1>12. OneHolder'
  BY <1>10, <1>11 DEF DraftsInv, OneHolder
<1>13. \A e \in Rows : Held(e)' => Held(e)
  BY <1>10, <1>11 DEF Held, Holding
<1>14. OneTaken'
  BY <1>2, <1>4, <1>13 DEF DraftsInv, OneTaken, Taken, Active
<1>15. \A q \in Actor : Pledged(q)'
  <2>1. \A q \in Actor \ {p} : Holding(q) =>
               /\ gmail'[work[q].draft] = gmail[work[q].draft]
               /\ doubt'[work[q].draft] = doubt[work[q].draft]
               /\ drafts[work[q].draft].thread \notin replied'
    BY <1>1, <1>2, <1>5, <1>6, HeldRow, Apart
  <2>2. Pledged(p)'
    BY <1>2, <1>3, <1>5, <1>6 DEF Pledged, Sending
  <2> QED
    BY <1>4, <2>1, <2>2, PledgedKept
<1>16. (\A e \in Id : Counted(e)') /\ OneReported'
  <2>1. Counted(d)'
    BY <1>2, <1>3, <1>4, <1>5, <1>6 DEF Counted, Reported
  <2> QED
    BY <1>1, <1>2, <1>4, <1>5, <1>6, <2>1, Recounted
<1>17. SentIsRecorded'
  <2>1. \A t \in replied : \E e \in Rows : drafts[e].thread = t /\ gmail'[e] > doubt'[e]
    <3> SUFFICES ASSUME NEW t \in replied
                 PROVE  \E e \in Rows : drafts[e].thread = t /\ gmail'[e] > doubt'[e]
      OBVIOUS
    <3>1. PICK e \in Rows : drafts[e].thread = t /\ gmail[e] > doubt[e]
      BY DEF DraftsInv, SentIsRecorded
    <3>2. e # d /\ e \in Id
      BY <1>4, <1>5, <3>1
    <3> QED
      BY <1>2, <1>6, <3>1, <3>2
  <2> QED
    BY <1>2, <1>4, <2>1 DEF DraftsInv, SentIsRecorded
<1>18. \A e \in told' \ crossed' : Dropped(e)'
  <2>1. Held(d)
    BY <1>1, <1>5, HeldRow
  <2>2. \A e \in Id \ {d} : Reported(e)' <=> Reported(e)
    BY <1>2, <1>6 DEF Reported
  <2> QED
    BY <1>2, <1>4, <1>13, <2>1, <2>2 DEF DraftsInv, Dropped
<1> QED
  BY <1>7, <1>8, <1>9, <1>12, <1>14, <1>15, <1>16, <1>17, <1>18 DEF DraftsInv

LEMMA GmailRetriedInv ==
    ASSUME DraftsInv, NEW p \in Actor, GmailRetried(p)
    PROVE  DraftsInv'
<1>1. PICK d \in Rows : d = work[p].draft
  BY HeldRow DEF GmailRetried, Sending, Holding
<1>2. /\ work[p].pc = "sending"
      /\ gmail' = [gmail EXCEPT ![d] = @ + 1] /\ doubt' = [doubt EXCEPT ![d] = @ + 1]
      /\ faults < MaxFaults /\ faults' = faults + 1
      /\ UNCHANGED <<drafts, replied, work, told, crossed>>
  BY <1>1 DEF GmailRetried, Sending, Accepts, Misleads, decisions
<1>3. Local(p) /\ Rows' = Rows /\ Rows' \subseteq Id
  BY <1>2, RowsTyped DEF Local, DraftsInv, DraftsTypeOK, Rows
<1>4. /\ Holding(p) /\ d \in Id /\ gmail[d] = doubt[d] /\ gmail[d] \in Nat
  BY <1>1, <1>2, HeldRow DEF Holding, Sending
<1>5. /\ \A e \in Id \ {d} : gmail'[e] = gmail[e] /\ doubt'[e] = doubt[e]
      /\ gmail'[d] = gmail[d] + 1 /\ doubt'[d] = gmail[d] + 1
      /\ gmail' \in [Id -> Nat] /\ doubt' \in [Id -> Nat]
  BY <1>2, <1>4 DEF DraftsInv, DraftsTypeOK
<1>6. DraftsTypeOK'
  BY <1>2, <1>5, DraftsAssumption DEF DraftsInv, DraftsTypeOK
<1>7. (\A q \in Actor : Engaged(q)') /\ OneHolder' /\ OneTaken' /\ Room'
  BY <1>2, <1>3 DEF DraftsInv, Engaged, OneHolder, Holding, Resting, OneTaken, Taken, Active,
                    Held, Room, Creators
<1>8. \A q \in Actor : Pledged(q)'
  <2>1. \A q \in Actor \ {p} : Holding(q) =>
               /\ gmail'[work[q].draft] = gmail[work[q].draft]
               /\ doubt'[work[q].draft] = doubt[work[q].draft]
               /\ drafts[work[q].draft].thread \notin replied'
    BY <1>1, <1>2, <1>4, <1>5, HeldRow, Apart
  <2>2. Pledged(p)'
    BY <1>1, <1>2, <1>4, <1>5, HeldRow DEF Pledged, Sending
  <2> QED
    BY <1>3, <2>1, <2>2, PledgedKept
<1>9. (\A e \in Id : Counted(e)') /\ OneReported'
  <2>1. Counted(d)'
    BY <1>4, <1>5 DEF Counted, Reported
  <2> QED
    BY <1>1, <1>2, <1>3, <1>4, <1>5, <2>1, Recounted
<1>10. \A e \in Rows : Reported(e)' <=> Reported(e)
  BY <1>4, <1>5, RowsTyped DEF Reported, DraftsInv
<1>11. SentIsRecorded'
  BY <1>2, <1>3, <1>10 DEF DraftsInv, SentIsRecorded, Reported
<1>12. \A e \in told' \ crossed' : Dropped(e)'
  BY <1>2, <1>3, <1>10 DEF DraftsInv, Dropped, Held
<1> QED
  BY <1>6, <1>7, <1>8, <1>9, <1>11, <1>12 DEF DraftsInv

(* A step that changes no lock and neither opens a row nor hears of Gmail. *)
LEMMA Undisturbed ==
    ASSUME DraftsInv,
           DraftsTypeOK', \A q \in Actor : Engaged(q)', Room', Rows' = Rows,
           UNCHANGED <<replied, gmail, doubt>>,
           \A q \in Actor : Holding(q) => work'[q] = work[q],
           \A q \in Actor : Holding(q)' => Holding(q),
           \A e \in Rows : /\ drafts'[e].thread = drafts[e].thread
                           /\ Active(e)' => Active(e)
                           /\ drafts'[e].status = "pending" => drafts[e].status = "pending"
                           /\ drafts'[e].status = "sent" => drafts[e].thread \in replied,
           \A e \in told' \ crossed' : Dropped(e)'
    PROVE  DraftsInv'
<1>1. Rows' \subseteq Id
  BY RowsTyped DEF DraftsInv
<1>2. OneHolder'
  BY DEF DraftsInv, OneHolder
<1>3. \A e \in Rows : Held(e)' => Held(e)
  BY DEF Held, Holding
<1>4. OneTaken'
  BY <1>3 DEF DraftsInv, OneTaken, Taken
<1>5. \A q \in Actor : Pledged(q)'
  <2> SUFFICES ASSUME NEW q \in Actor, Holding(q)' PROVE Pledged(q)'
    BY DEF Pledged
  <2>1. work'[q] = work[q] /\ Holding(q) /\ Pledged(q) /\ work[q].draft \in Rows
    BY HeldRow DEF DraftsInv
  <2> QED
    BY <2>1 DEF Pledged, Sending
<1>6. (\A e \in Id : Counted(e)') /\ OneReported'
  <2>1. \A q \in Actor : work[q].pc = "accepted" => work'[q] = work[q]
    BY DEF Holding
  <2> QED
    BY <1>1, <2>1, Quiet
<1>7. SentIsRecorded'
  <2>1. \A e \in Rows' : drafts'[e].status = "sent" => drafts'[e].thread \in replied'
    OBVIOUS
  <2>2. \A t \in replied' : \E e \in Rows' : drafts'[e].thread = t /\ gmail'[e] > doubt'[e]
    BY DEF DraftsInv, SentIsRecorded
  <2> QED
    BY <2>1, <2>2 DEF SentIsRecorded
<1> QED
  BY <1>2, <1>4, <1>5, <1>6, <1>7 DEF DraftsInv

LEMMA ApproveFailsInv ==
    ASSUME DraftsInv, NEW p \in Actor, ApproveFails(p)
    PROVE  DraftsInv'
<1>1. Finish(p) /\ ~Holding(p)
      /\ UNCHANGED <<drafts, replied, gmail, faults, doubt, told, crossed>>
  BY DEF ApproveFails, Reading, Holding, outcome, decisions
<1>2. work' \in [Actor -> Work] /\ work'[p] = Rest /\ \A q \in Actor \ {p} : work'[q] = work[q]
  BY <1>1, FinishWrites DEF DraftsInv
<1>3. Local(p) /\ Rows' = Rows
  BY <1>1, <1>2 DEF Local, Rows
<1>4. (\A q \in Actor : Engaged(q)') /\ ~Holding(p)' /\ Room'
      /\ \A e \in Rows : Held(e)' => Held(e)
  BY <1>1, <1>2, <1>3, Freed
<1>5. DraftsTypeOK'
  BY <1>1, <1>2 DEF DraftsInv, DraftsTypeOK
<1>6. \A q \in Actor : /\ Holding(q) => work'[q] = work[q]
                       /\ Holding(q)' => Holding(q)
  BY <1>1, <1>2, <1>4 DEF Holding
<1>7. \A e \in told' \ crossed' : Dropped(e)'
  BY <1>1, <1>3, <1>4 DEF DraftsInv, Dropped, Reported
<1> QED
  BY <1>1, <1>3, <1>4, <1>5, <1>6, <1>7, Undisturbed DEF Active, DraftsInv, SentIsRecorded

LEMMA UpdateCommitsInv ==
    ASSUME DraftsInv, NEW p \in Actor, UpdateCommits(p)
    PROVE  DraftsInv'
<1> DEFINE d == work[p].draft
           n == work[p].revision + 1
<1>1. Finish(p) /\ ~Holding(p) /\ drafts' = [drafts EXCEPT ![d].revision = n]
      /\ UNCHANGED <<replied, gmail, faults, doubt, told, crossed>>
  BY DEF UpdateCommits, Reading, Holding, outcome, decisions
<1>2. work' \in [Actor -> Work] /\ work'[p] = Rest /\ \A q \in Actor \ {p} : work'[q] = work[q]
  BY <1>1, FinishWrites DEF DraftsInv
<1>3. d \in Rows /\ n \in 0..MaxRevisions
  BY DraftsAssumption DEF DraftsInv, DraftsTypeOK, Engaged, UpdateCommits, Reading, Work
<1>4. /\ drafts' \in Seq(Draft) /\ Len(drafts') = Len(drafts) /\ Rows' = Rows
      /\ \A e \in Rows : /\ drafts'[e].thread = drafts[e].thread
                         /\ drafts'[e].status = drafts[e].status
  <2> HIDE DEF d, n
  <2>1. drafts \in [1..Len(drafts) -> Draft] /\ Len(drafts) \in Nat /\ d \in 1..Len(drafts)
    BY <1>3, RowsTyped DEF DraftsInv, DraftsTypeOK, Rows
  <2>2. [drafts[d] EXCEPT !.revision = n] \in Draft
    BY <1>3, <2>1 DEF Draft
  <2>3. drafts' \in [1..Len(drafts) -> Draft]
    BY <1>1, <2>1, <2>2
  <2>4. drafts' \in Seq(Draft) /\ Len(drafts') = Len(drafts)
    BY <2>1, <2>3
  <2> QED
    BY <1>1, <2>1, <2>3, <2>4 DEF Rows, Draft
<1>5. Local(p)
  BY <1>2, <1>4 DEF Local
<1>6. (\A q \in Actor : Engaged(q)') /\ ~Holding(p)' /\ Room'
      /\ \A e \in Rows : Held(e)' => Held(e)
  BY <1>2, <1>4, <1>5, Freed
<1>7. DraftsTypeOK'
  BY <1>1, <1>2, <1>4 DEF DraftsInv, DraftsTypeOK
<1>8. \A q \in Actor : /\ Holding(q) => work'[q] = work[q]
                       /\ Holding(q)' => Holding(q)
  BY <1>1, <1>2, <1>6 DEF Holding
<1>9. \A e \in told' \ crossed' : Dropped(e)'
  BY <1>1, <1>4, <1>6 DEF DraftsInv, Dropped, Reported
<1>10. \A e \in Rows : drafts[e].status = "sent" => drafts[e].thread \in replied
  BY DEF DraftsInv, SentIsRecorded
<1>11. \A e \in Rows : Active(e)' => Active(e)
  BY <1>4 DEF Active
<1> QED
  BY <1>1, <1>4, <1>6, <1>7, <1>8, <1>9, <1>10, <1>11, Undisturbed

LEMMA AbandonCommitsInv ==
    ASSUME DraftsInv, NEW p \in Actor, AbandonCommits(p)
    PROVE  DraftsInv'
<1>1. PICK d \in Rows : d = work[p].draft
  BY DEF DraftsInv, Engaged, AbandonCommits, Reading
<1>2. Finish(p) /\ ~Holding(p) /\ Status(d, "abandoned") /\ ~Held(d)
      /\ told' = told \cup {d} /\ Crosses(p, d)
      /\ UNCHANGED <<replied, gmail, faults, doubt>>
  BY <1>1 DEF AbandonCommits, Reading, Holding, outcome
<1>3. /\ drafts' \in Seq(Draft) /\ Len(drafts') = Len(drafts) /\ Rows' = Rows
      /\ \A e \in Rows : /\ drafts'[e].thread = drafts[e].thread
                         /\ drafts'[e].status = IF e = d THEN "abandoned" ELSE drafts[e].status
  BY <1>2, StatusWrites DEF DraftsInv
<1>4. work' \in [Actor -> Work] /\ work'[p] = Rest /\ \A q \in Actor \ {p} : work'[q] = work[q]
  BY <1>2, FinishWrites DEF DraftsInv
<1>5. Local(p)
  BY <1>3, <1>4 DEF Local
<1>6. (\A q \in Actor : Engaged(q)') /\ ~Holding(p)' /\ Room'
      /\ \A e \in Rows : Held(e)' => Held(e)
  BY <1>3, <1>4, <1>5, Freed
<1>7. d \in Id /\ crossed' = IF drafts[d].status # "pending" THEN crossed \cup {d} ELSE crossed
  BY <1>1, <1>2, RowsTyped DEF DraftsInv, Crosses, Engaged
<1>8. DraftsTypeOK'
  BY <1>2, <1>3, <1>4, <1>7 DEF DraftsInv, DraftsTypeOK
<1>9. \A q \in Actor : /\ Holding(q) => work'[q] = work[q]
                       /\ Holding(q)' => Holding(q)
  BY <1>2, <1>4, <1>6 DEF Holding
<1>10. drafts[d].status = "pending" => ~Reported(d)
  BY <1>2, <1>7 DEF DraftsInv, Counted, Held
<1>11. \A e \in told' \ crossed' : Dropped(e)'
  <2> SUFFICES ASSUME NEW e \in told' \ crossed' PROVE Dropped(e)'
    OBVIOUS
  <2>1. CASE e = d
    BY <1>2, <1>3, <1>6, <1>7, <1>10, <2>1 DEF Dropped, Reported
  <2>2. CASE e # d
    BY <1>2, <1>3, <1>6, <1>7, <2>2 DEF DraftsInv, Dropped, Reported
  <2> QED
    BY <2>1, <2>2
<1>12. \A e \in Rows : Active(e)' => Active(e)
  BY <1>3 DEF Active
<1>13. \A e \in Rows : drafts[e].status = "sent" => drafts[e].thread \in replied
  BY DEF DraftsInv, SentIsRecorded
<1> QED
  BY <1>2, <1>3, <1>6, <1>8, <1>9, <1>11, <1>12, <1>13, Undisturbed

(* A thread that has its reply: the draft is taken for sent. *)
LEMMA AlreadySentInv ==
    ASSUME DraftsInv, NEW p \in Actor, ApproveLocks(p),
           drafts[work[p].draft].thread \in replied
    PROVE  DraftsInv'
<1>1. PICK d \in Rows : d = work[p].draft
  BY DEF DraftsInv, Engaged, ApproveLocks, Reading
<1>2. Finish(p) /\ ~Holding(p) /\ Status(d, "sent") /\ ~Held(d)
      /\ told' = told /\ Crosses(p, d) /\ drafts[d].thread \in replied
      /\ UNCHANGED <<replied, gmail, faults, doubt>>
      /\ (Active(d) \/ Rivals(drafts[d].thread, d) = {})
  BY <1>1 DEF ApproveLocks, Reading, Holding, outcome
<1>3. /\ drafts' \in Seq(Draft) /\ Len(drafts') = Len(drafts) /\ Rows' = Rows
      /\ \A e \in Rows : /\ drafts'[e].thread = drafts[e].thread
                         /\ drafts'[e].status = IF e = d THEN "sent" ELSE drafts[e].status
  BY <1>2, StatusWrites DEF DraftsInv
<1>4. work' \in [Actor -> Work] /\ work'[p] = Rest /\ \A q \in Actor \ {p} : work'[q] = work[q]
  BY <1>2, FinishWrites DEF DraftsInv
<1>5. Local(p)
  BY <1>3, <1>4 DEF Local
<1>6. (\A q \in Actor : Engaged(q)') /\ ~Holding(p)' /\ Room'
      /\ \A e \in Rows : Held(e)' => Held(e)
  BY <1>3, <1>4, <1>5, Freed
<1>7. d \in Id /\ crossed' = IF drafts[d].status # "pending" THEN crossed \cup {d} ELSE crossed
  BY <1>1, <1>2, RowsTyped DEF DraftsInv, Crosses, Engaged
<1>8. DraftsTypeOK'
  BY <1>2, <1>3, <1>4, <1>7 DEF DraftsInv, DraftsTypeOK
<1>9. \A q \in Actor : /\ Holding(q) => work'[q] = work[q]
                       /\ Holding(q)' => Holding(q)
  BY <1>2, <1>4, <1>6 DEF Holding
<1>10. \A e \in told' \ crossed' : Dropped(e)'
  <2> SUFFICES ASSUME NEW e \in told' \ crossed' PROVE Dropped(e)'
    OBVIOUS
  <2>1. e \in told \ crossed /\ e # d /\ Dropped(e)
    BY <1>2, <1>7 DEF DraftsInv, Dropped
  <2> QED
    BY <1>2, <1>3, <1>6, <2>1 DEF Dropped, Reported
<1>11. \A e \in Rows : Active(e)' => Active(e)
  BY <1>3 DEF Active
<1>12. \A e \in Rows : drafts'[e].status = "sent" => drafts[e].thread \in replied
  BY <1>2, <1>3 DEF DraftsInv, SentIsRecorded
<1> QED
  BY <1>2, <1>3, <1>6, <1>8, <1>9, <1>10, <1>11, <1>12, Undisturbed

(* The row is locked, and the reply about to be sent. *)
LEMMA LocksInv ==
    ASSUME DraftsInv, NEW p \in Actor, ApproveLocks(p),
           drafts[work[p].draft].thread \notin replied
    PROVE  DraftsInv'
<1>1. PICK d \in Rows : d = work[p].draft
  BY DEF DraftsInv, Engaged, ApproveLocks, Reading
<1>2. work[p].op = "approve" /\ ~Holding(p) /\ ~Held(d)
      /\ work' = [work EXCEPT ![p].pc = "sending"] /\ Crosses(p, d)
      /\ drafts[d].thread \notin replied
      /\ UNCHANGED <<drafts, replied, gmail, faults, doubt, told>>
      /\ (Active(d) \/ Rivals(drafts[d].thread, d) = {})
  BY <1>1 DEF ApproveLocks, Reading, Holding, outcome
<1>3. /\ work' \in [Actor -> Work] /\ \A q \in Actor \ {p} : work'[q] = work[q]
      /\ work'[p].pc = "sending" /\ work'[p].op = work[p].op
      /\ work'[p].draft = d /\ work'[p].seen = work[p].seen
      /\ work'[p].thread = work[p].thread /\ work'[p].revision = work[p].revision
  <2>1. work \in [Actor -> Work] /\ work'[p] = [work[p] EXCEPT !.pc = "sending"]
    BY <1>2 DEF DraftsInv, DraftsTypeOK
  <2>2. work'[p] \in Work
    BY <2>1 DEF Work
  <2> QED
    BY <1>1, <1>2, <2>1, <2>2 DEF Work
<1>4. Local(p) /\ Rows' = Rows /\ Rows' \subseteq Id
  BY <1>2, <1>3, RowsTyped DEF Local, DraftsInv, Rows
<1>5. d \in Id /\ crossed' = IF drafts[d].status # "pending" THEN crossed \cup {d} ELSE crossed
  BY <1>1, <1>2, <1>4, RowsTyped DEF DraftsInv, Crosses, Engaged
<1>6. DraftsTypeOK'
  BY <1>2, <1>3, <1>5 DEF DraftsInv, DraftsTypeOK
<1>7. \A q \in Actor : Engaged(q)'
  <2>1. Engaged(p)'
    BY <1>1, <1>2, <1>3, <1>4 DEF DraftsInv, Engaged, Resting, Holding
  <2> QED
    BY <1>4, <2>1, EngagedKept
<1>8. Room'
  BY <1>2, <1>3, RoomKept DEF Creators
<1>9. \A q \in Actor \ {p} : Holding(q) => work[q].draft # d
  BY <1>2 DEF Held, Holding
<1>10. OneHolder'
  BY <1>2, <1>3, <1>9 DEF DraftsInv, OneHolder, Holding
<1>11. \A e \in Rows : Held(e)' => Held(e) \/ e = d
  BY <1>3 DEF Held
<1>12. OneTaken'
  <2>1. \A e \in Rows : e # d /\ drafts[e].thread = drafts[d].thread => ~Taken(e)
    BY <1>2 DEF DraftsInv, OneTaken, Taken, Rivals
  <2>2. \A e \in Rows : Taken(e)' => Taken(e) \/ e = d
    BY <1>2, <1>11 DEF Taken, Active
  <2> QED
    BY <1>2, <1>4, <2>1, <2>2 DEF DraftsInv, OneTaken
<1>13. ~Reported(d) /\ gmail[d] = doubt[d]
  <2>1. Counted(d) /\ ~\E q \in Actor : work[q].pc = "accepted" /\ work[q].draft = d
    BY <1>2, <1>5 DEF DraftsInv, Held
  <2>2. gmail[d] \in Nat /\ doubt[d] \in Nat
    BY <1>5 DEF DraftsInv, DraftsTypeOK
  <2> QED
    BY <1>2, <2>1, <2>2 DEF Counted, Reported
<1>14. \A q \in Actor : Pledged(q)'
  <2>1. Pledged(p)'
    BY <1>2, <1>3, <1>13 DEF Pledged, Sending
  <2>2. \A q \in Actor \ {p} : Holding(q) => drafts[work[q].draft].thread \notin replied'
    BY <1>2, HeldRow
  <2> QED
    BY <1>2, <1>4, <2>1, <2>2, PledgedKept
<1>15. (\A e \in Id : Counted(e)') /\ OneReported'
  <2>1. \A q \in Actor : work[q].pc = "accepted" => work'[q] = work[q]
    BY <1>2, <1>3 DEF Holding
  <2> QED
    BY <1>2, <1>4, <2>1, Quiet DEF Local
<1>16. SentIsRecorded'
  BY <1>2, <1>4 DEF DraftsInv, SentIsRecorded
<1>17. \A e \in told' \ crossed' : Dropped(e)'
  <2> SUFFICES ASSUME NEW e \in told' \ crossed' PROVE Dropped(e)'
    OBVIOUS
  <2>1. e \in told \ crossed /\ e # d /\ Dropped(e)
    BY <1>2, <1>5 DEF DraftsInv, Dropped
  <2> QED
    BY <1>2, <1>4, <1>11, <2>1 DEF Dropped, Reported
<1> QED
  BY <1>6, <1>7, <1>8, <1>10, <1>12, <1>14, <1>15, <1>16, <1>17 DEF DraftsInv

LEMMA ApproveLocksInv ==
    ASSUME DraftsInv, NEW p \in Actor, ApproveLocks(p)
    PROVE  DraftsInv'
BY AlreadySentInv, LocksInv

-----------------------------------------------------------------------------
(* The clock and the sweep.                                                *)

LEMMA ExpireInv ==
    ASSUME DraftsInv, NEW d \in Rows, Expire(d)
    PROVE  DraftsInv'
<1>1. drafts' = [drafts EXCEPT ![d].late = TRUE]
      /\ UNCHANGED <<replied, work, gmail, faults, doubt, told, crossed>>
  BY DEF Expire, outcome, decisions
<1>2. /\ drafts' \in Seq(Draft) /\ Len(drafts') = Len(drafts) /\ Rows' = Rows
      /\ \A e \in Rows : /\ drafts'[e].thread = drafts[e].thread
                         /\ drafts'[e].status = drafts[e].status
  <2>1. drafts \in [1..Len(drafts) -> Draft] /\ Len(drafts) \in Nat /\ d \in 1..Len(drafts)
    BY RowsTyped DEF DraftsInv, DraftsTypeOK, Rows
  <2>2. [drafts[d] EXCEPT !.late = TRUE] \in Draft
    BY <2>1 DEF Draft
  <2>3. drafts' \in [1..Len(drafts) -> Draft]
    BY <1>1, <2>1, <2>2
  <2>4. drafts' \in Seq(Draft) /\ Len(drafts') = Len(drafts)
    BY <2>1, <2>3
  <2> QED
    BY <1>1, <2>1, <2>3, <2>4 DEF Rows, Draft
<1>3. DraftsTypeOK'
  BY <1>1, <1>2 DEF DraftsInv, DraftsTypeOK
<1>4. (\A q \in Actor : Engaged(q)') /\ Room'
  BY <1>1, <1>2 DEF DraftsInv, Engaged, Resting, Holding, Room, Creators
<1>5. \A q \in Actor : (Holding(q) => work'[q] = work[q]) /\ (Holding(q)' => Holding(q))
  BY <1>1 DEF Holding
<1>6. \A e \in told' \ crossed' : Dropped(e)'
  BY <1>1, <1>2 DEF DraftsInv, Dropped, Reported, Held
<1>7. \A e \in Rows : drafts[e].status = "sent" => drafts[e].thread \in replied
  BY DEF DraftsInv, SentIsRecorded
<1>8. \A e \in Rows : Active(e)' => Active(e)
  BY <1>2 DEF Active
<1> QED
  BY <1>1, <1>2, <1>3, <1>4, <1>5, <1>6, <1>7, <1>8, Undisturbed

LEMMA SweepInv ==
    ASSUME DraftsInv, Sweep
    PROVE  DraftsInv'
<1>1. drafts' = [d \in Rows |-> IF d \in Overdue
                                THEN [drafts[d] EXCEPT !.status = "abandoned"] ELSE drafts[d]]
      /\ UNCHANGED <<replied, work, gmail, faults, doubt, told, crossed>>
  BY DEF Sweep, outcome, decisions
<1>2. /\ drafts' \in Seq(Draft) /\ Len(drafts') = Len(drafts) /\ Rows' = Rows
      /\ \A e \in Rows : /\ drafts'[e].thread = drafts[e].thread
                         /\ drafts'[e].status = IF e \in Overdue THEN "abandoned"
                                                ELSE drafts[e].status
  <2> DEFINE n == Len(drafts)
  <2>1. Rows = 1..n /\ n \in Nat /\ \A e \in Rows : drafts[e] \in Draft
    BY RowsTyped DEF DraftsInv
  <2>2. \A e \in Rows : [drafts[e] EXCEPT !.status = "abandoned"] \in Draft
    BY <2>1 DEF Draft
  <2>3. drafts' \in [1..n -> Draft]
    BY <1>1, <2>1, <2>2
  <2>4. drafts' \in Seq(Draft) /\ Len(drafts') = n
    BY <2>1, <2>3
  <2>5. Rows' = Rows
    BY <2>1, <2>3 DEF Rows
  <2>6. \A e \in Rows : /\ drafts'[e].thread = drafts[e].thread
                        /\ drafts'[e].status = IF e \in Overdue THEN "abandoned"
                                               ELSE drafts[e].status
    BY <1>1, <2>1 DEF Draft
  <2> QED
    BY <2>4, <2>5, <2>6
<1>3. DraftsTypeOK'
  BY <1>1, <1>2 DEF DraftsInv, DraftsTypeOK
<1>4. (\A q \in Actor : Engaged(q)') /\ Room'
  BY <1>1, <1>2 DEF DraftsInv, Engaged, Resting, Holding, Room, Creators
<1>5. \A q \in Actor : (Holding(q) => work'[q] = work[q]) /\ (Holding(q)' => Holding(q))
  BY <1>1 DEF Holding
<1>6. \A e \in told' \ crossed' : Dropped(e)'
  <2> SUFFICES ASSUME NEW e \in told \ crossed PROVE Dropped(e)'
    BY <1>1
  <2>1. Dropped(e) /\ e \in Rows
    BY DEF DraftsInv, Dropped
  <2>2. drafts'[e].status # "pending"
    BY <1>2, <2>1 DEF Dropped
  <2>3. ~Held(e)' /\ ~Reported(e)'
    BY <1>1, <2>1 DEF Dropped, Held, Reported
  <2> QED
    BY <1>2, <2>1, <2>2, <2>3 DEF Dropped
<1>7. \A e \in Rows : drafts'[e].status = "sent" => drafts[e].thread \in replied
  BY <1>2 DEF DraftsInv, SentIsRecorded
<1>8. \A e \in Rows : (Active(e)' => Active(e))
                      /\ (drafts'[e].status = "pending" => drafts[e].status = "pending")
  BY <1>2 DEF Active
<1> QED
  BY <1>1, <1>2, <1>3, <1>4, <1>5, <1>6, <1>7, <1>8, Undisturbed

-----------------------------------------------------------------------------
(* The start of a transaction.                                             *)

LEMMA StartInv ==
    ASSUME DraftsInv, NEW p \in Actor, NEW w \in Work, Start(p, w),
           w.op \in {"create", "update", "approve", "abandon"}, w.seen = "pending",
           w.op # "create" => w.draft \in Rows,
           w.op = "update" => w.revision < MaxRevisions,
           w.op = "create" => \/ w.draft = 0
                              \/ w.draft \in Rows /\ drafts[w.draft].thread = w.thread,
           w.op = "create" => Len(drafts) + Cardinality(Creators) < MaxDrafts
    PROVE  DraftsInv'
<1>1. /\ work[p].pc = "idle" /\ work' = [work EXCEPT ![p] = [w EXCEPT !.pc = "read"]]
      /\ UNCHANGED <<drafts, replied, gmail, faults, doubt, told, crossed>>
  BY DEF Start, Resting, outcome, decisions
<1>2. /\ work' \in [Actor -> Work] /\ \A q \in Actor \ {p} : work'[q] = work[q]
      /\ work'[p].pc = "read" /\ work'[p].op = w.op /\ work'[p].draft = w.draft
      /\ work'[p].seen = w.seen /\ work'[p].thread = w.thread
      /\ work'[p].revision = w.revision
  <2>1. work \in [Actor -> Work] /\ work'[p] = [w EXCEPT !.pc = "read"]
    BY <1>1 DEF DraftsInv, DraftsTypeOK
  <2>2. work'[p] \in Work
    BY <2>1 DEF Work
  <2> QED
    BY <1>1, <2>1, <2>2 DEF Work
<1>3. Local(p) /\ Rows' = Rows
  BY <1>1, <1>2 DEF Local, Rows
<1>4. ~Holding(p) /\ ~Holding(p)' /\ work[p].op = "none"
  BY <1>1, <1>2 DEF Holding, DraftsInv, Engaged, Resting
<1>5. DraftsTypeOK'
  BY <1>1, <1>2 DEF DraftsInv, DraftsTypeOK
<1>6. \A q \in Actor : Engaged(q)'
  <2>1. Engaged(p)'
    BY <1>1, <1>2, <1>3, <1>4 DEF Engaged, Resting, Holding
  <2> QED
    BY <1>3, <2>1, EngagedKept
<1>7. Room'
  <2>1. CASE w.op = "create"
    <3>1. Creators' = Creators \cup {p} /\ p \notin Creators
      BY <1>2, <1>4, <2>1 DEF Creators
    <3>2. IsFiniteSet(Creators)
      BY DraftsAssumption, FS_Subset DEF Creators
    <3>3. Cardinality(Creators \cup {p}) = Cardinality(Creators) + 1
          /\ Cardinality(Creators) \in Nat
      BY <3>1, <3>2, FS_AddElement, FS_CardinalityType
    <3>4. Len(drafts) \in Nat /\ Len(drafts') = Len(drafts)
      BY <1>1, RowsTyped DEF DraftsInv
    <3> QED
      BY <2>1, <3>1, <3>3, <3>4, DraftsAssumption DEF Room
  <2>2. CASE w.op # "create"
    <3>1. Creators' \subseteq Creators
      BY <1>2, <2>2 DEF Creators
    <3> QED
      BY <1>1, <3>1, RoomKept
  <2> QED
    BY <2>1, <2>2
<1>8. \A q \in Actor : (Holding(q) => work'[q] = work[q]) /\ (Holding(q)' => Holding(q))
  BY <1>2, <1>4 DEF Holding
<1>9. \A e \in told' \ crossed' : Dropped(e)'
  <2>1. \A e \in Rows : Held(e)' => Held(e)
    BY <1>2, <1>4 DEF Held, Holding
  <2> QED
    BY <1>1, <1>3, <2>1 DEF DraftsInv, Dropped, Reported
<1>10. \A e \in Rows : drafts[e].status = "sent" => drafts[e].thread \in replied
  BY DEF DraftsInv, SentIsRecorded
<1>11. \A e \in Rows : Active(e)' => Active(e)
  BY <1>1 DEF Active
<1> QED
  BY <1>1, <1>3, <1>5, <1>6, <1>7, <1>8, <1>9, <1>10, <1>11, Undisturbed

(* The active draft of a thread is one of its rows. *)
LEMMA ActiveDraftIsRow ==
    ASSUME DraftsTypeOK, NEW t
    PROVE  \/ ActiveDraft(t) = 0
           \/ ActiveDraft(t) \in Rows /\ drafts[ActiveDraft(t)].thread = t
<1> DEFINE S == {d \in Rows : drafts[d].thread = t /\ Active(d)}
<1>1. S \in SUBSET Nat /\ IsFiniteSet(S)
  BY RowsTyped, FS_Subset
<1>2. S # {} => Max(S) \in S
  <2> HIDE DEF S
  <2> QED
    BY <1>1, MaxIsIn
<1>3. ActiveDraft(t) = IF S = {} THEN 0 ELSE Max(S)
  BY DEF ActiveDraft
<1> QED
  BY <1>2, <1>3

LEMMA BeginsInv ==
    ASSUME DraftsInv, NEW p \in Actor,
           \/ \E t \in Thread : CreateBegins(p, t)
           \/ \E d \in Rows : UpdateBegins(p, d) \/ ApproveBegins(p, d) \/ AbandonBegins(p, d)
    PROVE  DraftsInv'
<1>0. /\ Rest \in Work /\ Rest.op = "none" /\ Rest.pc = "idle" /\ Rest.draft = 0
      /\ Rest.seen = "pending"
  BY RestTyped
<1>1. ASSUME NEW t \in Thread, CreateBegins(p, t) PROVE DraftsInv'
  <2> DEFINE w == [Rest EXCEPT !.op = "create", !.thread = t, !.draft = ActiveDraft(t)]
  <2>1. Start(p, w) /\ Len(drafts) + Cardinality(Creators) < MaxDrafts
    BY <1>1 DEF CreateBegins, Creators
  <2>2. ActiveDraft(t) = 0 \/ (ActiveDraft(t) \in Rows /\ drafts[ActiveDraft(t)].thread = t)
    BY ActiveDraftIsRow DEF DraftsInv
  <2>3. ActiveDraft(t) \in 0..MaxDrafts
    BY <2>2, RowsTyped, DraftsAssumption DEF DraftsInv, Id
  <2>4. w \in Work /\ w.op = "create" /\ w.seen = "pending" /\ w.draft = ActiveDraft(t)
        /\ w.thread = t
    BY <1>0, <2>3 DEF Work
  <2> HIDE DEF w
  <2> QED
    BY <2>1, <2>2, <2>4, StartInv
<1>2. ASSUME NEW d \in Rows, UpdateBegins(p, d) PROVE DraftsInv'
  <2> DEFINE w == [Rest EXCEPT !.op = "update", !.draft = d, !.revision = drafts[d].revision]
  <2>1. Start(p, w) /\ drafts[d].revision < MaxRevisions
    BY <1>2 DEF UpdateBegins
  <2>2. d \in 0..MaxDrafts /\ drafts[d].revision \in 0..MaxRevisions
    <3>1. d \in Id /\ drafts[d] \in Draft
      BY RowsTyped DEF DraftsInv
    <3> QED
      BY <3>1, DraftsAssumption DEF Id, Draft
  <2>3. w \in Work /\ w.op = "update" /\ w.seen = "pending" /\ w.draft = d
        /\ w.revision = drafts[d].revision
    BY <1>0, <2>2 DEF Work
  <2> HIDE DEF w
  <2> QED
    BY <2>1, <2>3, StartInv
<1>3. ASSUME NEW d \in Rows, ApproveBegins(p, d) PROVE DraftsInv'
  <2> DEFINE w == [Rest EXCEPT !.op = "approve", !.draft = d]
  <2>1. Start(p, w) /\ d \in 0..MaxDrafts
    <3>1. d \in Id
      BY RowsTyped DEF DraftsInv
    <3>2. d \in 0..MaxDrafts
      BY <3>1, DraftsAssumption DEF Id
    <3> QED
      BY <1>3, <3>1, <3>2 DEF ApproveBegins
  <2>2. w \in Work /\ w.op = "approve" /\ w.seen = "pending" /\ w.draft = d
    BY <1>0, <2>1 DEF Work
  <2> HIDE DEF w
  <2> QED
    BY <2>1, <2>2, StartInv
<1>4. ASSUME NEW d \in Rows, AbandonBegins(p, d) PROVE DraftsInv'
  <2> DEFINE w == [Rest EXCEPT !.op = "abandon", !.draft = d]
  <2>1. Start(p, w) /\ d \in 0..MaxDrafts
    <3>1. d \in Id
      BY RowsTyped DEF DraftsInv
    <3>2. d \in 0..MaxDrafts
      BY <3>1, DraftsAssumption DEF Id
    <3> QED
      BY <1>4, <3>1, <3>2 DEF AbandonBegins
  <2>2. w \in Work /\ w.op = "abandon" /\ w.seen = "pending" /\ w.draft = d
    BY <1>0, <2>1 DEF Work
  <2> HIDE DEF w
  <2> QED
    BY <2>1, <2>2, StartInv
<1> QED
  BY <1>1, <1>2, <1>3, <1>4

-----------------------------------------------------------------------------
(* The insertion of a row.                                                 *)

(* A rival is in the way: nothing is written. *)
LEMMA CreateFailsInv ==
    ASSUME DraftsInv, NEW p \in Actor, CreateCommits(p),
           Rivals(work[p].thread, work[p].draft) # {}
    PROVE  DraftsInv'
<1>1. Finish(p) /\ ~Holding(p)
      /\ UNCHANGED <<drafts, replied, gmail, faults, doubt, told, crossed>>
  BY DEF CreateCommits, Reading, Holding, outcome
<1>2. work' \in [Actor -> Work] /\ work'[p] = Rest /\ \A q \in Actor \ {p} : work'[q] = work[q]
  BY <1>1, FinishWrites DEF DraftsInv
<1>3. Local(p) /\ Rows' = Rows
  BY <1>1, <1>2 DEF Local, Rows
<1>4. (\A q \in Actor : Engaged(q)') /\ ~Holding(p)' /\ Room'
      /\ \A e \in Rows : Held(e)' => Held(e)
  BY <1>1, <1>2, <1>3, Freed
<1>5. DraftsTypeOK'
  BY <1>1, <1>2 DEF DraftsInv, DraftsTypeOK
<1>6. \A q \in Actor : /\ Holding(q) => work'[q] = work[q]
                       /\ Holding(q)' => Holding(q)
  BY <1>1, <1>2, <1>4 DEF Holding
<1>7. \A e \in told' \ crossed' : Dropped(e)'
  BY <1>1, <1>3, <1>4 DEF DraftsInv, Dropped, Reported
<1> QED
  BY <1>1, <1>3, <1>4, <1>5, <1>6, <1>7, Undisturbed DEF Active, DraftsInv, SentIsRecorded

(* The old row is abandoned and the new one becomes the thread's. *)
LEMMA CreatedInv ==
    ASSUME DraftsInv, NEW p \in Actor, CreateCommits(p),
           Rivals(work[p].thread, work[p].draft) = {}
    PROVE  DraftsInv'
<1>1. PICK t, old, n : t = work[p].thread /\ old = work[p].draft /\ n = Len(drafts)
  OBVIOUS
<1>2. /\ work[p].op = "create" /\ Finish(p) /\ ~Holding(p) /\ Crosses(p, old)
      /\ Rivals(t, old) = {} /\ \A e \in Rivals(t, 0) : ~Held(e)
      /\ UNCHANGED <<replied, gmail, faults, doubt, told>>
      /\ drafts' = Append([d \in Rows |-> IF d = old
                              THEN [drafts[d] EXCEPT !.status = "abandoned"]
                              ELSE drafts[d]],
                          [thread |-> t, status |-> "pending", revision |-> 0, late |-> FALSE])
  BY <1>1 DEF CreateCommits, Reading, Holding, outcome
<1>3. /\ n \in Nat /\ Rows = 1..n /\ t \in Thread
      /\ old = 0 \/ (old \in Rows /\ drafts[old].thread = t)
      /\ \A e \in Rows : drafts[e] \in Draft
  BY <1>1, <1>2, RowsTyped DEF DraftsInv, DraftsTypeOK, Work, Engaged
<1>4. /\ drafts' \in Seq(Draft) /\ Len(drafts') = n + 1 /\ Rows' = 1..(n + 1)
      /\ \A e \in Rows : drafts'[e].thread = drafts[e].thread
                         /\ drafts'[e].status = IF e = old THEN "abandoned" ELSE drafts[e].status
      /\ drafts'[n + 1].thread = t /\ drafts'[n + 1].status = "pending"
  <2>1. PICK f : f = [d \in Rows |-> IF d = old
                          THEN [drafts[d] EXCEPT !.status = "abandoned"] ELSE drafts[d]]
    OBVIOUS
  <2>2. PICK new : new = [thread |-> t, status |-> "pending", revision |-> 0, late |-> FALSE]
    OBVIOUS
  <2>3. new \in Draft /\ new.thread = t /\ new.status = "pending"
    BY <1>3, <2>2, DraftsAssumption DEF Draft
  <2>4. \A e \in Rows : [drafts[e] EXCEPT !.status = "abandoned"] \in Draft
    BY <1>3 DEF Draft
  <2>5. f \in [1..n -> Draft]
    BY <1>3, <2>1, <2>4
  <2>6. f \in Seq(Draft) /\ Len(f) = n
    BY <1>3, <2>5
  <2>7. drafts' = Append(f, new)
    BY <1>2, <2>1, <2>2
  <2>8. /\ drafts' \in Seq(Draft) /\ Len(drafts') = n + 1
        /\ \A e \in 1..n : drafts'[e] = f[e]
        /\ drafts'[n + 1] = new
    BY <2>3, <2>6, <2>7
  <2>9. Rows' = 1..(n + 1)
    BY <2>8 DEF Rows
  <2>10. \A e \in Rows : f[e].thread = drafts[e].thread
                         /\ f[e].status = IF e = old THEN "abandoned" ELSE drafts[e].status
    BY <1>3, <2>1 DEF Draft
  <2> QED
    BY <1>3, <2>3, <2>8, <2>9, <2>10
<1>5. work' \in [Actor -> Work] /\ work'[p] = Rest /\ \A q \in Actor \ {p} : work'[q] = work[q]
  BY <1>2, FinishWrites DEF DraftsInv
<1>6. Rows \subseteq Rows' /\ n + 1 \notin Rows /\ Rows' = Rows \cup {n + 1}
  BY <1>3, <1>4
<1>7. Local(p)
  BY <1>4, <1>5, <1>6 DEF Local
<1>8. n + 1 <= MaxDrafts /\ Room'
  <2>1. IsFiniteSet(Creators) /\ p \in Creators
    BY <1>2, DraftsAssumption, FS_Subset DEF Creators
  <2>2. Creators' = Creators \ {p}
    <3>1. Rest.op # "create"
      BY RestTyped
    <3> QED
      BY <1>5, <3>1 DEF Creators
  <2>3. Cardinality(Creators \ {p}) = Cardinality(Creators) - 1
        /\ Cardinality(Creators) \in Nat /\ Cardinality(Creators \ {p}) \in Nat
    BY <2>1, FS_RemoveElement, FS_CardinalityType
  <2>4. n + Cardinality(Creators) <= MaxDrafts
    BY <1>1 DEF DraftsInv, Room
  <2> QED
    BY <1>3, <1>4, <2>2, <2>3, <2>4, DraftsAssumption DEF Room
<1>9. Rows' \subseteq Id
  BY <1>3, <1>4, <1>8, DraftsAssumption DEF Id
<1>10. crossed' \subseteq Id /\ crossed \subseteq crossed'
  BY <1>2, <1>6, <1>9 DEF Crosses, DraftsInv, DraftsTypeOK
<1>11. DraftsTypeOK'
  BY <1>2, <1>4, <1>5, <1>8, <1>10 DEF DraftsInv, DraftsTypeOK
<1>12. (\A q \in Actor : Engaged(q)') /\ OneHolder' /\ ~Holding(p)'
       /\ \A e \in Rows : Held(e)' => Held(e)
  BY <1>5, <1>7, Freed
<1>13. ~Held(n + 1)'
  <2> SUFFICES ASSUME NEW q \in Actor, Holding(q)', work'[q].draft = n + 1 PROVE FALSE
    BY DEF Held, Holding
  <2>1. q # p
    BY <1>12
  <2>2. Holding(q) /\ work[q].draft = n + 1
    BY <1>5, <2>1 DEF Holding
  <2> QED
    BY <1>6, <2>2, HeldRow
<1>14. OneTaken'
  <2>1. \A e \in Rows : Taken(e)' => Taken(e) /\ e # old
    <3>1. old \in Rows => ~Held(old)'
      <4>1. old \in Rows /\ Held(old) => old \in Rivals(t, 0)
        BY <1>3 DEF Rivals
      <4> QED
        BY <1>2, <1>12, <4>1
    <3>2. \A e \in Rows : Active(e)' => Active(e) /\ e # old
      BY <1>4 DEF Active
    <3> QED
      BY <1>12, <3>1, <3>2 DEF Taken
  <2>2. \A e \in Rows : drafts[e].thread = t /\ Taken(e) => e = old
    BY <1>2 DEF Rivals, Taken
  <2> QED
    BY <1>4, <1>6, <2>1, <2>2 DEF DraftsInv, OneTaken
<1>15. \A q \in Actor : Pledged(q)'
  <2>1. \A q \in Actor \ {p} : Holding(q) => drafts[work[q].draft].thread \notin replied'
    BY <1>2, HeldRow
  <2>2. Pledged(p)'
    BY <1>12 DEF Pledged
  <2> QED
    BY <1>2, <1>7, <2>1, <2>2, PledgedKept
<1>16. (\A e \in Id : Counted(e)') /\ OneReported'
  <2>1. \A q \in Actor : work[q].pc = "accepted" => work'[q] = work[q]
    BY <1>2, <1>5 DEF Holding
  <2>2. \A e \in Rows : drafts[e].status # "pending" => drafts'[e].status # "pending"
    BY <1>4
  <2> QED
    BY <1>2, <1>4, <1>6, <1>9, <2>1, <2>2, Quiet
<1>17. SentIsRecorded'
  <2>1. \A e \in Rows' : drafts'[e].status = "sent" => drafts'[e].thread \in replied'
    BY <1>2, <1>4, <1>6 DEF DraftsInv, SentIsRecorded
  <2>2. \A s \in replied' : \E e \in Rows' : drafts'[e].thread = s /\ gmail'[e] > doubt'[e]
    BY <1>2, <1>4, <1>6 DEF DraftsInv, SentIsRecorded
  <2> QED
    BY <2>1, <2>2 DEF SentIsRecorded
<1>18. \A e \in told' \ crossed' : Dropped(e)'
  <2> SUFFICES ASSUME NEW e \in told \ crossed PROVE Dropped(e)'
    BY <1>2, <1>10
  <2>1. Dropped(e) /\ e \in Rows
    BY DEF DraftsInv, Dropped
  <2>2. drafts'[e].status # "pending"
    BY <1>4, <2>1 DEF Dropped
  <2>3. ~Held(e)' /\ ~Reported(e)'
    BY <1>2, <1>12, <2>1 DEF Dropped, Reported
  <2> QED
    BY <1>6, <2>1, <2>2, <2>3 DEF Dropped
<1> QED
  BY <1>8, <1>11, <1>12, <1>14, <1>15, <1>16, <1>17, <1>18 DEF DraftsInv

-----------------------------------------------------------------------------
(* All steps of the drafts.                                                *)

LEMMA ProceedsInv ==
    ASSUME DraftsInv, NEW p \in Actor, Proceeds(p)
    PROVE  DraftsInv'
BY CreateFailsInv, CreatedInv, UpdateCommitsInv, AbandonCommitsInv, ApproveFailsInv,
   ApproveLocksInv, ApproveCommitsInv, ApproveDiesInv, GmailAcceptsInv, GmailRefusesInv,
   GmailAnswersLateInv, GmailRetriedInv DEF Proceeds

(* A step that leaves the drafts alone, and may count a fault. *)
LEMMA FaultInv ==
    ASSUME DraftsInv, faults' \in 0..MaxFaults,
           UNCHANGED <<drafts, replied, work, gmail, doubt, told, crossed>>
    PROVE  DraftsInv'
<1>1. DraftsTypeOK'
  BY DEF DraftsInv, DraftsTypeOK
<1>2. Rows' = Rows /\ (\A e : Held(e)' <=> Held(e)) /\ Creators' = Creators
  BY DEF Rows, Held, Creators
<1>3. (\A q \in Actor : Engaged(q)' /\ Pledged(q)') /\ Room' /\ OneHolder' /\ OneTaken'
  BY <1>2 DEF DraftsInv, Engaged, Pledged, Room, OneHolder, OneTaken, Taken, Active, Holding,
              Sending, Resting
<1>4. (\A e \in Id : Counted(e)') /\ OneReported' /\ SentIsRecorded'
  BY <1>2 DEF DraftsInv, Counted, OneReported, Reported, SentIsRecorded
<1>5. \A e \in told' \ crossed' : Dropped(e)'
  BY <1>2 DEF DraftsInv, Dropped, Reported
<1> QED
  BY <1>1, <1>3, <1>4, <1>5 DEF DraftsInv

LEMMA DraftsInitInv ==
    ASSUME DraftsInit
    PROVE  DraftsInv
<1>0. /\ Rest \in Work /\ Rest.op = "none" /\ Rest.pc = "idle" /\ Rest.draft = 0
      /\ Rest.seen = "pending"
  BY RestTyped
<1>1. drafts = <<>> /\ Len(drafts) = 0 /\ Rows = {} /\ drafts \in Seq(Draft)
  BY DEF DraftsInit, Rows
<1>2. work \in [Actor -> Work] /\ \A p \in Actor : work[p] = Rest
  BY <1>0 DEF DraftsInit
<1>3. DraftsTypeOK
  BY <1>1, <1>2, DraftsAssumption DEF DraftsInit, DraftsTypeOK
<1>4. \A p \in Actor : Engaged(p) /\ ~Holding(p) /\ Pledged(p)
  BY <1>0, <1>2 DEF Engaged, Holding, Resting, Pledged
<1>5. Room
  <2>1. Creators = {}
    BY <1>0, <1>2 DEF Creators
  <2> QED
    BY <1>1, <2>1, FS_EmptySet, DraftsAssumption DEF Room
<1>6. \A d \in Id : Counted(d)
  BY DEF DraftsInit, Counted, Reported
<1> QED
  BY <1>1, <1>3, <1>4, <1>5, <1>6
     DEF DraftsInv, DraftsInit, OneHolder, OneTaken, OneReported, SentIsRecorded

-----------------------------------------------------------------------------
(* The steps of a handler.                                                 *)

LEMMA AwayTyped == /\ Away \in Hook /\ Away.session = 0 /\ Away.lock = FALSE
                   /\ Away.answer = FALSE /\ Away.stage = "idle"
<1>1. NoMessage \in Message
  BY WebhookAssumption DEF NoMessage
<1> QED
  BY <1>1, WebhookAssumption DEF Away, Hook

(* Only h's record changes. *)
HookLocal(h) == hook' \in [Handler -> Hook] /\ \A g \in Handler \ {h} : hook'[g] = hook[g]

(* The requests under way, before and after a step of h. *)
LEMMA AnsweringWrites ==
    ASSUME HookInv, NEW h \in Handler, HookLocal(h)
    PROVE  /\ Cardinality(Answering) \in Nat /\ Cardinality(Answering') \in Nat
           /\ Cardinality(Answering') + One(hook[h].answer)
                  = Cardinality(Answering) + One(hook'[h].answer)
<1>1. IsFiniteSet(Handler)
  BY WebhookAssumption, DraftsAssumption, FS_Subset
<1>2. IsFiniteSet(Answering) /\ IsFiniteSet(Answering')
  BY <1>1, FS_Subset DEF Answering
<1>3. Cardinality(Answering) \in Nat /\ Cardinality(Answering') \in Nat
  BY <1>2, FS_CardinalityType
<1>4. /\ hook[h].answer \in BOOLEAN /\ hook'[h].answer \in BOOLEAN
      /\ \A g \in Handler \ {h} : hook'[g].answer = hook[g].answer
  BY DEF HookInv, HookTypeOK, HookLocal, Hook
<1>5. CASE hook'[h].answer = hook[h].answer
  <2>1. Answering' = Answering
    BY <1>4, <1>5 DEF Answering
  <2> QED
    BY <1>3, <1>5, <2>1
<1>6. CASE hook'[h].answer /\ ~hook[h].answer
  <2>1. Answering' = Answering \cup {h} /\ h \notin Answering
    BY <1>4, <1>6 DEF Answering
  <2>2. Cardinality(Answering') = Cardinality(Answering) + 1
    BY <1>2, <2>1, FS_AddElement
  <2> QED
    BY <1>3, <1>6, <2>2 DEF One
<1>7. CASE ~hook'[h].answer /\ hook[h].answer
  <2>1. Answering' = Answering \ {h} /\ h \in Answering
    BY <1>4, <1>7 DEF Answering
  <2>2. Cardinality(Answering') = Cardinality(Answering) - 1
    BY <1>2, <2>1, FS_RemoveElement
  <2> QED
    BY <1>3, <1>7, <2>2 DEF One
<1> QED
  BY <1>4, <1>5, <1>6, <1>7

(* h's part in the check-in does not change. *)
LEMMA CheckinKept ==
    ASSUME HookInv, NEW h \in Handler, HookLocal(h),
           hook'[h].lock = hook[h].lock, hook'[h].answer = hook[h].answer,
           UNCHANGED <<checkin, answers, raced>>
    PROVE  CheckinOK'
<1>1. \A g \in Handler : hook'[g].lock = hook[g].lock /\ hook'[g].answer = hook[g].answer
  BY DEF HookLocal
<1>2. Answering' = Answering /\ Due' = Due
  BY <1>1 DEF Answering, Due
<1> QED
  BY <1>1, <1>2 DEF HookInv, CheckinOK

(* h's transaction ends: a mark that was not committed has its cause, or its *)
(* answer is not given.                                                    *)
LEMMA CheckinFreed ==
    ASSUME HookInv, NEW h \in Handler, HookLocal(h), hook'[h].lock = FALSE,
           checkin = "answered" => checkin' = "answered",
           answers' \in Nat, raced' \in Nat,
           answers' + One(hook'[h].answer) + One(hook[h].lock /\ checkin' # "answered")
               + raced <= answers + One(hook[h].answer) + raced'
    PROVE  CheckinOK'
<1>1. \A g \in Handler : hook'[g].lock => hook'[g].answer
  BY DEF HookInv, CheckinOK, HookLocal
<1>2. Due <= Due' + One(hook[h].lock /\ checkin' # "answered") /\ Due \in Nat /\ Due' \in Nat
  <2>1. \A g \in Handler \ {h} : hook'[g].lock = hook[g].lock
    BY DEF HookLocal
  <2> QED
    BY <2>1 DEF Due, One
<1>3. /\ Cardinality(Answering) \in Nat /\ Cardinality(Answering') \in Nat
      /\ Cardinality(Answering') + One(hook[h].answer)
             = Cardinality(Answering) + One(hook'[h].answer)
  BY AnsweringWrites
<1>4. answers \in Nat /\ raced \in Nat /\ answers + Cardinality(Answering) <= raced + Due
  BY DEF HookInv, HookTypeOK, CheckinOK
<1>5. \A b : One(b) \in Nat
  BY DEF One
<1>6. answers' + Cardinality(Answering') <= raced' + Due'
  BY <1>2, <1>3, <1>4, <1>5
<1> QED
  BY <1>1, <1>6 DEF CheckinOK

(* h gives up before it answers. *)
LEMMA CheckinDropped ==
    ASSUME HookInv, NEW h \in Handler, HookLocal(h),
           hook'[h].lock = FALSE, hook'[h].answer = FALSE,
           UNCHANGED <<checkin, answers, raced>>
    PROVE  CheckinOK'
<1>1. answers \in Nat /\ raced \in Nat /\ (hook[h].lock => hook[h].answer)
  BY DEF HookInv, HookTypeOK, CheckinOK
<1>2. answers' + One(hook'[h].answer) + One(hook[h].lock /\ checkin' # "answered")
          + raced <= answers + One(hook[h].answer) + raced'
  BY <1>1 DEF One
<1> QED
  BY <1>1, <1>2, CheckinFreed

(* The conversations do not change, nor h's part in them. *)
LEMMA SessionsKept ==
    ASSUME HookInv, NEW h \in Handler, HookLocal(h),
           UNCHANGED <<mapping, sessions, purges, made>>,
           hook'[h].stage \notin {"heal", "agent", "map", "lost"}
    PROVE  (purges > 0 \/ SessionsOK)'
BY DEF HookInv, SessionsOK, HookLocal, At, Own

LEMMA ReceiveInv ==
    ASSUME HookInv, NEW h \in Handler, NEW m \in Message, Receive(h, m)
    PROVE  HookInv'
<1>1. /\ hook' = [hook EXCEPT ![h] = [Away EXCEPT !.msg = m, !.stage = "marked"]]
      /\ marks' = marks \cup {m}
      /\ UNCHANGED <<checkin, mapping, sessions, purges, made, answers, raced>>
  BY DEF Receive, store, history
<1>2. /\ HookLocal(h) /\ hook'[h].stage = "marked"
      /\ hook'[h].lock = FALSE /\ hook'[h].answer = FALSE
  <2>1. hook'[h] = [Away EXCEPT !.msg = m, !.stage = "marked"]
    BY <1>1 DEF HookInv, HookTypeOK
  <2>2. hook'[h] \in Hook
    BY <2>1, AwayTyped DEF Hook
  <2> QED
    BY <1>1, <2>1, <2>2, AwayTyped DEF HookInv, HookTypeOK, HookLocal, Hook
<1>3. HookTypeOK'
  BY <1>1, <1>2 DEF HookInv, HookTypeOK, HookLocal
<1>4. CheckinOK'
  BY <1>1, <1>2, CheckinDropped
<1> QED
  BY <1>1, <1>2, <1>3, <1>4, SessionsKept DEF HookInv

(* The stage changes, and nothing else. *)
LEMMA GoToWrites ==
    ASSUME HookInv, NEW h \in Handler,
           NEW s \in {"checkin", "resolve"}, GoTo(h, s)
    PROVE  /\ HookLocal(h) /\ hook'[h].stage = s /\ hook'[h].lock = hook[h].lock
           /\ hook'[h].session = hook[h].session /\ hook'[h].answer = hook[h].answer
<1>1. hook \in [Handler -> Hook] /\ hook'[h] = [hook[h] EXCEPT !.stage = s]
  BY DEF HookInv, HookTypeOK, GoTo
<1>2. hook'[h] \in Hook
  BY <1>1 DEF Hook
<1> QED
  BY <1>1, <1>2 DEF GoTo, HookLocal, Hook

LEMMA GoesInv ==
    ASSUME HookInv, NEW h \in Handler, ReadsCheckin(h) \/ AsksAgent(h)
    PROVE  HookInv'
<1>1. PICK s \in {"checkin", "resolve"} : GoTo(h, s) /\ (s = "checkin" => checkin = "open")
  BY DEF ReadsCheckin, AsksAgent
<1>2. UNCHANGED <<marks, checkin, mapping, sessions, purges, made, answers, raced>>
  BY DEF ReadsCheckin, AsksAgent, store, history
<1>3. /\ HookLocal(h) /\ hook'[h].stage = s /\ hook'[h].lock = hook[h].lock
      /\ hook'[h].answer = hook[h].answer
  BY <1>1, GoToWrites
<1>4. HookTypeOK'
  BY <1>2, <1>3 DEF HookInv, HookTypeOK, HookLocal
<1>5. CheckinOK'
  BY <1>2, <1>3, CheckinKept
<1> QED
  BY <1>1, <1>2, <1>3, <1>4, <1>5, SessionsKept DEF HookInv

(* h is idle again, and the check-in as it was. *)
LEMMA AwayInv ==
    ASSUME HookInv, NEW h \in Handler, hook' = [hook EXCEPT ![h] = Away],
           UNCHANGED <<marks, checkin, mapping, sessions, purges, made, answers, raced>>
    PROVE  HookInv'
<1>1. /\ HookLocal(h) /\ hook'[h].stage = "idle"
      /\ hook'[h].lock = FALSE /\ hook'[h].answer = FALSE
  BY AwayTyped DEF HookInv, HookTypeOK, HookLocal
<1>2. HookTypeOK'
  BY <1>1 DEF HookInv, HookTypeOK, HookLocal
<1>3. CheckinOK'
  BY <1>1, CheckinDropped
<1> QED
  BY <1>1, <1>2, <1>3, SessionsKept DEF HookInv

LEMMA TakesCheckinInv ==
    ASSUME HookInv, NEW h \in Handler, TakesCheckin(h)
    PROVE  HookInv'
<1>1. PICK writes \in BOOLEAN :
          /\ IF writes THEN ~\E g \in Handler : hook[g].lock ELSE checkin = "answered"
          /\ hook' = [hook EXCEPT ![h].answer = TRUE, ![h].lock = writes,
                                  ![h].stage = "resolve"]
  BY Zenon DEF TakesCheckin
<1>2. /\ raced' = raced + One(checkin = "answered")
      /\ UNCHANGED <<marks, checkin, mapping, sessions, purges, made, answers>>
  BY DEF TakesCheckin, store
<1>3. /\ HookLocal(h) /\ hook'[h].stage = "resolve"
      /\ hook'[h].lock = writes /\ hook'[h].answer = TRUE
  <2>1. hook \in [Handler -> Hook]
        /\ hook'[h] = [hook[h] EXCEPT !.answer = TRUE, !.lock = writes, !.stage = "resolve"]
    BY <1>1 DEF HookInv, HookTypeOK
  <2>2. hook'[h] \in Hook
    BY <2>1 DEF Hook
  <2> QED
    BY <1>1, <2>1, <2>2 DEF HookLocal, Hook
<1>4. raced \in Nat /\ raced' \in Nat /\ answers \in Nat
  BY <1>2 DEF HookInv, HookTypeOK, One
<1>5. HookTypeOK'
  BY <1>2, <1>3, <1>4 DEF HookInv, HookTypeOK, HookLocal
<1>6. CheckinOK'
  <2>1. \A g \in Handler : hook'[g].lock => hook'[g].answer
    BY <1>3 DEF HookInv, CheckinOK, HookLocal
  <2>2. Due + 1 <= Due' + One(checkin = "answered") /\ Due \in Nat /\ Due' \in Nat
    <3>1. CASE checkin = "answered"
      BY <1>2, <3>1 DEF Due, One
    <3>2. CASE checkin # "answered"
      <4>1. hook'[h].lock /\ \A g \in Handler : ~hook[g].lock
        BY <1>1, <1>3, <3>2
      <4> QED
        BY <1>2, <3>2, <4>1 DEF Due, One
    <3> QED
      BY <3>1, <3>2
  <2>3. /\ Cardinality(Answering) \in Nat /\ Cardinality(Answering') \in Nat
        /\ Cardinality(Answering') <= Cardinality(Answering) + 1
    BY <1>3, AnsweringWrites DEF One
  <2>4. answers + Cardinality(Answering) <= raced + Due
    BY DEF HookInv, CheckinOK
  <2>5. One(checkin = "answered") \in Nat
    BY DEF One
  <2>6. answers' + Cardinality(Answering') <= raced' + Due'
    BY <1>2, <1>4, <2>2, <2>3, <2>4, <2>5
  <2> QED
    BY <2>1, <2>6 DEF CheckinOK
<1> QED
  BY <1>2, <1>3, <1>5, <1>6, SessionsKept DEF HookInv

LEMMA ReadsMappingInv ==
    ASSUME HookInv, NEW h \in Handler, ReadsMapping(h)
    PROVE  HookInv'
<1>1. PICK s : s = IF mapping = 0 THEN "new" ELSE IF mapping \in sessions THEN "agent" ELSE "heal"
  OBVIOUS
<1>2. /\ hook' = [hook EXCEPT ![h].session = mapping, ![h].stage = s]
      /\ UNCHANGED <<marks, checkin, mapping, sessions, purges, made, answers, raced>>
  BY <1>1 DEF ReadsMapping, store, history
<1>3. /\ HookLocal(h) /\ hook'[h].stage = s /\ hook'[h].lock = hook[h].lock
      /\ hook'[h].session = mapping /\ hook'[h].answer = hook[h].answer
  <2>1. hook \in [Handler -> Hook] /\ mapping \in 0..MaxSessions
        /\ hook'[h] = [hook[h] EXCEPT !.session = mapping, !.stage = s]
    BY <1>2 DEF HookInv, HookTypeOK
  <2>2. hook[h] \in Hook /\ s \in {"new", "agent", "heal"}
    BY <1>1, <2>1
  <2>3. hook'[h] \in Hook
    BY <2>1, <2>2 DEF Hook
  <2> QED
    BY <1>2, <2>1, <2>2, <2>3 DEF HookLocal, Hook
<1>4. HookTypeOK'
  BY <1>2, <1>3 DEF HookInv, HookTypeOK, HookLocal
<1>5. CheckinOK'
  BY <1>2, <1>3, CheckinKept
<1>6. (purges > 0 \/ SessionsOK)'
  BY <1>1, <1>2, <1>3 DEF HookInv, SessionsOK, HookLocal, At, Own
<1> QED
  BY <1>4, <1>5, <1>6 DEF HookInv

(* What Commits writes: the lock is free, and a check-in marked stays marked. *)
LEMMA CommitsWrites ==
    ASSUME HookInv, NEW h \in Handler, NEW r \in Hook, Commits(h, r)
    PROVE  /\ HookLocal(h) /\ hook'[h].stage = r.stage /\ hook'[h].lock = FALSE
           /\ hook'[h].session = r.session /\ hook'[h].answer = r.answer
           /\ checkin' = IF hook[h].lock THEN "answered" ELSE checkin
<1>1. hook \in [Handler -> Hook] /\ hook'[h] = [r EXCEPT !.lock = FALSE]
  BY DEF HookInv, HookTypeOK, Commits
<1>2. hook'[h] \in Hook
  BY <1>1 DEF Hook
<1> QED
  BY <1>1, <1>2 DEF Commits, HookLocal, Hook

(* A commit on the way to the agent settles the mark. *)
LEMMA CheckinCommitted ==
    ASSUME HookInv, NEW h \in Handler, HookLocal(h),
           hook'[h].lock = FALSE, hook'[h].answer = hook[h].answer,
           checkin' = IF hook[h].lock THEN "answered" ELSE checkin,
           UNCHANGED <<answers, raced>>
    PROVE  CheckinOK'
<1>1. answers \in Nat /\ raced \in Nat
  BY DEF HookInv, HookTypeOK
<1>2. answers' + One(hook'[h].answer) + One(hook[h].lock /\ checkin' # "answered")
          + raced <= answers + One(hook[h].answer) + raced'
  BY <1>1 DEF One
<1> QED
  BY <1>1, <1>2, CheckinFreed

LEMMA HealsInv ==
    ASSUME HookInv, NEW h \in Handler, Heals(h)
    PROVE  HookInv'
<1>1. PICK r : r = [hook[h] EXCEPT !.stage = "new"]
  OBVIOUS
<1>2. /\ At(h, "heal") /\ mapping' = 0 /\ Commits(h, r)
      /\ UNCHANGED <<marks, sessions, purges, made, answers, raced>>
  BY <1>1 DEF Heals, store, history
<1>3. r \in Hook /\ r.answer = hook[h].answer
  <2>1. hook[h] \in Hook
    BY DEF HookInv, HookTypeOK
  <2> QED
    BY <1>1, <2>1 DEF Hook
<1>4. /\ HookLocal(h) /\ CheckinOK'
      /\ checkin' = IF hook[h].lock THEN "answered" ELSE checkin
  BY <1>2, <1>3, CommitsWrites, CheckinCommitted
<1>5. HookTypeOK'
  BY <1>2, <1>4, WebhookAssumption DEF HookInv, HookTypeOK, HookLocal
<1>6. (purges > 0 \/ SessionsOK)'
  BY <1>2 DEF HookInv, SessionsOK
<1> QED
  BY <1>4, <1>5, <1>6 DEF HookInv

LEMMA CreatesSessionInv ==
    ASSUME HookInv, NEW h \in Handler, CreatesSession(h)
    PROVE  HookInv'
<1>1. /\ made < MaxSessions /\ made' = made + 1 /\ sessions' = sessions \cup {made + 1}
      /\ hook' = [hook EXCEPT ![h].session = made + 1, ![h].stage = "map"]
      /\ UNCHANGED <<marks, checkin, mapping, purges, answers, raced>>
  BY DEF CreatesSession, history
<1>2. /\ made \in Nat /\ mapping \in Nat /\ made + 1 \in 1..MaxSessions
      /\ sessions \subseteq 1..MaxSessions
  BY <1>1, WebhookAssumption DEF HookInv, HookTypeOK
<1>3. /\ HookLocal(h) /\ hook'[h].stage = "map" /\ hook'[h].lock = hook[h].lock
      /\ hook'[h].session = made + 1 /\ hook'[h].answer = hook[h].answer
  <2>1. hook \in [Handler -> Hook]
        /\ hook'[h] = [hook[h] EXCEPT !.session = made + 1, !.stage = "map"]
    BY <1>1 DEF HookInv, HookTypeOK
  <2>2. made + 1 \in 0..MaxSessions
    BY <1>2, WebhookAssumption
  <2>3. hook'[h] \in Hook
    BY <2>1, <2>2 DEF Hook
  <2> QED
    BY <1>1, <2>1, <2>3 DEF HookLocal, Hook
<1>4. HookTypeOK'
  <2>1. made' \in 0..MaxSessions /\ sessions' \subseteq 1..MaxSessions
    BY <1>1, <1>2, WebhookAssumption
  <2> QED
    BY <1>1, <1>3, <2>1 DEF HookInv, HookTypeOK, HookLocal
<1>5. CheckinOK'
  BY <1>1, <1>3, CheckinKept
<1>6. ASSUME SessionsOK PROVE SessionsOK'
  <2>1. mapping <= made /\ (mapping # 0 => mapping \in sessions)
        /\ \A g \in Handler : Own(g) => hook[g].session \in 1..made
    BY <1>6 DEF SessionsOK
  <2>2. mapping <= made' /\ (mapping # 0 => mapping \in sessions') /\ made + 1 # mapping
        /\ made + 1 \in 1..made'
    BY <1>1, <1>2, <2>1
  <2>3. \A g \in Handler : Own(g) => hook[g].session \in 1..made' /\ hook[g].session # made + 1
    BY <1>1, <1>2, <2>1
  <2>4. \A g \in Handler \ {h} :
            /\ hook'[g] = hook[g] /\ (Own(g)' <=> Own(g))
            /\ (At(g, "heal")' <=> At(g, "heal")) /\ (At(g, "agent")' <=> At(g, "agent"))
            /\ (At(g, "lost")' <=> At(g, "lost"))
    BY <1>3 DEF HookLocal, Own, At
  <2>5. ~At(h, "heal")' /\ ~At(h, "agent")' /\ ~At(h, "lost")'
    BY <1>3 DEF At
  <2>6. \A g \in Handler : Own(g)' =>
            /\ hook'[g].session \in sessions' /\ hook'[g].session \in 1..made'
            /\ hook'[g].session # mapping
            /\ \A k \in Handler : Own(k)' /\ hook'[k].session = hook'[g].session => k = g
    <3> SUFFICES ASSUME NEW g \in Handler, Own(g)'
                 PROVE  /\ hook'[g].session \in sessions' /\ hook'[g].session \in 1..made'
                        /\ hook'[g].session # mapping
                        /\ \A k \in Handler : Own(k)' /\ hook'[k].session = hook'[g].session
                                                  => k = g
      OBVIOUS
    <3>1. CASE g = h
      <4>1. \A k \in Handler \ {h} : Own(k)' => hook'[k].session # made + 1
        BY <2>3, <2>4
      <4>2. \A k \in Handler : Own(k)' /\ hook'[k].session = made + 1 => k = g
        BY <3>1, <4>1
      <4>3. hook'[g].session = made + 1 /\ made + 1 \in sessions'
        BY <1>1, <1>3, <3>1
      <4> QED
        BY <2>2, <4>2, <4>3
    <3>2. CASE g # h
      <4>1. Own(g) /\ hook'[g] = hook[g] /\ hook[g].session # made + 1
            /\ hook[g].session \in 1..made'
        BY <2>3, <2>4, <3>2
      <4>2. hook[g].session \in sessions /\ hook[g].session # mapping
            /\ \A k \in Handler : Own(k) /\ hook[k].session = hook[g].session => k = g
        BY <1>6, <4>1 DEF SessionsOK
      <4>3. \A k \in Handler : Own(k)' /\ hook'[k].session = hook[g].session => k = g
        BY <1>3, <2>4, <4>1, <4>2
      <4>4. \A k \in Handler : Own(k)' /\ hook'[k].session = hook'[g].session => k = g
        BY <4>1, <4>3
      <4>5. hook'[g].session \in sessions' /\ hook'[g].session \in 1..made'
            /\ hook'[g].session # mapping
        <5>1. sessions \subseteq sessions'
          BY <1>1
        <5> QED
          BY <4>1, <4>2, <5>1
      <4> QED
        BY <4>4, <4>5
    <3> QED
      BY <3>1, <3>2
  <2> QED
    BY <1>1, <1>6, <2>2, <2>4, <2>5, <2>6 DEF SessionsOK
<1> QED
  BY <1>1, <1>4, <1>5, <1>6 DEF HookInv

LEMMA MapsSessionInv ==
    ASSUME HookInv, NEW h \in Handler, MapsSession(h)
    PROVE  HookInv'
<1>1. At(h, "map") /\ UNCHANGED <<marks, sessions, purges, made, answers>>
  BY DEF MapsSession, store
<1>2. hook \in [Handler -> Hook] /\ hook[h] \in Hook /\ hook[h].session \in 0..MaxSessions
  BY DEF HookInv, HookTypeOK, Hook
<1>3. CASE mapping = 0
  <2>1. PICK r : r = [hook[h] EXCEPT !.stage = "agent"]
    OBVIOUS
  <2>2. mapping' = hook[h].session /\ Commits(h, r) /\ raced' = raced
    BY <1>3, <2>1 DEF MapsSession
  <2>3. r \in Hook /\ r.stage = "agent" /\ r.session = hook[h].session
        /\ r.answer = hook[h].answer
    BY <1>2, <2>1 DEF Hook
  <2>4. /\ HookLocal(h) /\ CheckinOK'
        /\ checkin' = IF hook[h].lock THEN "answered" ELSE checkin
        /\ hook'[h].stage = "agent" /\ hook'[h].session = hook[h].session
    BY <1>1, <2>2, <2>3, CommitsWrites, CheckinCommitted
  <2>5. HookTypeOK'
    BY <1>1, <1>2, <2>2, <2>4 DEF HookInv, HookTypeOK, HookLocal
  <2>6. ASSUME SessionsOK PROVE SessionsOK'
    <3> DEFINE s == hook[h].session
    <3>1. Own(h) /\ s \in 1..made /\ s \in sessions /\ s <= made /\ s # 0
      BY <1>1, <2>6 DEF HookInv, HookTypeOK, SessionsOK, Own, At
    <3>2. \A g \in Handler : ~At(g, "lost") /\ ~At(g, "agent") /\ ~At(g, "heal")
      BY <1>3, <2>6 DEF SessionsOK
    <3>3. \A g \in Handler \ {h} : hook'[g] = hook[g] /\ (Own(g)' <=> Own(g))
      BY <2>4 DEF HookLocal, Own
    <3>4. ~Own(h)' /\ ~At(h, "heal")' /\ ~At(h, "lost")' /\ hook'[h].session = s
      BY <2>4 DEF Own, At
    <3>5. \A g \in Handler \ {h} : ~At(g, "lost")' /\ ~At(g, "agent")' /\ ~At(g, "heal")'
      BY <3>2, <3>3 DEF At
    <3>6. \A g \in Handler : Own(g)' =>
            /\ hook'[g].session \in sessions /\ hook'[g].session \in 1..made
            /\ hook'[g].session # s
            /\ \A k \in Handler : Own(k)' /\ hook'[k].session = hook'[g].session => k = g
      BY <2>6, <3>1, <3>3, <3>4 DEF SessionsOK
    <3>7. mapping' = s /\ sessions' = sessions /\ made' = made
      BY <1>1, <2>2
    <3> HIDE DEF s
    <3> QED
      BY <3>1, <3>4, <3>5, <3>6, <3>7 DEF SessionsOK
  <2> QED
    BY <1>1, <2>4, <2>5, <2>6 DEF HookInv
<1>4. CASE mapping # 0
  <2>1. /\ hook' = [hook EXCEPT ![h].stage = "lost", ![h].lock = FALSE]
        /\ raced' = raced + One(hook[h].lock) /\ UNCHANGED <<mapping, checkin>>
    BY <1>4 DEF MapsSession
  <2>2. /\ HookLocal(h) /\ hook'[h].stage = "lost" /\ hook'[h].lock = FALSE
        /\ hook'[h].session = hook[h].session /\ hook'[h].answer = hook[h].answer
    <3>1. hook'[h] = [hook[h] EXCEPT !.stage = "lost", !.lock = FALSE]
      BY <1>2, <2>1
    <3>2. hook'[h] \in Hook
      BY <1>2, <3>1 DEF Hook
    <3> QED
      BY <1>2, <2>1, <3>1, <3>2 DEF HookLocal, Hook
  <2>3. HookTypeOK'
    <3>1. raced' \in Nat
      BY <2>1 DEF HookInv, HookTypeOK, One
    <3> QED
      BY <1>1, <2>1, <2>2, <3>1 DEF HookInv, HookTypeOK, HookLocal
  <2>4. CheckinOK'
    <3>1. answers \in Nat /\ raced \in Nat /\ raced' \in Nat
      BY <2>1, <2>3 DEF HookInv, HookTypeOK
    <3>2. answers' + One(hook'[h].answer) + One(hook[h].lock /\ checkin' # "answered")
              + raced <= answers + One(hook[h].answer) + raced'
      BY <1>1, <2>1, <2>2, <3>1 DEF One
    <3> QED
      BY <1>1, <2>1, <2>2, <3>1, <3>2, CheckinFreed
  <2>5. ASSUME SessionsOK PROVE SessionsOK'
    <3>1. Own(h) /\ At(h, "lost")' /\ ~At(h, "heal")' /\ ~At(h, "agent")'
      BY <1>1, <2>2 DEF Own, At
    <3>2. \A g \in Handler : hook'[g].session = hook[g].session /\ (Own(g)' <=> Own(g))
      BY <2>2, <3>1 DEF HookLocal, Own
    <3>3. \A g \in Handler \ {h} : hook'[g] = hook[g]
      BY <2>2 DEF HookLocal
    <3> QED
      <4>1. \A g \in Handler : ~At(g, "heal")' /\ (At(g, "lost")' => mapping # 0)
                                /\ (At(g, "agent")' => hook'[g].session = mapping)
        BY <1>4, <2>5, <3>1, <3>3 DEF SessionsOK, At
      <4>2. \A g \in Handler : Own(g)' =>
                /\ hook'[g].session \in sessions /\ hook'[g].session \in 1..made
                /\ hook'[g].session # mapping
                /\ \A k \in Handler : Own(k)' /\ hook'[k].session = hook'[g].session => k = g
        BY <2>5, <3>2 DEF SessionsOK
      <4>3. mapping <= made /\ mapping \in sessions
        BY <1>4, <2>5 DEF SessionsOK
      <4> QED
        BY <1>1, <1>4, <2>1, <4>1, <4>2, <4>3 DEF SessionsOK
  <2> QED
    BY <1>1, <2>3, <2>4, <2>5 DEF HookInv
<1> QED
  BY <1>3, <1>4

LEMMA AdoptsMappingInv ==
    ASSUME HookInv, NEW h \in Handler, AdoptsMapping(h)
    PROVE  HookInv'
<1>1. PICK s : s = IF mapping = 0 THEN hook[h].session ELSE mapping
  OBVIOUS
<1>2. /\ At(h, "lost") /\ sessions' = sessions \ {hook[h].session}
      /\ hook' = [hook EXCEPT ![h].session = s, ![h].stage = "agent"]
      /\ UNCHANGED <<marks, checkin, mapping, purges, made, answers, raced>>
  BY <1>1 DEF AdoptsMapping, history
<1>3. /\ HookLocal(h) /\ hook'[h].stage = "agent" /\ hook'[h].lock = hook[h].lock
      /\ hook'[h].session = s /\ hook'[h].answer = hook[h].answer
  <2>1. hook \in [Handler -> Hook] /\ s \in 0..MaxSessions
        /\ hook'[h] = [hook[h] EXCEPT !.session = s, !.stage = "agent"]
    BY <1>1, <1>2 DEF HookInv, HookTypeOK, Hook
  <2>2. hook'[h] \in Hook
    BY <2>1 DEF Hook
  <2> QED
    BY <1>2, <2>1, <2>2 DEF HookLocal, Hook
<1>4. HookTypeOK'
  BY <1>2, <1>3 DEF HookInv, HookTypeOK, HookLocal
<1>5. CheckinOK'
  BY <1>2, <1>3, CheckinKept
<1>6. ASSUME SessionsOK PROVE SessionsOK'
  <2>1. Own(h) /\ mapping # 0 /\ s = mapping /\ hook[h].session # mapping
    BY <1>1, <1>2, <1>6 DEF SessionsOK, Own, At
  <2>2. mapping \in sessions' /\ mapping <= made
    BY <1>2, <1>6, <2>1 DEF SessionsOK
  <2>3. \A g \in Handler \ {h} : hook'[g] = hook[g] /\ (Own(g)' <=> Own(g))
    BY <1>3 DEF HookLocal, Own
  <2>4. ~Own(h)' /\ ~At(h, "heal")' /\ ~At(h, "lost")'
    BY <1>3 DEF Own, At
  <2>5. \A g \in Handler : Own(g)' =>
            /\ hook'[g].session \in sessions' /\ hook'[g].session \in 1..made
            /\ hook'[g].session # mapping
            /\ \A k \in Handler : Own(k)' /\ hook'[k].session = hook'[g].session => k = g
    <3> SUFFICES ASSUME NEW g \in Handler, Own(g)'
                 PROVE  /\ hook'[g].session \in sessions' /\ hook'[g].session \in 1..made
                        /\ hook'[g].session # mapping
                        /\ \A k \in Handler : Own(k)' /\ hook'[k].session = hook'[g].session
                                                  => k = g
      OBVIOUS
    <3>1. g # h /\ Own(g) /\ hook'[g] = hook[g]
      BY <2>3, <2>4
    <3>2. /\ hook[g].session \in sessions /\ hook[g].session \in 1..made
          /\ hook[g].session # mapping
          /\ \A k \in Handler : Own(k) /\ hook[k].session = hook[g].session => k = g
      BY <1>6, <3>1 DEF SessionsOK
    <3>3. hook[g].session # hook[h].session
      BY <2>1, <3>1, <3>2
    <3>4. \A k \in Handler : Own(k)' /\ hook'[k].session = hook[g].session => k = g
      BY <2>3, <2>4, <3>2
    <3>5. \A k \in Handler : Own(k)' /\ hook'[k].session = hook'[g].session => k = g
      BY <3>1, <3>4
    <3>6. hook'[g].session \in sessions' /\ hook'[g].session \in 1..made
          /\ hook'[g].session # mapping
      BY <1>2, <3>1, <3>2, <3>3
    <3> QED
      BY <3>5, <3>6
  <2>6. \A g \in Handler \ {h} : ~At(g, "heal")'
                                 /\ (At(g, "agent")' => hook'[g].session = mapping)
    BY <1>6, <2>3 DEF SessionsOK, At
  <2> QED
    BY <1>2, <1>3, <2>1, <2>2, <2>4, <2>5, <2>6 DEF SessionsOK
<1> QED
  BY <1>2, <1>4, <1>5, <1>6 DEF HookInv

LEMMA AnswersInv ==
    ASSUME HookInv, NEW h \in Handler, Answers(h)
    PROVE  HookInv'
<1>1. /\ answers' = answers + One(hook[h].answer)
      /\ UNCHANGED <<marks, mapping, sessions, purges, made>>
  BY DEF Answers, store
<1>2. answers \in Nat /\ raced \in Nat /\ hook \in [Handler -> Hook] /\ hook[h] \in Hook
      /\ checkin \in {"none", "open", "answered"}
  BY DEF HookInv, HookTypeOK
<1>3. /\ HookLocal(h) /\ hook'[h].stage = "idle"
      /\ hook'[h].lock = FALSE /\ hook'[h].answer = FALSE
      /\ \/ /\ checkin' = IF hook[h].lock THEN "answered" ELSE checkin
            /\ raced' = raced
         \/ checkin' = checkin /\ raced' = raced + One(hook[h].lock)
  <2>1. CASE mapping # 0
    BY <2>1, AwayTyped, CommitsWrites DEF Answers
  <2>2. CASE mapping = 0
    BY <1>2, <2>2, AwayTyped DEF Answers, HookLocal
  <2> QED
    BY <2>1, <2>2
<1>4. answers' \in Nat /\ raced' \in Nat
  BY <1>1, <1>2, <1>3 DEF One
<1>5. checkin' \in {"none", "open", "answered"}
  BY <1>2, <1>3
<1>6. HookTypeOK'
  BY <1>1, <1>3, <1>4, <1>5 DEF HookInv, HookTypeOK, HookLocal
<1>7. CheckinOK'
  <2>1. answers' + One(hook'[h].answer) + One(hook[h].lock /\ checkin' # "answered")
            + raced <= answers + One(hook[h].answer) + raced'
    BY <1>1, <1>2, <1>3 DEF One
  <2> QED
    BY <1>3, <1>4, <2>1, CheckinFreed
<1> QED
  BY <1>1, <1>3, <1>6, <1>7, SessionsKept DEF HookInv

LEMMA CheckinSentInv ==
    ASSUME HookInv, CheckinSent
    PROVE  HookInv'
<1>1. /\ checkin = "none" /\ checkin' = "open"
      /\ UNCHANGED <<marks, hook, mapping, sessions, purges, made, answers, raced>>
  BY DEF CheckinSent, store, history
<1>2. CheckinOK'
  BY <1>1 DEF HookInv, CheckinOK, Answering, Due
<1> QED
  BY <1>1, <1>2 DEF HookInv, HookTypeOK, SessionsOK, At, Own

LEMMA SessionLostInv ==
    ASSUME HookInv, SessionLost
    PROVE  HookInv'
<1>1. /\ purges < MaxPurges /\ purges' = purges + 1 /\ sessions' \subseteq sessions
      /\ UNCHANGED <<marks, hook, checkin, mapping, made, answers, raced>>
  BY DEF SessionLost, history
<1>2. purges' \in 0..MaxPurges /\ purges' > 0
  BY <1>1, WebhookAssumption DEF HookInv, HookTypeOK
<1> QED
  BY <1>1, <1>2 DEF HookInv, HookTypeOK, CheckinOK, Answering, Due

LEMMA HookUnchanged ==
    ASSUME HookInv, UNCHANGED hookVars
    PROVE  HookInv'
BY DEF HookInv, HookTypeOK, CheckinOK, Answering, Due, SessionsOK, At, Own, hookVars

LEMMA HookInitInv ==
    ASSUME Init
    PROVE  HookInv
<1>1. hook \in [Handler -> Hook] /\ \A h \in Handler : hook[h] = Away
  BY AwayTyped DEF Init
<1>2. \A h \in Handler : hook[h].stage = "idle" /\ hook[h].lock = FALSE
                        /\ hook[h].answer = FALSE
  BY <1>1, AwayTyped
<1>3. made \in 0..1 /\ mapping = made /\ sessions = 1..made /\ MaxSessions \in Nat \ {0}
      /\ MaxPurges \in Nat
  BY WebhookAssumption DEF Init
<1>4. HookTypeOK
  <2>1. mapping \in 0..MaxSessions /\ made \in 0..MaxSessions /\ 0 \in 0..MaxPurges
        /\ sessions \subseteq 1..MaxSessions
    BY <1>3
  <2> QED
    BY <1>1, <2>1 DEF Init, HookTypeOK
<1>5. SessionsOK
  BY <1>2, <1>3 DEF SessionsOK, At, Own
<1>6. CheckinOK
  <2>1. Answering = {} /\ Cardinality(Answering) = 0
    BY <1>2, FS_EmptySet DEF Answering
  <2>2. answers = 0 /\ raced = 0 /\ Due \in Nat
    BY DEF Init, Due
  <2> QED
    BY <1>2, <2>1, <2>2 DEF CheckinOK
<1> QED
  BY <1>4, <1>5, <1>6 DEF HookInv

-----------------------------------------------------------------------------
(* The invariant of the specification.                                     *)

LEMMA DecidesInv ==
    ASSUME IInv, NEW h \in Handler, Decides(h)
    PROVE  IInv'
<1>1. Pending # {} /\ Pending \in SUBSET Rows
  BY DEF Decides, Pending
<1>2. Pending \in SUBSET Nat /\ IsFiniteSet(Pending)
  BY <1>1, RowsTyped, FS_Subset DEF IInv, DraftsInv
<1>3. Max(Pending) \in Rows
  BY <1>1, <1>2, MaxIsIn
<1>4. DraftsInv'
  <2>1. h \in Actor
    BY WebhookAssumption
  <2>2. \E d \in Rows : ApproveBegins(h, d) \/ AbandonBegins(h, d)
    BY <1>3 DEF Decides
  <2> QED
    BY <2>1, <2>2, BeginsInv DEF IInv
<1>5. HookInv'
  BY AwayInv DEF IInv, Decides, store, history
<1> QED
  BY <1>4, <1>5 DEF IInv

LEMMA DraftsUnchanged ==
    ASSUME DraftsInv, UNCHANGED draftVars
    PROVE  DraftsInv'
<1>1. faults' \in 0..MaxFaults
  BY DEF draftVars, DraftsInv, DraftsTypeOK
<1> QED
  BY <1>1, FaultInv DEF draftVars

LEMMA HandlerDiesInv ==
    ASSUME IInv, NEW h \in Handler, HandlerDies(h)
    PROVE  IInv'
<1>1. faults' \in 0..MaxFaults
  BY DraftsAssumption DEF HandlerDies, IInv, DraftsInv, DraftsTypeOK
<1>2. DraftsInv'
  BY <1>1, FaultInv DEF HandlerDies, IInv, decisions
<1>3. HookInv'
  BY AwayInv DEF HandlerDies, IInv, store, history
<1> QED
  BY <1>2, <1>3 DEF IInv

LEMMA HandlesInv ==
    ASSUME IInv, NEW h \in Handler, Handles(h)
    PROVE  IInv'
<1>1. CASE Decides(h)
  BY <1>1, DecidesInv
<1>2. CASE ~Decides(h)
  <2>1. UNCHANGED draftVars
    <3>1. TakesCheckin(h) => UNCHANGED draftVars
      BY Zenon DEF TakesCheckin
    <3> QED
      BY <1>2, <3>1 DEF Handles, ReadsCheckin, AsksAgent, ReadsMapping, Heals,
                        CreatesSession, MapsSession, AdoptsMapping, Answers
  <2>2. DraftsInv'
    BY <2>1, DraftsUnchanged DEF IInv
  <2>3. HookInv'
    BY <1>2, GoesInv, TakesCheckinInv, ReadsMappingInv, HealsInv, CreatesSessionInv,
       MapsSessionInv, AdoptsMappingInv, AnswersInv DEF Handles, IInv
  <2> QED
    BY <2>2, <2>3 DEF IInv
<1> QED
  BY <1>1, <1>2

LEMMA InitIInv == Init => IInv
BY DraftsInitInv, HookInitInv DEF Init, IInv

LEMMA NextIInv == IInv /\ [Next]_vars => IInv'
<1> SUFFICES ASSUME IInv, [Next]_vars PROVE IInv'
  OBVIOUS
<1>1. ASSUME NEW h \in Handler, NEW m \in Message, Receive(h, m) PROVE IInv'
  <2>1. UNCHANGED draftVars
    BY <1>1 DEF Receive
  <2> QED
    BY <1>1, <2>1, ReceiveInv, DraftsUnchanged DEF IInv
<1>2. ASSUME NEW h \in Handler, Handles(h) \/ HandlerDies(h) PROVE IInv'
  BY <1>2, HandlesInv, HandlerDiesInv
<1>3. ASSUME UNCHANGED hookVars, DraftsInv' PROVE IInv'
  BY <1>3, HookUnchanged DEF IInv
<1>4. ASSUME NEW v \in Tool, ToolBegins(v), UNCHANGED hookVars PROVE IInv'
  <2>1. v \in Actor
    BY WebhookAssumption
  <2>2. DraftsInv'
    BY <1>4, <2>1, BeginsInv DEF ToolBegins, IInv
  <2> QED
    BY <1>3, <1>4, <2>2
<1>5. ASSUME NEW p \in Actor, DraftWork(p) PROVE IInv'
  BY <1>3, <1>5, ProceedsInv DEF DraftWork, IInv
<1>6. CASE Cleans
  BY <1>3, <1>6, SweepInv DEF Cleans, IInv
<1>7. ASSUME NEW d \in Rows, Ages(d) PROVE IInv'
  BY <1>3, <1>7, ExpireInv DEF Ages, IInv
<1>8. CASE CheckinSent \/ SessionLost
  <2>1. UNCHANGED draftVars
    BY <1>8 DEF CheckinSent, SessionLost
  <2> QED
    BY <1>8, <2>1, CheckinSentInv, SessionLostInv, DraftsUnchanged DEF IInv
<1>9. CASE UNCHANGED vars
  BY <1>9, DraftsUnchanged, HookUnchanged DEF vars, IInv
<1> QED
  BY <1>1, <1>2, <1>4, <1>5, <1>6, <1>7, <1>8, <1>9 DEF Next

LEMMA Invariance == Spec => []IInv
BY InitIInv, NextIInv, PTL DEF Spec

LEMMA IsTyped == IInv => WebhookTypeOK
BY DEF IInv, DraftsInv, HookInv, HookTypeOK, WebhookTypeOK

-----------------------------------------------------------------------------
(* The properties.                                                         *)

(* The rows, transactions, handlers and conversations keep their types. *)
THEOREM TypeCorrect == Spec => []WebhookTypeOK
BY Invariance, IsTyped, PTL

(* No thread is answered twice unless a delivery went unreported: of the   *)
(* rows of a thread one is active or locked, one session holds the lock,   *)
(* and it sends only while the thread has no reply on record.              *)
THEOREM OneReply == Spec => []OneReplyPerThread
<1>1. IInv => OneReplyPerThread
  <2> SUFFICES ASSUME IInv, NEW d \in Rows
               PROVE  /\ gmail[d] <= 1 + doubt[d]
                      /\ \A e \in Rows \ {d} :
                            drafts[e].thread = drafts[d].thread /\ gmail[d] > doubt[d]
                                => gmail[e] <= doubt[e]
    BY DEF OneReplyPerThread
  <2>1. Rows \subseteq Id /\ gmail \in [Id -> Nat] /\ doubt \in [Id -> Nat]
    BY RowsTyped DEF IInv, DraftsInv, DraftsTypeOK
  <2>2. gmail[d] <= 1 + doubt[d]
    BY <2>1 DEF IInv, DraftsInv, Counted
  <2>3. \A e \in Rows \ {d} : drafts[e].thread = drafts[d].thread /\ gmail[d] > doubt[d]
                                  => ~(gmail[e] > doubt[e])
    BY DEF IInv, DraftsInv, OneReported, Reported
  <2> QED
    BY <2>1, <2>2, <2>3
<1> QED
  BY <1>1, Invariance, PTL

(* What the user was told was not sent is not sent, unless two decisions   *)
(* on the same pending row crossed or a delivery went unreported.          *)
THEOREM NothingDroppedIsSent == Spec => []DroppedIsNotSent
<1>1. IInv => DroppedIsNotSent
  BY DEF IInv, DraftsInv, DroppedIsNotSent, Dropped, Reported
<1> QED
  BY <1>1, Invariance, PTL

(* `sent` rows have their reply on record, and the record is of what Gmail *)
(* accepted.                                                               *)
THEOREM RecordIsTrue == Spec => []SentIsRecorded
<1>1. IInv => SentIsRecorded
  BY DEF IInv, DraftsInv
<1> QED
  BY <1>1, Invariance, PTL

(* A check-in is answered once, and once more for each cause, whichever     *)
(* commits or rollbacks the requests pass through on their way: answers    *)
(* given and under way never outnumber the mark and the causes.            *)
THEOREM AnsweredOnce == Spec => []CheckinAnsweredOnce
<1>1. ASSUME IInv PROVE CheckinAnsweredOnce
  <2>1. answers \in Nat /\ raced \in Nat /\ answers + Cardinality(Answering) <= raced + Due
    BY <1>1 DEF IInv, HookInv, HookTypeOK, CheckinOK
  <2>2. IsFiniteSet(Handler)
    BY WebhookAssumption, DraftsAssumption, FS_Subset
  <2>3. Cardinality(Answering) \in Nat
    BY <2>2, FS_Subset, FS_CardinalityType DEF Answering
  <2>4. Due \in 0..1
    BY DEF Due
  <2> QED
    BY <2>1, <2>3, <2>4 DEF CheckinAnsweredOnce
<1> QED
  BY <1>1, Invariance, PTL

(* All agents of a user work in the conversation the mapping names, unless *)
(* the session store lost one.                                             *)
THEOREM SameConversation == Spec => []OneConversation
<1>1. IInv => OneConversation
  BY DEF IInv, HookInv, SessionsOK, OneConversation
<1> QED
  BY <1>1, Invariance, PTL

=============================================================================
