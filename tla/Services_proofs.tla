-------------------------- MODULE Services_proofs ---------------------------
(***************************************************************************)
(* Proofs about the services that Services puts side by side, for any      *)
(* users of each, users' data and bounds:                                  *)
(*   - UserIdentity: LoginOwnsPhone,                                       *)
(*   - TaskList: StampsMatchStatus,                                        *)
(*   - EmailAutomation: ActedOnce and UrgentCallsCapped,                   *)
(*   - GoogleAccount: NoHalfConnection and ClearedForCause,                *)
(* and that the variables of each have their types.  A component is proved *)
(* about alone; a behaviour of Services is one of it, or a stutter.        *)
(***************************************************************************)
EXTENDS Services, FiniteSetTheorems, TLAPS

-----------------------------------------------------------------------------
(* UserIdentity. *)

(* No uid owns two phones. *)
OneOwner == \A p1, p2 \in Phone : p1 # p2 /\ owner[p1] = owner[p2] => owner[p1] \notin Uid

(* What a request's place says about the row of its phone.  A request that *)
(* compares has read an owner, and an owner stays.                         *)
RequestPlaced(q) ==
    /\ req[q].pc \in {"link", "compare"} => req[q].uid \in Uid
    /\ req[q].pc = "compare" => req[q].seen \in Uid /\ owner[req[q].phone] = req[q].seen
    /\ req[q].pc = "served" /\ req[q].uid # "none" => owner[req[q].phone] = req[q].uid
    /\ req[q].pc = "refused" /\ req[q].uid # "none" =>
          \/ owner[req[q].phone] \in Uid \ {req[q].uid}
          \/ \E ph \in Phone \ {req[q].phone} : owner[ph] = req[q].uid

IdentityInv == Identity!TypeOK /\ OneOwner /\ \A q \in Request : RequestPlaced(q)

(* A row that has an owner keeps it. *)
OwnersStay == \A ph \in Phone : owner[ph] \in Uid => owner'[ph] = owner[ph]

-----------------------------------------------------------------------------
(* The other requests are where they were, and what that says still holds. *)
LEMMA OthersPlaced ==
    ASSUME Identity!UidAssumption, Identity!TypeOK, OwnersStay, NEW r \in Request, RequestPlaced(r),
           req'[r] = req[r]
    PROVE  RequestPlaced(r)'
<1>. /\ req[r].uid \in Uid \cup {"none"} /\ req[r].phone \in Phone
  BY DEF Identity!TypeOK, Identity!Req
<1>. QED
  BY DEF RequestPlaced, OwnersStay, Identity!UidAssumption

(* Whoever reads the row of a phone goes where its owner says. *)
LEMMA RereadsPlaced ==
    ASSUME Identity!UidAssumption, Identity!TypeOK, NEW q \in Request, Identity!Rereads(q),
           UNCHANGED owner
    PROVE  /\ req' \in [Request -> Identity!Req]
           /\ \A r \in Request \ {q} : req'[r] = req[r]
           /\ RequestPlaced(q)'
<1>1. /\ req[q] \in Identity!Req /\ req[q].phone \in Phone /\ req[q].uid \in Uid \cup {"none"}
      /\ owner[req[q].phone] \in Identity!Owner
  BY DEF Identity!TypeOK, Identity!Req
<1>2. PICK x \in Identity!Owner : /\ x = owner[req[q].phone]
                                  /\ req' = [req EXCEPT ![q].seen = x, ![q].pc = Identity!Turn(q, x)]
  BY <1>1 DEF Identity!Rereads
<1>3. Identity!Turn(q, x) \in {"insert", "served", "link", "compare"}
  BY DEF Identity!Turn
<1>4. req'[q] = [pc |-> Identity!Turn(q, x), phone |-> req[q].phone, uid |-> req[q].uid, seen |-> x]
  BY <1>1, <1>2 DEF Identity!TypeOK, Identity!Req
<1>5. /\ req' \in [Request -> Identity!Req]
      /\ \A r \in Request \ {q} : req'[r] = req[r]
  BY <1>1, <1>2, <1>3, <1>4 DEF Identity!TypeOK, Identity!Req
<1>6. RequestPlaced(q)'
  BY <1>1, <1>2, <1>4 DEF RequestPlaced, Identity!Turn, Identity!Owner, Identity!UidAssumption
<1>. QED
  BY <1>5, <1>6

(* A request moves on without reading. *)
LEMMA ToPlaced ==
    ASSUME Identity!TypeOK, NEW q \in Request, NEW pc \in {"served", "refused"},
           Identity!To(q, pc)
    PROVE  /\ req' \in [Request -> Identity!Req]
           /\ \A r \in Request \ {q} : req'[r] = req[r]
           /\ req'[q] = [req[q] EXCEPT !.pc = pc]
BY DEF Identity!TypeOK, Identity!Req, Identity!To

(* A row without an owner gets one, which owns nothing yet. *)
LEMMA NewOwner ==
    ASSUME Identity!UidAssumption, Identity!TypeOK, OneOwner, NEW ph \in Phone,
           NEW u \in Uid \cup {"unlinked"},
           owner[ph] \notin Uid, u = "unlinked" \/ ~Identity!Taken(u),
           owner' = [owner EXCEPT ![ph] = u]
    PROVE  owner' \in [Phone -> Identity!Owner] /\ OneOwner' /\ OwnersStay
<1>1. owner' \in [Phone -> Identity!Owner]
  BY DEF Identity!TypeOK, Identity!Owner
<1>2. OwnersStay
  BY DEF Identity!TypeOK, OwnersStay
<1>3. OneOwner'
  BY <1>1 DEF Identity!TypeOK, OneOwner, Identity!Taken, Identity!UidAssumption
<1>. QED
  BY <1>1, <1>2, <1>3

-----------------------------------------------------------------------------
LEMMA IdentityInitIInv == ASSUME Identity!UidAssumption, Identity!Init PROVE IdentityInv
<1>. DEFINE first == CHOOSE ph \in Phone : TRUE
<1>1. first \in Phone
  BY DEF Identity!UidAssumption
<1>2. Identity!TypeOK
  BY <1>1 DEF Identity!Init, Identity!TypeOK, Identity!Owner, Identity!Req
<1>3. OneOwner
  BY DEF Identity!Init, OneOwner, Identity!UidAssumption
<1>4. \A q \in Request : req[q].pc = "idle"
  BY DEF Identity!Init
<1>. QED
  BY <1>2, <1>3, <1>4 DEF IdentityInv, RequestPlaced

LEMMA ArrivesIInv ==
    ASSUME Identity!UidAssumption, IdentityInv, NEW q \in Request, NEW ph \in Phone,
           NEW u \in Uid \cup {"none"}, Identity!Arrives(q, ph, u)
    PROVE  IdentityInv'
<1>1. /\ req' \in [Request -> Identity!Req] /\ \A r \in Request \ {q} : req'[r] = req[r]
      /\ req'[q] = [pc |-> "read", phone |-> ph, uid |-> u, seen |-> "norow"]
  BY DEF IdentityInv, Identity!Arrives, Identity!TypeOK, Identity!Req, Identity!Owner
<1>2. OwnersStay /\ UNCHANGED owner
  BY DEF Identity!Arrives, OwnersStay
<1>3. RequestPlaced(q)'
  BY <1>1 DEF RequestPlaced
<1>. QED
  BY <1>1, <1>2, <1>3, OthersPlaced DEF IdentityInv, Identity!TypeOK, OneOwner

LEMMA RereadIInv ==
    ASSUME Identity!UidAssumption, IdentityInv, NEW q \in Request, Identity!Rereads(q), UNCHANGED owner
    PROVE  IdentityInv'
<1>1. OwnersStay
  BY DEF OwnersStay
<1>. QED
  BY <1>1, RereadsPlaced, OthersPlaced DEF IdentityInv, Identity!TypeOK, OneOwner

LEMMA IdentityInsertsIInv ==
    ASSUME Identity!UidAssumption, IdentityInv, NEW q \in Request, Identity!Inserts(q)
    PROVE  IdentityInv'
<1>. DEFINE ph == req[q].phone
            u  == req[q].uid
            new == IF u = "none" THEN "unlinked" ELSE u
<1>1. ph \in Phone /\ u \in Uid \cup {"none"} /\ new \in Uid \cup {"unlinked"}
  BY DEF IdentityInv, Identity!TypeOK, Identity!Req
<1>2. CASE owner[ph] = "norow" /\ (u = "none" \/ ~Identity!Taken(u))
  <2>1. owner' = [owner EXCEPT ![ph] = new] /\ Identity!To(q, "served")
    BY <1>2 DEF Identity!Inserts
  <2>2. owner' \in [Phone -> Identity!Owner] /\ OneOwner' /\ OwnersStay
    BY <1>1, <1>2, <2>1, NewOwner DEF IdentityInv, Identity!UidAssumption
  <2>3. /\ req' \in [Request -> Identity!Req]
        /\ \A r \in Request \ {q} : req'[r] = req[r]
        /\ req'[q] = [req[q] EXCEPT !.pc = "served"]
    BY <2>1, ToPlaced DEF IdentityInv
  <2>4. RequestPlaced(q)'
    BY <1>1, <2>1, <2>3 DEF RequestPlaced, IdentityInv, Identity!TypeOK, Identity!Req
  <2>. QED
    BY <2>2, <2>3, <2>4, OthersPlaced DEF IdentityInv, Identity!TypeOK
<1>3. CASE owner[ph] = "norow" /\ u # "none" /\ Identity!Taken(u)
  <2>1. UNCHANGED owner /\ Identity!To(q, "refused")
    BY <1>3 DEF Identity!Inserts
  <2>2. /\ req' \in [Request -> Identity!Req]
        /\ \A r \in Request \ {q} : req'[r] = req[r]
        /\ req'[q] = [req[q] EXCEPT !.pc = "refused"]
    BY <2>1, ToPlaced DEF IdentityInv
  <2>3. PICK other \in Phone : owner[other] = u
    BY <1>3 DEF Identity!Taken
  <2>4. other # ph
    BY <1>1, <1>3, <2>3 DEF Identity!UidAssumption
  <2>5. RequestPlaced(q)'
    <3>1. req'[q].pc = "refused" /\ req'[q].phone = ph /\ req'[q].uid = u
      BY <2>2 DEF IdentityInv, Identity!TypeOK, Identity!Req
    <3>. QED
      BY <2>1, <2>3, <2>4, <3>1 DEF RequestPlaced
  <2>. QED
    BY <2>1, <2>2, <2>5, OthersPlaced DEF IdentityInv, Identity!TypeOK, OneOwner, OwnersStay
<1>4. CASE owner[ph] # "norow"
  BY <1>4, RereadIInv DEF Identity!Inserts
<1>. QED
  BY <1>1, <1>2, <1>3, <1>4

LEMMA LinksIInv ==
    ASSUME Identity!UidAssumption, IdentityInv, NEW q \in Request, Identity!Links(q)
    PROVE  IdentityInv'
<1>. DEFINE ph == req[q].phone
            u  == req[q].uid
<1>1. ph \in Phone /\ u \in Uid
  BY DEF IdentityInv, Identity!TypeOK, Identity!Req, Identity!Links, RequestPlaced
<1>2. CASE owner[ph] # "unlinked"
  BY <1>2, RereadIInv DEF Identity!Links
<1>3. CASE owner[ph] = "unlinked" /\ Identity!Taken(u)
  <2>1. UNCHANGED owner /\ Identity!To(q, "refused")
    BY <1>3 DEF Identity!Links
  <2>2. /\ req' \in [Request -> Identity!Req]
        /\ \A r \in Request \ {q} : req'[r] = req[r]
        /\ req'[q] = [req[q] EXCEPT !.pc = "refused"]
    BY <2>1, ToPlaced DEF IdentityInv
  <2>3. PICK other \in Phone : owner[other] = u
    BY <1>3 DEF Identity!Taken
  <2>4. other # ph
    BY <1>1, <1>3, <2>3 DEF Identity!UidAssumption
  <2>5. RequestPlaced(q)'
    <3>1. req'[q].pc = "refused" /\ req'[q].phone = ph /\ req'[q].uid = u
      BY <2>2 DEF IdentityInv, Identity!TypeOK, Identity!Req
    <3>. QED
      BY <2>1, <2>3, <2>4, <3>1 DEF RequestPlaced
  <2>. QED
    BY <2>1, <2>2, <2>5, OthersPlaced DEF IdentityInv, Identity!TypeOK, OneOwner, OwnersStay
<1>4. CASE owner[ph] = "unlinked" /\ ~Identity!Taken(u)
  <2>1. owner' = [owner EXCEPT ![ph] = u] /\ Identity!To(q, "served")
    BY <1>4 DEF Identity!Links
  <2>2. owner' \in [Phone -> Identity!Owner] /\ OneOwner' /\ OwnersStay
    BY <1>1, <1>4, <2>1, NewOwner DEF IdentityInv, Identity!UidAssumption
  <2>3. /\ req' \in [Request -> Identity!Req]
        /\ \A r \in Request \ {q} : req'[r] = req[r]
        /\ req'[q] = [req[q] EXCEPT !.pc = "served"]
    BY <2>1, ToPlaced DEF IdentityInv
  <2>4. RequestPlaced(q)'
    BY <1>1, <2>1, <2>3 DEF RequestPlaced, IdentityInv, Identity!TypeOK, Identity!Req
  <2>. QED
    BY <2>2, <2>3, <2>4, OthersPlaced DEF IdentityInv, Identity!TypeOK
<1>. QED
  BY <1>2, <1>3, <1>4

LEMMA ComparesIInv ==
    ASSUME Identity!UidAssumption, IdentityInv, NEW q \in Request, Identity!Compares(q)
    PROVE  IdentityInv'
<1>1. /\ req[q].seen \in Uid /\ owner[req[q].phone] = req[q].seen
      /\ req[q].uid \in Uid /\ UNCHANGED owner
  BY DEF IdentityInv, RequestPlaced, Identity!Compares
<1>2. PICK pc \in {"served", "refused"} :
          /\ pc = IF req[q].seen = req[q].uid THEN "served" ELSE "refused"
          /\ Identity!To(q, pc)
  BY DEF Identity!Compares
<1>3. /\ req' \in [Request -> Identity!Req]
      /\ \A r \in Request \ {q} : req'[r] = req[r]
      /\ req'[q] = [req[q] EXCEPT !.pc = pc]
  BY <1>2, ToPlaced DEF IdentityInv
<1>4. RequestPlaced(q)'
  <2>1. /\ req'[q].pc = pc /\ req'[q].phone = req[q].phone
        /\ req'[q].uid = req[q].uid /\ req'[q].seen = req[q].seen
    BY <1>3 DEF IdentityInv, Identity!TypeOK, Identity!Req
  <2>. QED
    BY <1>1, <1>2, <2>1 DEF RequestPlaced
<1>. QED
  BY <1>1, <1>3, <1>4, OthersPlaced DEF IdentityInv, Identity!TypeOK, OneOwner, OwnersStay

LEMMA IdentityNextIInv == ASSUME Identity!UidAssumption, IdentityInv, [Identity!Next]_Identity!vars PROVE IdentityInv'
<1>1. CASE UNCHANGED Identity!vars
  BY <1>1 DEF Identity!vars, IdentityInv, Identity!TypeOK, OneOwner, RequestPlaced
<1>2. ASSUME NEW q \in Request, NEW ph \in Phone, NEW u \in Uid \cup {"none"},
             Identity!Arrives(q, ph, u)
      PROVE  IdentityInv'
  BY <1>2, ArrivesIInv
<1>3. ASSUME NEW q \in Request, Identity!Reads(q) PROVE IdentityInv'
  BY <1>3, RereadIInv DEF Identity!Reads
<1>4. ASSUME NEW q \in Request, Identity!Inserts(q) PROVE IdentityInv'
  BY <1>4, IdentityInsertsIInv
<1>5. ASSUME NEW q \in Request, Identity!Links(q) PROVE IdentityInv'
  BY <1>5, LinksIInv
<1>6. ASSUME NEW q \in Request, Identity!Compares(q) PROVE IdentityInv'
  BY <1>6, ComparesIInv
<1>. QED
  BY <1>1, <1>2, <1>3, <1>4, <1>5, <1>6 DEF Identity!Next

LEMMA IdentityAlone == Identity!Spec => []IdentityInv
<1>1. Identity!Init => IdentityInv
  BY IdentityInitIInv, ServicesAssumption DEF ServicesAssumption
<1>2. IdentityInv /\ [Identity!Next]_Identity!vars => IdentityInv'
  BY IdentityNextIInv, ServicesAssumption DEF ServicesAssumption
<1>. QED
  BY <1>1, <1>2, PTL DEF Identity!Spec

(* A behaviour of the services is one of this component, or a stutter.    *)
LEMMA IsIdentity == Spec => Identity!Spec
<1>1. Init => Identity!Init
  BY DEF Init
<1>2. [Next]_vars => [Identity!Next]_Identity!vars
  BY DEF Next, vars, identityVars, Identity!vars
<1>. QED
  BY <1>1, <1>2, PTL DEF Spec, Identity!Spec

LEMMA IdentityInvariance == Spec => []IdentityInv
BY IdentityAlone, IsIdentity, PTL

-----------------------------------------------------------------------------
(* The columns have their types. *)
THEOREM IdentityTypes == Spec => []Identity!TypeOK
<1>1. IdentityInv => Identity!TypeOK
  BY DEF IdentityInv
<1>. QED
  BY <1>1, IdentityInvariance, PTL

(* However messages and logins race for a phone, a login that was served   *)
(* owns it for good, no uid owns two phones, and a refused one met another *)
(* owner (ensure_from_firebase, ensure_from_whatsapp).                     *)
THEOREM PhoneIsOwned == Spec => []LoginOwnsPhone
<1>1. IdentityInv => LoginOwnsPhone
  BY DEF IdentityInv, OneOwner, RequestPlaced, LoginOwnsPhone, Identity!LoginOwnsPhone
<1>. QED
  BY <1>1, IdentityInvariance, PTL

-----------------------------------------------------------------------------
(* TaskList. *)

(* The stamps of r match its status; `back` says that it may be a          *)
(* completed row brought back.  Goals know neither snooze nor pending.     *)
Matches(r, back) ==
    /\ r.snoozed <=> r.status = "snoozed"
    /\ r.status = "completed" => r.done
    /\ r.done => r.status = "completed" \/ back
    /\ r.kind = "goal" => r.status \notin {"snoozed", "pending"}

(* What p is about to write matches if what it read did, however the row   *)
(* came to be brought back in between.                                     *)
Sound(w) ==
    /\ w.pc = "insert" => Matches(w.new, FALSE)
    /\ w.pc \in {"write", "delete"} => w.id \in Tasks!Id
    /\ w.pc = "write" =>
          \A back \in BOOLEAN : Matches(w.seen, back) =>
             Matches(w.new, back \/ (w.seen.status = "completed" /\ w.new.status = "pending"))

RowsMatch == \A d \in Tasks!Id \ rowsCrossed : Matches(rows[d], d \in reopened)

TasksInv == Tasks!TypeOK /\ RowsMatch /\ \A p \in Session : Sound(editing[p])

EditType == [pc : {"idle", "insert", "write", "delete"}, id : 0..MaxRows, seen : Tasks!Row, new : Tasks!Row]

-----------------------------------------------------------------------------
LEMMA GoneType == ASSUME Tasks!TaskAssumption
                  PROVE Tasks!Gone \in Tasks!Row /\ Tasks!NoWork \in EditType /\ Sound(Tasks!NoWork)
<1>1. (CHOOSE x \in Title : TRUE) \in Title
  BY DEF Tasks!TaskAssumption
<1>2. Tasks!Gone \in Tasks!Row
  BY <1>1 DEF Tasks!Gone, Tasks!Row
<1>3. Tasks!NoWork \in EditType
  BY <1>2 DEF Tasks!NoWork, EditType, Tasks!TaskAssumption
<1>4. Tasks!NoWork.pc = "idle"
  BY DEF Tasks!NoWork
<1>. QED
  BY <1>2, <1>3, <1>4 DEF Sound

LEMMA BeginsIInv ==
    ASSUME TasksInv, NEW p \in Session, NEW w \in EditType, Sound(w), Tasks!Begins(p, w)
    PROVE  TasksInv'
<1>1. /\ editing' \in [Session -> EditType] /\ editing'[p] = w
      /\ \A q \in Session \ {p} : editing'[q] = editing[q]
  BY DEF TasksInv, Tasks!TypeOK, EditType, Tasks!Begins
<1>2. UNCHANGED <<rows, used, rowsCrossed, reopened>>
  BY DEF Tasks!Begins
<1>3. Tasks!TypeOK'
  BY <1>1, <1>2 DEF TasksInv, Tasks!TypeOK, EditType
<1>4. RowsMatch'
  BY <1>2 DEF TasksInv, RowsMatch
<1>5. ASSUME NEW q \in Session PROVE Sound(editing'[q])
  BY <1>1 DEF TasksInv
<1>. QED
  BY <1>3, <1>4, <1>5 DEF TasksInv

(* A change keeps the row's kind and type, and its stamps matching.        *)
KeepsMatch(r, new) ==
    /\ new \in Tasks!Row
    /\ \A back \in BOOLEAN : Matches(r, back) =>
          Matches(new, back \/ (r.status = "completed" /\ new.status = "pending"))

LEMMA ChangesIInv ==
    ASSUME Tasks!TaskAssumption, TasksInv, NEW p \in Session, NEW d \in Tasks!Id, NEW new,
           KeepsMatch(rows[d], new), Tasks!Changes(p, d, new)
    PROVE  TasksInv'
<1>. DEFINE w == [pc |-> "write", id |-> d, seen |-> rows[d], new |-> new]
<1>1. w \in EditType
  BY DEF TasksInv, Tasks!TypeOK, EditType, KeepsMatch, Tasks!Id, Tasks!TaskAssumption
<1>2. Sound(w)
  BY DEF Sound, KeepsMatch
<1>. QED
  BY <1>1, <1>2, BeginsIInv DEF Tasks!Changes

LEMMA DropsIInv ==
    ASSUME Tasks!TaskAssumption, TasksInv, NEW p \in Session, NEW d \in Tasks!Id, Tasks!Drops(p, d)
    PROVE  TasksInv'
<1>. DEFINE w == [pc |-> "delete", id |-> d, seen |-> rows[d], new |-> Tasks!Gone]
<1>1. w \in EditType
  BY GoneType DEF TasksInv, Tasks!TypeOK, EditType, Tasks!Id, Tasks!TaskAssumption
<1>2. Sound(w)
  BY DEF Sound
<1>. QED
  BY <1>1, <1>2, BeginsIInv DEF Tasks!Drops

(* What each operation makes of a row. *)
LEMMA Outcomes ==
    ASSUME NEW r \in Tasks!Row, r.status # "gone", NEW x \in Title
    PROVE  /\ r.kind = "task" /\ r.status = "pending" =>
                KeepsMatch(r, Tasks!Completed(r)) /\ KeepsMatch(r, Tasks!Snoozed(r))
           /\ r.kind = "task" => /\ KeepsMatch(r, Tasks!CompletedById(r)) /\ KeepsMatch(r, Tasks!SnoozedById(r))
                                 /\ KeepsMatch(r, Tasks!Reactivated(r))
           /\ r.kind = "goal" => KeepsMatch(r, Tasks!Completed(r)) /\ KeepsMatch(r, Tasks!Abandoned(r))
           /\ KeepsMatch(r, Tasks!Renamed(r, x))
<1>1. LET y == Tasks!Completed(r)
      IN  /\ y \in Tasks!Row /\ y.kind = r.kind /\ y.status = "completed"
          /\ y.snoozed = r.snoozed /\ y.done = TRUE
  BY DEF Tasks!Completed, Tasks!Row
<1>2. LET y == Tasks!CompletedById(r)
      IN  /\ y \in Tasks!Row /\ y.kind = r.kind /\ y.status = "completed"
          /\ y.snoozed = FALSE /\ y.done = TRUE
  BY DEF Tasks!CompletedById, Tasks!Row, Tasks!Completed
<1>3. LET y == Tasks!Snoozed(r)
      IN  /\ y \in Tasks!Row /\ y.kind = r.kind /\ y.status = "snoozed"
          /\ y.snoozed = TRUE /\ y.done = r.done
  BY DEF Tasks!Snoozed, Tasks!Row
<1>4. LET y == Tasks!SnoozedById(r)
      IN  /\ y \in Tasks!Row /\ y.kind = r.kind /\ y.status = "snoozed"
          /\ y.snoozed = TRUE /\ y.done = FALSE
  BY DEF Tasks!SnoozedById, Tasks!Row, Tasks!Snoozed
<1>5. LET y == Tasks!Reactivated(r)
      IN  /\ y \in Tasks!Row /\ y.kind = r.kind /\ y.status = "pending"
          /\ y.snoozed = FALSE /\ y.done = r.done
  BY DEF Tasks!Reactivated, Tasks!Row
<1>6. LET y == Tasks!Abandoned(r)
      IN  /\ y \in Tasks!Row /\ y.kind = r.kind /\ y.status = "abandoned"
          /\ y.snoozed = r.snoozed /\ y.done = FALSE
  BY DEF Tasks!Abandoned, Tasks!Row
<1>7. LET y == Tasks!Renamed(r, x)
      IN  /\ y \in Tasks!Row /\ y.kind = r.kind /\ y.status = r.status
          /\ y.snoozed = r.snoozed /\ y.done = r.done
  BY DEF Tasks!Renamed, Tasks!Row
<1>8. r.snoozed \in BOOLEAN /\ r.done \in BOOLEAN
  BY DEF Tasks!Row
<1>9. ASSUME r.kind = "task", r.status = "pending"
      PROVE  KeepsMatch(r, Tasks!Completed(r)) /\ KeepsMatch(r, Tasks!Snoozed(r))
  BY <1>1, <1>3, <1>8, <1>9 DEF KeepsMatch, Matches
<1>10. ASSUME r.kind = "task"
       PROVE  KeepsMatch(r, Tasks!CompletedById(r)) /\ KeepsMatch(r, Tasks!SnoozedById(r)) /\ KeepsMatch(r, Tasks!Reactivated(r))
  <2>1. KeepsMatch(r, Tasks!CompletedById(r)) /\ KeepsMatch(r, Tasks!SnoozedById(r))
    BY <1>2, <1>4, <1>8, <1>10 DEF KeepsMatch, Matches
  <2>2. KeepsMatch(r, Tasks!Reactivated(r))
    BY <1>5, <1>8, <1>10 DEF KeepsMatch, Matches
  <2>. QED
    BY <2>1, <2>2
<1>11. ASSUME r.kind = "goal" PROVE KeepsMatch(r, Tasks!Completed(r)) /\ KeepsMatch(r, Tasks!Abandoned(r))
  BY <1>1, <1>6, <1>8, <1>11 DEF KeepsMatch, Matches
<1>12. KeepsMatch(r, Tasks!Renamed(r, x))
  BY <1>7, <1>8 DEF KeepsMatch, Matches
<1>. QED
  BY <1>9, <1>10, <1>11, <1>12

-----------------------------------------------------------------------------
LEMMA TaskInitIInv == ASSUME Tasks!TaskAssumption, Tasks!Init PROVE TasksInv
<1>1. Tasks!TypeOK
  BY GoneType DEF Tasks!Init, Tasks!TypeOK, EditType, Tasks!TaskAssumption
<1>2. RowsMatch
  BY DEF Tasks!Init, RowsMatch, Matches, Tasks!Gone
<1>. QED
  BY <1>1, <1>2, GoneType DEF Tasks!Init, TasksInv

LEMMA NewReadsIInv ==
    ASSUME Tasks!TaskAssumption, TasksInv, NEW p \in Session, NEW x \in Title,
           Tasks!SaveReads(p, x) \/ Tasks!GoalReads(p, x)
    PROVE  TasksInv'
<1>1. Tasks!Gone \in Tasks!Row /\ Tasks!NoWork \in EditType /\ ~Tasks!Gone.snoozed /\ ~Tasks!Gone.done
  BY GoneType DEF Tasks!Gone
<1>2. ASSUME NEW new \in Tasks!Row, ~new.snoozed, ~new.done, new.status \in {"pending", "active"},
             new.kind = "goal" => new.status = "active",
             Tasks!Begins(p, [Tasks!NoWork EXCEPT !.pc = "insert", !.new = new])
      PROVE  TasksInv'
  <2>. DEFINE w == [Tasks!NoWork EXCEPT !.pc = "insert", !.new = new]
  <2>1. w \in EditType /\ w.pc = "insert" /\ w.new = new
    BY <1>1 DEF EditType
  <2>2. Matches(new, FALSE)
    BY <1>2 DEF Matches
  <2>. HIDE DEF w
  <2>3. Sound(w)
    BY <2>1, <2>2 DEF Sound
  <2>4. Tasks!Begins(p, w)
    BY <1>2 DEF w
  <2>. QED
    BY <2>1, <2>3, <2>4, BeginsIInv
<1>3. CASE Tasks!SaveReads(p, x)
  <2>. DEFINE new == [Tasks!Gone EXCEPT !.title = x, !.status = "pending"]
  <2>1. /\ new \in Tasks!Row /\ ~new.snoozed /\ ~new.done
        /\ new.status = "pending" /\ new.kind = Tasks!Gone.kind
    BY <1>1 DEF Tasks!Row
  <2>2. Tasks!Gone.kind = "task"
    BY DEF Tasks!Gone
  <2>3. Tasks!Begins(p, [Tasks!NoWork EXCEPT !.pc = "insert", !.new = new])
    BY <1>3 DEF Tasks!SaveReads
  <2>. HIDE DEF new
  <2>. QED
    BY <1>2, <2>1, <2>2, <2>3
<1>4. CASE Tasks!GoalReads(p, x)
  <2>. DEFINE new == [Tasks!Gone EXCEPT !.kind = "goal", !.title = x, !.status = "active"]
  <2>1. /\ new \in Tasks!Row /\ ~new.snoozed /\ ~new.done /\ new.status = "active"
    BY <1>1 DEF Tasks!Row
  <2>2. Tasks!Begins(p, [Tasks!NoWork EXCEPT !.pc = "insert", !.new = new])
    BY <1>4 DEF Tasks!GoalReads
  <2>. HIDE DEF new
  <2>. QED
    BY <1>2, <2>1, <2>2
<1>. QED
  BY <1>3, <1>4

LEMMA ReadsIInv ==
    ASSUME Tasks!TaskAssumption, TasksInv, NEW p \in Session, NEW d \in Tasks!Id,
           Tasks!ByTitle(p, d) \/ Tasks!ById(p, d) \/ Tasks!GoalById(p, d)
    PROVE  TasksInv'
<1>. DEFINE r == rows[d]
<1>1. r \in Tasks!Row
  BY DEF TasksInv, Tasks!TypeOK
<1>2. ASSUME NEW x \in Title, Tasks!UpdateByTitle(p, d, x) \/ Tasks!UpdateTask(p, d, x) \/ Tasks!UpdateGoal(p, d, x)
      PROVE  TasksInv'
  <2>1. r.status # "gone" /\ Tasks!Changes(p, d, Tasks!Renamed(r, x))
    BY <1>2 DEF Tasks!UpdateByTitle, Tasks!UpdateTask, Tasks!UpdateGoal, Tasks!Like,
       Tasks!IsTask, Tasks!IsGoal
  <2>. QED
    BY <1>1, <2>1, Outcomes, ChangesIInv
<1>3. ASSUME Tasks!DeleteByTitle(p, d) \/ Tasks!DeleteTask(p, d) \/ Tasks!DeleteGoal(p, d)
      PROVE  TasksInv'
  BY <1>3, DropsIInv DEF Tasks!DeleteByTitle, Tasks!DeleteTask, Tasks!DeleteGoal
<1>4. PICK x \in Title : TRUE
  BY DEF Tasks!TaskAssumption
<1>5. ASSUME Tasks!CompleteByTitle(p, d) \/ Tasks!SnoozeByTitle(p, d)
      PROVE  TasksInv'
  <2>1. r.kind = "task" /\ r.status = "pending"
    BY <1>5 DEF Tasks!CompleteByTitle, Tasks!SnoozeByTitle, Tasks!Like
  <2>2. Tasks!Changes(p, d, Tasks!Completed(r)) \/ Tasks!Changes(p, d, Tasks!Snoozed(r))
    BY <1>5 DEF Tasks!CompleteByTitle, Tasks!SnoozeByTitle
  <2>. QED
    BY <1>1, <1>4, <2>1, <2>2, Outcomes, ChangesIInv
<1>6. ASSUME \/ Tasks!ReactivateReads(p, d) \/ Tasks!UnsnoozeByTitle(p, d) \/ Tasks!UnsnoozeTask(p, d)
             \/ Tasks!CompleteTask(p, d) \/ Tasks!SnoozeTask(p, d)
      PROVE  TasksInv'
  <2>1. r.kind = "task" /\ r.status # "gone"
    BY <1>6 DEF Tasks!ReactivateReads, Tasks!UnsnoozeByTitle, Tasks!UnsnoozeTask,
       Tasks!CompleteTask, Tasks!SnoozeTask,
                Tasks!Like, Tasks!IsTask
  <2>2. \/ Tasks!Changes(p, d, Tasks!Reactivated(r)) \/ Tasks!Changes(p, d, Tasks!CompletedById(r))
        \/ Tasks!Changes(p, d, Tasks!SnoozedById(r))
    BY <1>6 DEF Tasks!ReactivateReads, Tasks!UnsnoozeByTitle, Tasks!UnsnoozeTask,
       Tasks!CompleteTask, Tasks!SnoozeTask
  <2>. QED
    BY <1>1, <1>4, <2>1, <2>2, Outcomes, ChangesIInv
<1>7. ASSUME Tasks!CompleteGoal(p, d) \/ Tasks!AbandonGoal(p, d)
      PROVE  TasksInv'
  <2>1. r.kind = "goal" /\ r.status # "gone"
    BY <1>7 DEF Tasks!CompleteGoal, Tasks!AbandonGoal, Tasks!IsGoal
  <2>2. Tasks!Changes(p, d, Tasks!Completed(r)) \/ Tasks!Changes(p, d, Tasks!Abandoned(r))
    BY <1>7 DEF Tasks!CompleteGoal, Tasks!AbandonGoal
  <2>. QED
    BY <1>1, <1>4, <2>1, <2>2, Outcomes, ChangesIInv
<1>. QED
  BY <1>2, <1>3, <1>5, <1>6, <1>7 DEF Tasks!ByTitle, Tasks!ById, Tasks!GoalById

-----------------------------------------------------------------------------
(* p is done; the others are where they were. *)
LEMMA EndsFits ==
    ASSUME Tasks!TaskAssumption, TasksInv, NEW p \in Session, Tasks!Ends(p)
    PROVE  editing' \in [Session -> EditType] /\ \A q \in Session : Sound(editing'[q])
<1>1. /\ editing' \in [Session -> EditType]
      /\ \A q \in Session : editing'[q] = editing[q] \/ editing'[q] = Tasks!NoWork
  BY GoneType DEF TasksInv, Tasks!TypeOK, EditType, Tasks!Ends
<1>. QED
  BY <1>1, GoneType DEF TasksInv

LEMMA TaskInsertsIInv ==
    ASSUME Tasks!TaskAssumption, TasksInv, NEW p \in Session, Tasks!Inserts(p)
    PROVE  TasksInv'
<1>. DEFINE new == editing[p].new
            d == used + 1
<1>1. /\ new \in Tasks!Row /\ Matches(new, FALSE)
      /\ d \in Tasks!Id /\ used' \in 0..MaxRows
  <2>1. new \in Tasks!Row /\ Matches(new, FALSE)
    BY DEF TasksInv, Tasks!TypeOK, Sound, Tasks!Inserts
  <2>2. d \in Tasks!Id /\ used' \in 0..MaxRows
    BY DEF TasksInv, Tasks!TypeOK, Tasks!Inserts, Tasks!Id, Tasks!TaskAssumption
  <2>. QED
    BY <2>1, <2>2
<1>2. /\ rows' \in [Tasks!Id -> Tasks!Row] /\ rows'[d] = new
      /\ \A e \in Tasks!Id \ {d} : rows'[e] = rows[e]
  BY <1>1 DEF TasksInv, Tasks!TypeOK, Tasks!Inserts
<1>3. Matches(new, d \in reopened)
  BY <1>1 DEF Matches
<1>4. Tasks!Ends(p) /\ UNCHANGED <<rowsCrossed, reopened>>
  BY DEF Tasks!Inserts
<1>. HIDE DEF new, d
<1>5. RowsMatch'
  BY <1>2, <1>3, <1>4 DEF TasksInv, RowsMatch, Matches
<1>. QED
  BY <1>1, <1>2, <1>4, <1>5, EndsFits DEF TasksInv, Tasks!TypeOK, EditType

LEMMA DeletesIInv ==
    ASSUME Tasks!TaskAssumption, TasksInv, NEW p \in Session, Tasks!Deletes(p)
    PROVE  TasksInv'
<1>. DEFINE d == editing[p].id
<1>1. /\ rows' \in [Tasks!Id -> Tasks!Row] /\ \A e \in Tasks!Id : rows'[e] = rows[e] \/ rows'[e] = Tasks!Gone
  BY GoneType DEF TasksInv, Tasks!TypeOK, Tasks!Deletes
<1>2. \A back : Matches(Tasks!Gone, back)
  BY DEF Matches, Tasks!Gone
<1>3. Tasks!Ends(p) /\ UNCHANGED <<used, rowsCrossed, reopened>>
  BY DEF Tasks!Deletes
<1>4. RowsMatch'
  BY <1>1, <1>2, <1>3 DEF TasksInv, RowsMatch, Matches
<1>. QED
  BY <1>1, <1>3, <1>4, EndsFits DEF TasksInv, Tasks!TypeOK, EditType

(* What is merged into the row that was read is what was made of it. *)
LEMMA MergedFits ==
    ASSUME NEW r \in Tasks!Row, NEW seen \in Tasks!Row, NEW new \in Tasks!Row
    PROVE  Tasks!Merged(r, seen, new) \in Tasks!Row /\ (r = seen => Tasks!Merged(r, seen, new) = new)
<1>. DEFINE m(f) == IF new[f] # seen[f] THEN new[f] ELSE r[f]
<1>1. Tasks!Merged(r, seen, new) = [f \in {"kind", "title", "status", "snoozed", "done"} |-> m(f)]
  BY DEF Tasks!Merged, Tasks!Row
<1>2. Tasks!Merged(r, seen, new) = [kind |-> m("kind"), title |-> m("title"), status |-> m("status"),
                              snoozed |-> m("snoozed"), done |-> m("done")]
  BY <1>1
<1>3. /\ m("kind") \in {"task", "goal"} /\ m("title") \in Title
      /\ m("status") \in {"gone", "pending", "snoozed", "completed", "active", "abandoned"}
  BY DEF Tasks!Row
<1>4. m("snoozed") \in BOOLEAN /\ m("done") \in BOOLEAN
  BY DEF Tasks!Row
<1>5. Tasks!Merged(r, seen, new) \in Tasks!Row
  BY <1>2, <1>3, <1>4 DEF Tasks!Row
<1>6. ASSUME r = seen PROVE Tasks!Merged(r, seen, new) = new
  <2>1. \A f : m(f) = new[f]
    BY <1>6
  <2>2. new = [kind |-> new.kind, title |-> new.title, status |-> new.status,
               snoozed |-> new.snoozed, done |-> new.done]
    BY DEF Tasks!Row
  <2>. HIDE DEF m
  <2>. QED
    BY <1>2, <2>1, <2>2
<1>. QED
  BY <1>5, <1>6

LEMMA WritesIInv ==
    ASSUME Tasks!TaskAssumption, TasksInv, NEW p \in Session, Tasks!Writes(p)
    PROVE  TasksInv'
<1>. DEFINE w == editing[p]
            d == w.id
            m == Tasks!Merged(rows[d], w.seen, w.new)
<1>1. /\ w \in EditType /\ d \in Tasks!Id /\ rows[d] \in Tasks!Row /\ w.seen \in Tasks!Row
      /\ w.new \in Tasks!Row
      /\ w.pc = "write" /\ Sound(w)
  BY DEF TasksInv, Tasks!TypeOK, EditType, Sound, Tasks!Writes
<1>2. Tasks!Ends(p) /\ UNCHANGED used
  BY DEF Tasks!Writes
<1>3. CASE rows[d].status = "gone"
  <2>1. UNCHANGED <<rows, rowsCrossed, reopened>>
    BY <1>3 DEF Tasks!Writes
  <2>. QED
    BY <1>2, <2>1, EndsFits DEF TasksInv, Tasks!TypeOK, EditType, RowsMatch, Matches
<1>4. CASE rows[d].status # "gone"
  <2>. DEFINE back == w.seen.status = "completed" /\ w.new.status = "pending"
  <2>1. /\ rows' = [rows EXCEPT ![d] = m]
        /\ rowsCrossed' = IF rows[d] = w.seen THEN rowsCrossed ELSE rowsCrossed \cup {d}
        /\ reopened' = IF back THEN reopened \cup {d} ELSE reopened
    BY <1>4 DEF Tasks!Writes
  <2>2. m \in Tasks!Row /\ (rows[d] = w.seen => m = w.new)
    BY <1>1, MergedFits
  <2>3. /\ rows' \in [Tasks!Id -> Tasks!Row] /\ rows'[d] = m
        /\ \A e \in Tasks!Id \ {d} : rows'[e] = rows[e]
    BY <1>1, <2>1, <2>2 DEF TasksInv, Tasks!TypeOK
  <2>4. rowsCrossed' \subseteq Tasks!Id /\ reopened' \subseteq Tasks!Id
    BY <1>1, <2>1 DEF TasksInv, Tasks!TypeOK
  <2>5. ASSUME d \notin rowsCrossed' PROVE Matches(rows'[d], d \in reopened')
    <3>1. d \notin rowsCrossed /\ rows[d] = w.seen /\ m = w.new
      BY <2>1, <2>2, <2>5
    <3>2. Matches(w.seen, d \in reopened)
      BY <1>1, <3>1 DEF TasksInv, RowsMatch
    <3>3. CASE d \in reopened
      <4>1. Matches(w.seen, TRUE)
        BY <3>2, <3>3 DEF Matches
      <4>2. Matches(w.new, TRUE)
        BY <1>1, <4>1 DEF Sound, Matches
      <4>. QED
        BY <2>1, <2>3, <3>1, <3>3, <4>2 DEF Matches
    <3>4. CASE d \notin reopened
      <4>1. Matches(w.seen, FALSE)
        BY <3>2, <3>4 DEF Matches
      <4>2. Matches(w.new, back)
        BY <1>1, <4>1 DEF Sound, Matches
      <4>. QED
        BY <2>1, <2>3, <3>1, <4>2 DEF Matches
    <3>. QED
      BY <3>3, <3>4
  <2>6. ASSUME NEW e \in Tasks!Id \ {d}, e \notin rowsCrossed'
        PROVE Matches(rows'[e], e \in reopened')
    BY <2>1, <2>3, <2>6 DEF TasksInv, RowsMatch, Matches
  <2>7. RowsMatch'
    BY <1>1, <2>5, <2>6 DEF RowsMatch, Matches
  <2>. QED
    BY <1>2, <2>3, <2>4, <2>7, EndsFits DEF TasksInv, Tasks!TypeOK, EditType
<1>. QED
  BY <1>3, <1>4

LEMMA TaskNextIInv == ASSUME Tasks!TaskAssumption, TasksInv, [Tasks!Next]_Tasks!vars PROVE TasksInv'
<1>1. CASE UNCHANGED Tasks!vars
  BY <1>1 DEF Tasks!vars, TasksInv, Tasks!TypeOK, RowsMatch, Matches, Sound
<1>2. ASSUME NEW p \in Session, NEW x \in Title, Tasks!SaveReads(p, x) \/ Tasks!GoalReads(p, x)
      PROVE  TasksInv'
  BY <1>2, NewReadsIInv
<1>3. ASSUME NEW p \in Session, NEW d \in Tasks!Id, Tasks!ByTitle(p, d) \/ Tasks!ById(p, d) \/ Tasks!GoalById(p, d)
      PROVE  TasksInv'
  BY <1>3, ReadsIInv
<1>4. ASSUME NEW p \in Session, Tasks!Inserts(p) \/ Tasks!Writes(p) \/ Tasks!Deletes(p)
      PROVE  TasksInv'
  BY <1>4, TaskInsertsIInv, WritesIInv, DeletesIInv
<1>. QED
  BY <1>1, <1>2, <1>3, <1>4 DEF Tasks!Next

LEMMA TasksAlone == Tasks!Spec => []TasksInv
<1>1. Tasks!Init => TasksInv
  BY TaskInitIInv, ServicesAssumption DEF ServicesAssumption
<1>2. TasksInv /\ [Tasks!Next]_Tasks!vars => TasksInv'
  BY TaskNextIInv, ServicesAssumption DEF ServicesAssumption
<1>. QED
  BY <1>1, <1>2, PTL DEF Tasks!Spec

(* A behaviour of the services is one of this component, or a stutter.    *)
LEMMA IsTasks == Spec => Tasks!Spec
<1>1. Init => Tasks!Init
  BY DEF Init
<1>2. [Next]_vars => [Tasks!Next]_Tasks!vars
  BY DEF Next, vars, taskVars, Tasks!vars
<1>. QED
  BY <1>1, <1>2, PTL DEF Spec, Tasks!Spec

LEMMA TasksInvariance == Spec => []TasksInv
BY TasksAlone, IsTasks, PTL

-----------------------------------------------------------------------------
(* The rows and the edits under way have their types. *)
THEOREM TaskTypes == Spec => []Tasks!TypeOK
<1>1. TasksInv => Tasks!TypeOK
  BY DEF TasksInv
<1>. QED
  BY <1>1, TasksInvariance, PTL

(* Whatever sessions do to the tasks and goals of a user, by title or by   *)
(* id, the stamps of a row match its status, but for rows on which two     *)
(* edits overtook each other and completed ones that were brought back     *)
(* (task_service.py, goal_service.py).                                     *)
THEOREM StampsMatch == Spec => []StampsMatchStatus
<1>1. TasksInv => StampsMatchStatus
  BY DEF TasksInv, RowsMatch, Matches, StampsMatchStatus, Tasks!StampsMatchStatus
<1>. QED
  BY <1>1, TasksInvariance, PTL

-----------------------------------------------------------------------------
(* EmailAutomation. *)

RunType == [pc : {"idle", "checked", "claimed", "acted"}, kind : Automation!Kind,
            thread : Thread, counted : SUBSET Thread]

HasClaimed(w, k, t) == run[w].pc = "claimed" /\ run[w].kind = k /\ run[w].thread = t

(* The event of a thread is claimed once, and what is claimed has not been *)
(* acted on.                                                               *)
Unclaimed == \A k \in Automation!Kind, t \in Thread :
    /\ acts[k][t] <= 1
    /\ event[k][t] = "none" => acts[k][t] = 0 /\ \A w \in Run : ~HasClaimed(w, k, t)
    /\ \A w \in Run : HasClaimed(w, k, t) =>
          acts[k][t] = 0 /\ \A v \in Run : HasClaimed(v, k, t) => v = w

(* A sweep that is about to call has counted fewer than the cap. *)
Counted == \A w \in Run :
    /\ run[w].pc \in {"checked", "claimed"} /\ run[w].kind = "call" =>
          IsFiniteSet(run[w].counted) /\ Cardinality(run[w].counted) < DailyCap
    /\ run[w].pc = "acted" /\ run[w].kind = "call" => run[w].thread \in calls

Capped == /\ IsFiniteSet(calls) /\ Automation!Created \subseteq calls
          /\ Cardinality(calls \ unseen) <= DailyCap

AutomationInv == Automation!TypeOK /\ Unclaimed /\ Counted /\ Capped

-----------------------------------------------------------------------------
LEMMA IdleType == ASSUME Automation!AutomationAssumption
                  PROVE Automation!Idle \in RunType /\ Automation!Idle.pc = "idle"
<1>1. (CHOOSE t \in Thread : TRUE) \in Thread
  BY DEF Automation!AutomationAssumption
<1>. QED
  BY <1>1 DEF Automation!Idle, RunType, Automation!Kind

(* Only w moves. *)
LEMMA RestsFits ==
    ASSUME Automation!AutomationAssumption, Automation!TypeOK, NEW w \in Run, Automation!Rests(w)
    PROVE  /\ run' \in [Run -> RunType] /\ run'[w].pc = "idle"
           /\ \A v \in Run \ {w} : run'[v] = run[v]
BY IdleType DEF Automation!TypeOK, RunType, Automation!Rests

LEMMA MovesFits ==
    ASSUME Automation!TypeOK, NEW w \in Run, NEW pc \in {"claimed", "acted"},
           run' = [run EXCEPT ![w].pc = pc]
    PROVE  /\ run' \in [Run -> RunType] /\ run'[w].pc = pc
           /\ run'[w].kind = run[w].kind /\ run'[w].thread = run[w].thread
           /\ run'[w].counted = run[w].counted
           /\ \A v \in Run \ {w} : run'[v] = run[v]
BY DEF Automation!TypeOK, RunType

LEMMA MarksFits ==
    ASSUME Automation!TypeOK, NEW w \in Run, NEW status \in {"processing", "created", "failed"},
           Automation!Marks(w, status)
    PROVE  /\ event' \in [Automation!Kind -> [Thread -> {"none", "processing", "created", "failed"}]]
           /\ event'[run[w].kind][run[w].thread] = status
           /\ \A k \in Automation!Kind, t \in Thread :
                 k # run[w].kind \/ t # run[w].thread => event'[k][t] = event[k][t]
<1>1. run[w].kind \in Automation!Kind /\ run[w].thread \in Thread
  BY DEF Automation!TypeOK
<1>. QED
  BY <1>1 DEF Automation!TypeOK, Automation!Marks

(* A sweep that comes to rest takes nothing with it. *)
LEMMA RestsIInv ==
    ASSUME Automation!AutomationAssumption, AutomationInv, NEW w \in Run, Automation!Rests(w),
           UNCHANGED <<calls, acts, unseen>>, ringing' \in BOOLEAN, cooling' \in BOOLEAN,
           \/ UNCHANGED event
           \/ \E status \in {"created", "failed"} :
                 /\ Automation!Marks(w, status) /\ run[w].pc \in {"claimed", "acted"}
                 /\ status = "created" => run[w].pc = "acted"
    PROVE  AutomationInv'
<1>1. /\ run' \in [Run -> RunType] /\ run'[w].pc = "idle"
      /\ \A v \in Run \ {w} : run'[v] = run[v]
  BY RestsFits DEF AutomationInv
<1>2. /\ event' \in [Automation!Kind -> [Thread -> {"none", "processing", "created", "failed"}]]
      /\ \A k \in Automation!Kind, t \in Thread : event'[k][t] = "none" => event[k][t] = "none"
      /\ \A t \in Thread : event'["call"][t] = "created" =>
            \/ event["call"][t] = "created"
            \/ run[w].pc = "acted" /\ run[w].kind = "call" /\ run[w].thread = t
  <2>1. CASE UNCHANGED event
    BY <2>1 DEF AutomationInv, Automation!TypeOK
  <2>2. ASSUME NEW status \in {"created", "failed"}, Automation!Marks(w, status),
               status = "created" => run[w].pc = "acted"
        PROVE  <1>2
    BY <2>2, MarksFits DEF AutomationInv, Automation!Kind
  <2>. QED
    BY <2>1, <2>2
<1>3. Automation!TypeOK'
  BY <1>1, <1>2 DEF AutomationInv, Automation!TypeOK, RunType
<1>4. Unclaimed'
  BY <1>1, <1>2 DEF AutomationInv, Unclaimed, HasClaimed
<1>5. Counted'
  BY <1>1 DEF AutomationInv, Counted
<1>6. Automation!Created' \subseteq calls'
  BY <1>2 DEF AutomationInv, Capped, Automation!Created, Counted
<1>. QED
  BY <1>3, <1>4, <1>5, <1>6 DEF AutomationInv, Capped

-----------------------------------------------------------------------------
LEMMA AutomationInitIInv == ASSUME Automation!AutomationAssumption, Automation!Init PROVE AutomationInv
<1>1. run \in [Run -> RunType] /\ \A w \in Run : run[w].pc = "idle"
  BY IdleType DEF Automation!Init
<1>2. Automation!TypeOK
  BY <1>1 DEF Automation!Init, Automation!TypeOK, RunType
<1>3. Unclaimed /\ Counted
  BY <1>1 DEF Automation!Init, Unclaimed, HasClaimed, Counted
<1>4. Capped
  BY FS_EmptySet DEF Automation!Init, Capped, Automation!Created, Automation!Kind,
     Automation!AutomationAssumption
<1>. QED
  BY <1>2, <1>3, <1>4 DEF AutomationInv

(* The component's instance of FiniteSets counts as the module's own does. *)
LEMMA SameCount == ASSUME NEW S PROVE Automation!Cardinality(S) = Cardinality(S)
BY DEF Cardinality, Automation!Cardinality

LEMMA ChecksIInv ==
    ASSUME Automation!AutomationAssumption, AutomationInv, NEW w \in Run, NEW k \in Automation!Kind,
           NEW t \in Thread,
           Automation!Checks(w, k, t)
    PROVE  AutomationInv'
<1>1. /\ run' \in [Run -> RunType]
      /\ run'[w] = [pc |-> "checked", kind |-> k, thread |-> t, counted |-> Automation!Created]
      /\ \A v \in Run \ {w} : run'[v] = run[v]
  BY DEF AutomationInv, Automation!TypeOK, RunType, Automation!Checks, Automation!Created
<1>2. UNCHANGED <<event, calls, ringing, cooling, acts, unseen>>
  BY DEF Automation!Checks
<1>3. IsFiniteSet(Automation!Created) /\ Cardinality(Automation!Created) \in Nat
  BY FS_Subset, FS_CardinalityType DEF AutomationInv, Capped
<1>4. k = "call" => Cardinality(Automation!Created) < DailyCap
  BY <1>3, SameCount DEF Automation!Checks, Automation!Limited, Automation!AutomationAssumption
<1>5. Automation!TypeOK'
  BY <1>1, <1>2 DEF AutomationInv, Automation!TypeOK, RunType
<1>6. \A v \in Run, k1 \in Automation!Kind, t1 \in Thread : 
          HasClaimed(v, k1, t1)' => HasClaimed(v, k1, t1)
  BY <1>1 DEF HasClaimed
<1>7. Unclaimed'
  BY <1>2, <1>6 DEF AutomationInv, Unclaimed
<1>8. Counted'
  BY <1>1, <1>2, <1>3, <1>4 DEF AutomationInv, Counted
<1>9. Capped'
  BY <1>2 DEF AutomationInv, Capped, Automation!Created
<1>. QED
  BY <1>5, <1>7, <1>8, <1>9 DEF AutomationInv

LEMMA ClaimsIInv ==
    ASSUME Automation!AutomationAssumption, AutomationInv, NEW w \in Run, Automation!Claims(w)
    PROVE  AutomationInv'
<1>1. PICK k \in Automation!Kind, t \in Thread :
          k = run[w].kind /\ t = run[w].thread /\ run[w].pc = "checked"
  BY DEF AutomationInv, Automation!TypeOK, Automation!Claims, Automation!At
<1>2. UNCHANGED <<calls, ringing, cooling, acts, unseen>>
  BY DEF Automation!Claims
<1>3. CASE event[k][t] # "none"
  BY <1>1, <1>2, <1>3, RestsIInv DEF Automation!Claims, AutomationInv, Automation!TypeOK
<1>4. CASE event[k][t] = "none"
  <2>1. Automation!Marks(w, "processing") /\ run' = [run EXCEPT ![w].pc = "claimed"]
    BY <1>1, <1>4 DEF Automation!Claims
  <2>2. /\ run' \in [Run -> RunType] /\ run'[w].pc = "claimed"
        /\ run'[w].kind = k /\ run'[w].thread = t /\ run'[w].counted = run[w].counted
        /\ \A v \in Run \ {w} : run'[v] = run[v]
    BY <1>1, <2>1, MovesFits DEF AutomationInv
  <2>3. /\ event' \in [Automation!Kind -> [Thread -> {"none", "processing", "created", "failed"}]]
        /\ event'[k][t] = "processing"
        /\ \A k1 \in Automation!Kind, t1 \in Thread : k1 # k \/ t1 # t => event'[k1][t1] = event[k1][t1]
    BY <1>1, <2>1, MarksFits DEF AutomationInv
  <2>4. Automation!TypeOK'
    BY <1>2, <2>2, <2>3 DEF AutomationInv, Automation!TypeOK, RunType
  <2>5. ASSUME NEW k1 \in Automation!Kind, NEW t1 \in Thread
        PROVE  /\ acts'[k1][t1] <= 1
               /\ event'[k1][t1] = "none" =>
                     acts'[k1][t1] = 0 /\ \A v \in Run : ~HasClaimed(v, k1, t1)'
               /\ \A v \in Run : HasClaimed(v, k1, t1)' =>
                     acts'[k1][t1] = 0 /\ \A u \in Run : HasClaimed(u, k1, t1)' => u = v
    <3>1. /\ acts[k1][t1] <= 1
          /\ event[k1][t1] = "none" => acts[k1][t1] = 0 /\ \A v \in Run : ~HasClaimed(v, k1, t1)
          /\ \A v \in Run : HasClaimed(v, k1, t1) =>
                acts[k1][t1] = 0 /\ \A u \in Run : HasClaimed(u, k1, t1) => u = v
      BY DEF AutomationInv, Unclaimed
    <3>2. \A v \in Run : HasClaimed(v, k1, t1)' =>
             HasClaimed(v, k1, t1) \/ (v = w /\ k1 = k /\ t1 = t)
      BY <2>2 DEF HasClaimed
    <3>3. CASE k1 = k /\ t1 = t
      BY <1>2, <1>4, <2>3, <3>1, <3>2, <3>3
    <3>4. CASE k1 # k \/ t1 # t
      BY <1>2, <2>3, <3>1, <3>2, <3>4
    <3>. QED
      BY <3>3, <3>4
  <2>6. Unclaimed'
    BY <2>5 DEF Unclaimed
  <2>7. Counted'
    BY <1>1, <1>2, <2>2 DEF AutomationInv, Counted
  <2>8. Automation!Created' \subseteq Automation!Created
    BY <2>3 DEF Automation!Created, Automation!Kind
  <2>. QED
    BY <1>2, <2>4, <2>6, <2>7, <2>8 DEF AutomationInv, Capped
<1>. QED
  BY <1>3, <1>4

(* The thread that is acted on was claimed, by this sweep alone. *)
LEMMA ActsFits ==
    ASSUME AutomationInv, NEW w \in Run, Automation!At(w, "claimed"), Automation!Acts(w), UNCHANGED event
    PROVE  /\ run' \in [Run -> RunType] /\ run'[w].pc = "acted"
           /\ run'[w].kind = run[w].kind /\ run'[w].thread = run[w].thread
           /\ \A v \in Run \ {w} : run'[v] = run[v]
           /\ acts' \in [Automation!Kind -> [Thread -> Nat]] /\ Unclaimed'
<1>1. PICK k \in Automation!Kind, t \in Thread :
          k = run[w].kind /\ t = run[w].thread /\ run[w].pc = "claimed"
  BY DEF AutomationInv, Automation!TypeOK, Automation!At
<1>2. /\ run' \in [Run -> RunType] /\ run'[w].pc = "acted"
      /\ run'[w].kind = k /\ run'[w].thread = t
      /\ \A v \in Run \ {w} : run'[v] = run[v]
  BY <1>1, MovesFits DEF AutomationInv, Automation!Acts
<1>3. /\ acts' \in [Automation!Kind -> [Thread -> Nat]] /\ acts'[k][t] = acts[k][t] + 1
      /\ \A k1 \in Automation!Kind, t1 \in Thread : k1 # k \/ t1 # t => acts'[k1][t1] = acts[k1][t1]
  BY <1>1 DEF AutomationInv, Automation!TypeOK, Automation!Acts
<1>4. HasClaimed(w, k, t) /\ acts[k][t] = 0 /\ event[k][t] # "none"
  BY <1>1 DEF AutomationInv, Unclaimed, HasClaimed
<1>5. ASSUME NEW k1 \in Automation!Kind, NEW t1 \in Thread
      PROVE  /\ acts'[k1][t1] <= 1
             /\ event'[k1][t1] = "none" =>
                   acts'[k1][t1] = 0 /\ \A v \in Run : ~HasClaimed(v, k1, t1)'
             /\ \A v \in Run : HasClaimed(v, k1, t1)' =>
                   acts'[k1][t1] = 0 /\ \A u \in Run : HasClaimed(u, k1, t1)' => u = v
  <2>1. /\ acts[k1][t1] <= 1
        /\ event[k1][t1] = "none" => acts[k1][t1] = 0 /\ \A v \in Run : ~HasClaimed(v, k1, t1)
        /\ \A v \in Run : HasClaimed(v, k1, t1) =>
              acts[k1][t1] = 0 /\ \A u \in Run : HasClaimed(u, k1, t1) => u = v
    BY DEF AutomationInv, Unclaimed
  <2>2. \A v \in Run : HasClaimed(v, k1, t1)' => HasClaimed(v, k1, t1) /\ v # w
    BY <1>2 DEF HasClaimed
  <2>3. CASE k1 = k /\ t1 = t
    <3>1. \A v \in Run : ~HasClaimed(v, k1, t1)'
      BY <1>4, <2>1, <2>2, <2>3
    <3>2. acts'[k1][t1] = 1
      BY <1>3, <1>4, <2>3
    <3>. QED
      BY <1>4, <2>3, <3>1, <3>2
  <2>4. CASE k1 # k \/ t1 # t
    <3>1. acts'[k1][t1] = acts[k1][t1]
      BY <1>3, <2>4
    <3>. QED
      BY <2>1, <2>2, <3>1
  <2>. QED
    BY <2>3, <2>4
<1>6. Unclaimed'
  BY <1>5 DEF Unclaimed
<1>. QED
  BY <1>1, <1>2, <1>3, <1>6

LEMMA SavesTaskIInv ==
    ASSUME Automation!AutomationAssumption, AutomationInv, NEW w \in Run, Automation!SavesTask(w)
    PROVE  AutomationInv'
<1>1. /\ UNCHANGED <<event, calls, ringing, cooling, unseen>> /\ run[w].kind = "task"
      /\ Automation!At(w, "claimed") /\ Automation!Acts(w)
  BY DEF Automation!SavesTask
<1>2. /\ run' \in [Run -> RunType] /\ run'[w].pc = "acted" /\ run'[w].kind = "task"
      /\ \A v \in Run \ {w} : run'[v] = run[v]
      /\ acts' \in [Automation!Kind -> [Thread -> Nat]] /\ Unclaimed'
  BY <1>1, ActsFits
<1>3. Automation!TypeOK'
  BY <1>1, <1>2 DEF AutomationInv, Automation!TypeOK, RunType
<1>4. Counted'
  BY <1>1, <1>2 DEF AutomationInv, Counted
<1>. QED
  BY <1>1, <1>2, <1>3, <1>4 DEF AutomationInv, Capped, Automation!Created

LEMMA CreatesCallIInv ==
    ASSUME Automation!AutomationAssumption, AutomationInv, NEW w \in Run, Automation!CreatesCall(w)
    PROVE  AutomationInv'
<1>. DEFINE t == run[w].thread
            n == run[w].counted
<1>1. /\ UNCHANGED <<event, cooling>> /\ run[w].kind = "call"
      /\ Automation!At(w, "claimed") /\ Automation!Acts(w) /\ calls' = calls \cup {t}
      /\ ringing' = TRUE
      /\ unseen' = IF calls = n THEN unseen ELSE unseen \cup {t}
  BY DEF Automation!CreatesCall
<1>2. /\ run' \in [Run -> RunType] /\ run'[w].pc = "acted" /\ run'[w].thread = t
      /\ \A v \in Run \ {w} : run'[v] = run[v]
      /\ acts' \in [Automation!Kind -> [Thread -> Nat]] /\ Unclaimed'
  BY <1>1, ActsFits
<1>3. t \in Thread /\ IsFiniteSet(n) /\ Cardinality(n) < DailyCap
  BY <1>1 DEF AutomationInv, Automation!TypeOK, Counted, Automation!At
<1>4. Automation!TypeOK'
  BY <1>1, <1>2, <1>3 DEF AutomationInv, Automation!TypeOK, RunType
<1>5. Counted'
  BY <1>1, <1>2 DEF AutomationInv, Counted
<1>6. IsFiniteSet(calls') /\ Automation!Created' \subseteq calls'
  BY <1>1, FS_AddElement DEF AutomationInv, Capped, Automation!Created
<1>7. Cardinality(calls' \ unseen') <= DailyCap
  <2>1. CASE calls = n
    <3>1. calls' \ unseen' \subseteq n \cup {t}
      BY <1>1, <2>1
    <3>2. /\ IsFiniteSet(n \cup {t}) /\ Cardinality(n) \in Nat
          /\ Cardinality(n \cup {t}) <= Cardinality(n) + 1
      <4>1. Cardinality(n) \in Nat
        BY <1>3, FS_CardinalityType
      <4>2. /\ IsFiniteSet(n \cup {t})
            /\ Cardinality(n \cup {t}) = Cardinality(n) \/
               Cardinality(n \cup {t}) = Cardinality(n) + 1
        BY <1>3, FS_AddElement
      <4>. QED
        BY <4>1, <4>2
    <3>3. /\ Cardinality(calls' \ unseen') <= Cardinality(n \cup {t})
          /\ Cardinality(calls' \ unseen') \in Nat /\ Cardinality(n \cup {t}) \in Nat
      BY <3>1, <3>2, FS_Subset, FS_CardinalityType
    <3>. QED
      BY <1>3, <3>2, <3>3 DEF Automation!AutomationAssumption
  <2>2. CASE calls # n
    <3>1. calls' \ unseen' \subseteq calls \ unseen
      BY <1>1, <2>2
    <3>2. IsFiniteSet(calls \ unseen)
      BY FS_Subset DEF AutomationInv, Capped
    <3>3. /\ Cardinality(calls' \ unseen') <= Cardinality(calls \ unseen)
          /\ Cardinality(calls' \ unseen') \in Nat /\ Cardinality(calls \ unseen) \in Nat
      BY <3>1, <3>2, FS_Subset, FS_CardinalityType
    <3>. QED
      BY <3>3 DEF AutomationInv, Capped, Automation!AutomationAssumption
  <2>. QED
    BY <2>1, <2>2
<1>. QED
  BY <1>2, <1>4, <1>5, <1>6, <1>7 DEF AutomationInv, Capped

LEMMA AutomationNextIInv == ASSUME Automation!AutomationAssumption, AutomationInv, [Automation!Next]_Automation!vars
                  PROVE AutomationInv'
<1>1. ASSUME UNCHANGED <<event, calls, run, acts, unseen>>,
             ringing' \in BOOLEAN, cooling' \in BOOLEAN
      PROVE  AutomationInv'
  BY <1>1 DEF AutomationInv, Automation!TypeOK, Unclaimed, HasClaimed, Counted, Capped, Automation!Created
<1>2. CASE UNCHANGED Automation!vars \/ Automation!Hangup \/ Automation!Cools
  BY <1>1, <1>2 DEF Automation!vars, Automation!Hangup, Automation!Cools, AutomationInv, Automation!TypeOK
<1>3. ASSUME NEW w \in Run, NEW k \in Automation!Kind, NEW t \in Thread, Automation!Checks(w, k, t)
      PROVE AutomationInv'
  BY <1>3, ChecksIInv
<1>4. ASSUME NEW w \in Run, Automation!Claims(w) \/ Automation!SavesTask(w) \/ Automation!CreatesCall(w)
      PROVE AutomationInv'
  BY <1>4, ClaimsIInv, SavesTaskIInv, CreatesCallIInv
<1>5. ASSUME NEW w \in Run, Automation!CallConflicts(w) \/ Automation!Dies(w) PROVE AutomationInv'
  BY <1>5, RestsIInv DEF Automation!CallConflicts, Automation!Dies, AutomationInv, Automation!TypeOK
<1>6. ASSUME NEW w \in Run, Automation!Completes(w) PROVE AutomationInv'
  <2>1. cooling' \in BOOLEAN /\ ringing' \in BOOLEAN
    BY <1>6 DEF Automation!Completes, AutomationInv, Automation!TypeOK
  <2>. QED
    BY <1>6, <2>1, RestsIInv DEF Automation!Completes, Automation!At
<1>7. ASSUME NEW w \in Run, Automation!Fails(w) PROVE AutomationInv'
  BY <1>7, RestsIInv DEF Automation!Fails, Automation!At, AutomationInv, Automation!TypeOK
<1>. QED
  BY <1>2, <1>3, <1>4, <1>5, <1>6, <1>7 DEF Automation!Next

LEMMA AutomationAlone == Automation!Spec => []AutomationInv
<1>1. Automation!Init => AutomationInv
  BY AutomationInitIInv, ServicesAssumption DEF ServicesAssumption
<1>2. AutomationInv /\ [Automation!Next]_Automation!vars => AutomationInv'
  BY AutomationNextIInv, ServicesAssumption DEF ServicesAssumption
<1>. QED
  BY <1>1, <1>2, PTL DEF Automation!Spec

(* A behaviour of the services is one of this component, or a stutter.    *)
LEMMA IsAutomation == Spec => Automation!Spec
<1>1. Init => Automation!Init
  BY DEF Init
<1>2. [Next]_vars => [Automation!Next]_Automation!vars
  BY DEF Next, vars, automationVars, Automation!vars
<1>. QED
  BY <1>1, <1>2, PTL DEF Spec, Automation!Spec

LEMMA AutomationInvariance == Spec => []AutomationInv
BY AutomationAlone, IsAutomation, PTL

-----------------------------------------------------------------------------
(* The events, the sweeps and the counts have their types. *)
THEOREM AutomationTypes == Spec => []Automation!TypeOK
<1>1. AutomationInv => Automation!TypeOK
  BY DEF AutomationInv
<1>. QED
  BY <1>1, AutomationInvariance, PTL

(* However many sweeps overlap and wherever workers die, the first claim   *)
(* of a thread's event is the only one that acts (_claim_event).           *)
THEOREM ThreadActedOnce == Spec => []ActedOnce
<1>1. AutomationInv => ActedOnce
  BY DEF AutomationInv, Unclaimed, ActedOnce, Automation!ActedOnce
<1>. QED
  BY <1>1, AutomationInvariance, PTL

(* And urgent calls that every sweep has counted stay within the cap of    *)
(* the day (_urgent_call_rate_limited).                                    *)
THEOREM CallsStayCapped == Spec => []UrgentCallsCapped
<1>1. AutomationInv => UrgentCallsCapped
  BY SameCount DEF AutomationInv, Capped, UrgentCallsCapped, Automation!UrgentCallsCapped
<1>. QED
  BY <1>1, AutomationInvariance, PTL

-----------------------------------------------------------------------------
(* GoogleAccount. *)

VisitType == [pc : {"idle", "started", "consented", "read"}, service : Service,
              consent : Google!Consent, got : SUBSET Service, seen : SUBSET Service]
CallType == [pc : {"idle", "sent", "refused"}, access : Google!Consent, refresh : Google!Consent]
Leaving == [pc : {"idle", "read", "revoked"}, service : Service, seen : Google!Row]

(* A token is of a consent that was given. *)
Given == /\ row.refresh <= grants
         /\ \A v \in Visit : visit[v].consent <= grants
         /\ \A c \in Call : call[c].refresh <= grants

(* What a visit brings is a whole connection. *)
Brings == \A v \in Visit : visit[v].pc \in {"consented", "read"} =>
             visit[v].consent # 0 /\ visit[v].got # {}

(* Nothing is cleared that was not refused. *)
Refused == \A c \in Call : call[c].pc = "refused" =>
              call[c].refresh \notin good \/ refusals > 0

UsesBounded == \A s \in Service : uses[s] <= MaxUses * issued

GoogleInv == Google!TypeOK /\ Given /\ Brings /\ Refused /\ UsesBounded /\ Google!NoHalfConnection

-----------------------------------------------------------------------------
LEMMA Nones ==
    ASSUME Google!GoogleAssumption
    PROVE  /\ Google!NoRow \in Google!Row /\ Google!NoVisit \in VisitType /\ Google!NoCall \in CallType /\ Google!Staying \in Leaving
           /\ Google!NoRow.scopes = {} /\ Google!NoRow.access = 0 /\ Google!NoRow.refresh = 0
           /\ Google!NoVisit.pc = "idle" /\ Google!NoVisit.consent = 0
           /\ Google!NoCall.pc = "idle" /\ Google!NoCall.refresh = 0
           /\ 0 \in Google!Consent
<1>1. 0 \in Google!Consent
  BY DEF Google!Consent, Google!GoogleAssumption
<1>2. Google!Some \in Service
  BY DEF Google!Some, Google!GoogleAssumption
<1>3. Google!NoRow \in Google!Row /\ Google!NoRow.scopes = {} /\ Google!NoRow.access = 0
      /\ Google!NoRow.refresh = 0
  BY <1>1 DEF Google!NoRow, Google!Row
<1>4. Google!NoVisit \in VisitType /\ Google!NoVisit.pc = "idle" /\ Google!NoVisit.consent = 0
  BY <1>1, <1>2 DEF Google!NoVisit, VisitType
<1>5. Google!NoCall \in CallType /\ Google!NoCall.pc = "idle" /\ Google!NoCall.refresh = 0
  BY <1>1 DEF Google!NoCall, CallType
<1>6. Google!Staying \in Leaving
  BY <1>2, <1>3 DEF Google!Staying, Leaving
<1>. QED
  BY <1>1, <1>3, <1>4, <1>5, <1>6

(* One visit moves. *)
LEMMA VisitIInv ==
    ASSUME Google!GoogleAssumption, GoogleInv, NEW v \in Visit, NEW f \in VisitType,
           visit' = [visit EXCEPT ![v] = f], f.consent <= grants',
           f.pc \in {"consented", "read"} => f.consent # 0 /\ f.got # {},
           grants' \in Google!Consent, grants <= grants', good' \subseteq good \cup (Google!Consent \ 0..grants),
           granted' \subseteq Service, UNCHANGED <<call, leaving, refusals, issued>>,
           uses' \in [Service -> 0..(MaxUses * MaxLinks)], \A s \in Service : uses'[s] <= uses[s],
           row' \in Google!Row, row'.refresh <= grants', rowCrossed' \in BOOLEAN, Google!NoHalfConnection'
    PROVE  GoogleInv'
<1>1. /\ visit' \in [Visit -> VisitType] /\ visit'[v] = f
      /\ \A w \in Visit \ {v} : visit'[w] = visit[w]
  BY DEF GoogleInv, Google!TypeOK, VisitType
<1>2. Google!TypeOK'
  BY <1>1 DEF GoogleInv, Google!TypeOK, VisitType
<1>3. /\ grants \in Nat /\ grants' \in Nat /\ \A c \in Call : call[c].refresh \in Nat
      /\ \A w \in Visit : visit[w].consent \in Nat
  BY DEF GoogleInv, Google!TypeOK, Google!Consent
<1>4. Given'
  BY <1>1, <1>3 DEF GoogleInv, Given
<1>5. Brings'
  BY <1>1 DEF GoogleInv, Brings
<1>6. Refused'
  BY <1>3 DEF GoogleInv, Refused, Given, Google!TypeOK
<1>7. UsesBounded'
  <2>1. \A s \in Service : uses[s] \in Nat /\ uses'[s] \in Nat
    BY DEF GoogleInv, Google!TypeOK
  <2>2. MaxUses * issued \in Nat
    BY DEF GoogleInv, Google!TypeOK, Google!GoogleAssumption
  <2>. QED
    BY <2>1, <2>2 DEF GoogleInv, UsesBounded
<1>. QED
  BY <1>2, <1>4, <1>5, <1>6, <1>7 DEF GoogleInv

(* A step that takes no visit and gives no consent. *)
LEMMA OtherIInv ==
    ASSUME Google!GoogleAssumption, GoogleInv,
           UNCHANGED <<uses, visit, issued, grants>>,
           call' \in [Call -> CallType], \A c \in Call : call'[c].refresh <= grants,
           refusals' \in 0..MaxFaults, refusals <= refusals',
           good' \subseteq good, granted' \subseteq Service,
           \A c \in Call : call'[c].pc = "refused" => call'[c].refresh \notin good \/ refusals' > 0,
           leaving' \in Leaving,
           row' \in Google!Row, row'.refresh <= grants, rowCrossed' \in BOOLEAN, Google!NoHalfConnection'
    PROVE  GoogleInv'
<1>1. Google!TypeOK'
  BY DEF GoogleInv, Google!TypeOK, CallType, Leaving
<1>2. Given' /\ Brings' /\ UsesBounded'
  BY DEF GoogleInv, Given, Brings, UsesBounded
<1>3. Refused'
  BY DEF Refused
<1>. QED
  BY <1>1, <1>2, <1>3 DEF GoogleInv

-----------------------------------------------------------------------------
LEMMA GoogleInitIInv == ASSUME Google!GoogleAssumption, Google!Init PROVE GoogleInv
<1>1. /\ visit \in [Visit -> VisitType] /\ \A v \in Visit : visit[v] = Google!NoVisit
      /\ call \in [Call -> CallType] /\ \A c \in Call : call[c] = Google!NoCall
  BY Nones DEF Google!Init
<1>2. /\ 0 \in 0..(MaxUses * MaxLinks) /\ 0 \in 0..MaxLinks /\ 0 \in 0..MaxFaults
      /\ MaxUses * 0 = 0
  BY DEF Google!GoogleAssumption
<1>3. Google!TypeOK
  BY <1>1, <1>2, Nones DEF Google!Init, Google!TypeOK, VisitType, CallType, Leaving
<1>4. Given /\ Brings /\ Refused /\ Google!NoHalfConnection
  BY <1>1, Nones DEF Google!Init, Given, Brings, Refused, Google!NoHalfConnection
<1>5. UsesBounded
  BY <1>2 DEF Google!Init, UsesBounded
<1>. QED
  BY <1>3, <1>4, <1>5 DEF GoogleInv

LEMMA LinkIssuedIInv ==
    ASSUME Google!GoogleAssumption, GoogleInv, NEW s \in Service, Google!LinkIssued(s)
    PROVE  GoogleInv'
<1>1. /\ issued \in Nat /\ issued' = issued + 1 /\ issued' <= MaxLinks
      /\ MaxUses \in Nat /\ MaxLinks \in Nat
  BY DEF GoogleInv, Google!TypeOK, Google!LinkIssued, Google!GoogleAssumption
<1>2. /\ MaxUses * issued' = MaxUses * issued + MaxUses
      /\ MaxUses * issued' <= MaxUses * MaxLinks
      /\ MaxUses * issued \in Nat
  <2>1. PICK k \in Nat : MaxLinks = issued' + k
    <3>1. MaxLinks - issued' \in Nat /\ MaxLinks = issued' + (MaxLinks - issued')
      BY <1>1
    <3>. QED
      BY <3>1
  <2>2. MaxUses * MaxLinks = MaxUses * issued' + MaxUses * k
    BY <1>1, <2>1
  <2>3. MaxUses * k \in Nat /\ MaxUses * issued' \in Nat /\ MaxUses * issued \in Nat
    BY <1>1, <2>1
  <2>4. MaxUses * issued' = MaxUses * issued + MaxUses
    BY <1>1
  <2>. QED
    BY <2>2, <2>3, <2>4
<1>3. \A t \in Service : uses[t] \in Nat /\ uses[t] <= MaxUses * issued
  BY DEF GoogleInv, Google!TypeOK, UsesBounded
<1>4. /\ uses' = [uses EXCEPT ![s] = uses[s] + MaxUses]
      /\ UNCHANGED <<row, visit, call, leaving, Google!google, grants, refusals, rowCrossed>>
  BY DEF Google!LinkIssued
<1>5. \A t \in Service : uses'[t] \in Nat /\ uses'[t] <= MaxUses * issued'
  <2>1. ASSUME NEW t \in Service PROVE uses'[t] = IF t = s THEN uses[s] + MaxUses ELSE uses[t]
    BY <1>4 DEF GoogleInv, Google!TypeOK
  <2>. QED
    BY <1>1, <1>2, <1>3, <2>1
<1>6. uses' \in [Service -> 0..(MaxUses * MaxLinks)]
  <2>1. uses' = [t \in Service |-> uses'[t]]
    BY <1>4 DEF GoogleInv, Google!TypeOK
  <2>2. ASSUME NEW t \in Service PROVE uses'[t] \in 0..(MaxUses * MaxLinks)
    <3>1. MaxUses * MaxLinks \in Nat /\ MaxUses * issued' \in Nat
      BY <1>1
    <3>. QED
      BY <1>2, <1>5, <3>1
  <2>. QED
    BY <2>1, <2>2
<1>7. Google!TypeOK'
  BY <1>1, <1>4, <1>6 DEF GoogleInv, Google!TypeOK, Google!google
<1>8. Given' /\ Brings' /\ Refused' /\ Google!NoHalfConnection'
  BY <1>4 DEF GoogleInv, Given, Brings, Refused, Google!NoHalfConnection, Google!google
<1>. QED
  BY <1>5, <1>7, <1>8 DEF GoogleInv, UsesBounded

LEMMA LinkVisitedIInv ==
    ASSUME Google!GoogleAssumption, GoogleInv, NEW v \in Visit, NEW s \in Service,
           Google!LinkVisited(v, s)
    PROVE  GoogleInv'
<1>. DEFINE f == [Google!NoVisit EXCEPT !.pc = "started", !.service = s]
<1>1. f \in VisitType /\ f.pc = "started" /\ f.consent = 0
  BY Nones DEF VisitType
<1>2. /\ visit' = [visit EXCEPT ![v] = f] /\ uses' = [uses EXCEPT ![s] = uses[s] - 1]
      /\ uses[s] > 0 /\ UNCHANGED <<row, call, leaving, Google!google, Google!bounds, rowCrossed>>
  BY DEF Google!LinkVisited
<1>. HIDE DEF f
<1>3. /\ uses' \in [Service -> 0..(MaxUses * MaxLinks)]
      /\ \A t \in Service : uses'[t] <= uses[t]
  <2>1. \A t \in Service : uses[t] \in 0..(MaxUses * MaxLinks)
    BY DEF GoogleInv, Google!TypeOK
  <2>2. MaxUses * MaxLinks \in Nat
    BY DEF Google!GoogleAssumption
  <2>3. uses[s] - 1 \in 0..(MaxUses * MaxLinks) /\ uses[s] - 1 <= uses[s]
    BY <1>2, <2>1, <2>2
  <2>. QED
    BY <1>2, <2>1, <2>2, <2>3 DEF GoogleInv, Google!TypeOK
<1>4. /\ grants \in Nat /\ Google!NoHalfConnection' /\ row' \in Google!Row
      /\ row'.refresh <= grants'
      /\ grants' \in Google!Consent /\ grants <= grants' /\ good' \subseteq good
      /\ granted' \subseteq Service
      /\ rowCrossed' \in BOOLEAN /\ f.consent <= grants'
  BY <1>1, <1>2 DEF GoogleInv, Google!TypeOK, Given, Google!Consent, Google!NoHalfConnection,
     Google!google, Google!bounds
<1>. QED
  BY <1>1, <1>2, <1>3, <1>4, VisitIInv DEF Google!google, Google!bounds

LEMMA VisitEndsIInv ==
    ASSUME Google!GoogleAssumption, GoogleInv, NEW v \in Visit, Google!VisitEnds(v)
    PROVE  GoogleInv'
<1>1. /\ visit' = [visit EXCEPT ![v] = Google!NoVisit]
      /\ UNCHANGED <<row, uses, call, leaving, Google!google, Google!bounds, rowCrossed>>
  BY DEF Google!VisitEnds
<1>2. /\ grants \in Nat /\ Google!NoHalfConnection' /\ row' \in Google!Row
      /\ row'.refresh <= grants'
      /\ grants' \in Google!Consent /\ grants <= grants' /\ good' \subseteq good
      /\ granted' \subseteq Service
      /\ rowCrossed' \in BOOLEAN /\ uses' \in [Service -> 0..(MaxUses * MaxLinks)]
      /\ \A s \in Service : uses'[s] <= uses[s]
  BY <1>1 DEF GoogleInv, Google!TypeOK, Given, Google!Consent, Google!NoHalfConnection,
     Google!google, Google!bounds
<1>3. Google!NoVisit \in VisitType /\ Google!NoVisit.pc = "idle"
      /\ Google!NoVisit.consent <= grants'
  BY <1>1, <1>2, Nones DEF Google!bounds
<1>4. UNCHANGED <<call, leaving, refusals, issued>>
      /\ good' \subseteq good \cup (Google!Consent \ 0..grants)
  BY <1>1 DEF Google!google, Google!bounds
<1>. QED
  BY <1>1, <1>2, <1>3, <1>4, VisitIInv

LEMMA ConsentsIInv ==
    ASSUME Google!GoogleAssumption, GoogleInv, NEW v \in Visit, Google!Consents(v)
    PROVE  GoogleInv'
<1>. DEFINE f == [visit[v] EXCEPT !.pc = "consented", !.consent = grants + 1, !.got = granted']
<1>1. /\ grants \in Nat /\ grants' = grants + 1 /\ grants' \in Google!Consent
      /\ grants <= grants' /\ grants + 1 # 0
  BY DEF GoogleInv, Google!TypeOK, Google!Consent, Google!Consents, Google!GoogleAssumption
<1>2. /\ granted' = granted \cup {visit[v].service} /\ good' = good \cup {grants + 1}
      /\ visit' = [visit EXCEPT ![v].pc = "consented", ![v].consent = grants + 1,
                                ![v].got = granted']
      /\ UNCHANGED <<row, uses, call, leaving, issued, refusals, rowCrossed>>
  BY DEF Google!Consents
<1>3. visit[v] \in VisitType /\ granted' \subseteq Service /\ granted' # {}
  BY <1>2 DEF GoogleInv, Google!TypeOK, VisitType
<1>4. f \in VisitType /\ f.consent = grants + 1 /\ f.got = granted'
  BY <1>1, <1>3 DEF VisitType
<1>5. visit' = [visit EXCEPT ![v] = f]
  BY <1>2
<1>. HIDE DEF f
<1>6. /\ Google!NoHalfConnection' /\ row' \in Google!Row /\ row'.refresh <= grants'
      /\ rowCrossed' \in BOOLEAN
      /\ uses' \in [Service -> 0..(MaxUses * MaxLinks)] /\ \A s \in Service : uses'[s] <= uses[s]
  BY <1>1, <1>2 DEF GoogleInv, Google!TypeOK, Given, Google!NoHalfConnection, Google!Row,
     Google!Consent
<1>7. good' \subseteq good \cup (Google!Consent \ 0..grants)
  BY <1>1, <1>2 DEF Google!Consent
<1>8. f.consent <= grants' /\ f.consent # 0 /\ f.got # {}
  BY <1>1, <1>3, <1>4
<1>. QED
  BY <1>1, <1>2, <1>3, <1>4, <1>5, <1>6, <1>7, <1>8, VisitIInv

LEMMA CallbackReadsIInv ==
    ASSUME Google!GoogleAssumption, GoogleInv, NEW v \in Visit, Google!CallbackReads(v)
    PROVE  GoogleInv'
<1>. DEFINE f == [visit[v] EXCEPT !.pc = "read", !.seen = row.scopes]
<1>1. /\ visit[v].pc = "consented" /\ visit[v] \in VisitType /\ row.scopes \subseteq Service
      /\ visit' = [visit EXCEPT ![v] = f]
      /\ UNCHANGED <<row, uses, call, leaving, Google!google, Google!bounds, rowCrossed>>
  BY DEF Google!CallbackReads, GoogleInv, Google!TypeOK, VisitType, Google!Row
<1>2. /\ f \in VisitType /\ f.consent = visit[v].consent /\ f.got = visit[v].got
  BY <1>1 DEF VisitType
<1>3. visit[v].consent # 0 /\ visit[v].got # {} /\ visit[v].consent <= grants
  BY <1>1 DEF GoogleInv, Brings, Given
<1>. HIDE DEF f
<1>4. /\ grants \in Nat /\ Google!NoHalfConnection' /\ row' \in Google!Row
      /\ row'.refresh <= grants'
      /\ grants' \in Google!Consent /\ grants <= grants' /\ good' \subseteq good
      /\ granted' \subseteq Service
      /\ rowCrossed' \in BOOLEAN /\ uses' \in [Service -> 0..(MaxUses * MaxLinks)]
      /\ \A s \in Service : uses'[s] <= uses[s]
  BY <1>1 DEF GoogleInv, Google!TypeOK, Given, Google!Consent, Google!NoHalfConnection,
     Google!google, Google!bounds
<1>5. f.consent <= grants' /\ f.consent # 0 /\ f.got # {}
  BY <1>1, <1>2, <1>3 DEF Google!bounds
<1>6. UNCHANGED <<call, leaving, refusals, issued>>
      /\ good' \subseteq good \cup (Google!Consent \ 0..grants)
  BY <1>1 DEF Google!google, Google!bounds
<1>. QED
  BY <1>1, <1>2, <1>4, <1>5, <1>6, VisitIInv

LEMMA CallbackCommitsIInv ==
    ASSUME Google!GoogleAssumption, GoogleInv, NEW v \in Visit, Google!CallbackCommits(v)
    PROVE  GoogleInv' /\ row'.refresh # 0
<1>. DEFINE f == visit[v]
            scopes == IF f.got \subseteq f.seen THEN row.scopes ELSE f.seen \cup f.got
<1>1. /\ f \in VisitType /\ f.consent # 0 /\ f.got # {} /\ f.consent <= grants
      /\ row.scopes \subseteq Service
  BY DEF GoogleInv, Google!TypeOK, VisitType, Brings, Given, Google!CallbackCommits, Google!Row
<1>2. /\ row' = [scopes |-> scopes, access |-> f.consent, refresh |-> f.consent]
      /\ rowCrossed' = (rowCrossed \/ row.scopes # f.seen)
      /\ visit' = [visit EXCEPT ![v] = Google!NoVisit]
      /\ UNCHANGED <<uses, call, leaving, Google!google, Google!bounds>>
  BY DEF Google!CallbackCommits
<1>3. f.consent \in Google!Consent /\ scopes \subseteq Service
  BY <1>1 DEF VisitType
<1>4. row' \in Google!Row /\ row'.refresh = f.consent /\ row'.access = f.consent
      /\ row'.scopes = scopes
  BY <1>2, <1>3 DEF Google!Row
<1>5. ~rowCrossed' => scopes # {}
  BY <1>1, <1>2
<1>6. Google!NoHalfConnection'
  BY <1>1, <1>4, <1>5 DEF Google!NoHalfConnection
<1>. HIDE DEF f, scopes
<1>7. /\ grants \in Nat /\ row'.refresh <= grants' /\ row'.refresh # 0
      /\ grants' \in Google!Consent /\ grants <= grants' /\ good' \subseteq good
      /\ granted' \subseteq Service
      /\ rowCrossed' \in BOOLEAN /\ uses' \in [Service -> 0..(MaxUses * MaxLinks)]
      /\ \A s \in Service : uses'[s] <= uses[s]
  BY <1>1, <1>2, <1>4 DEF GoogleInv, Google!TypeOK, Google!Consent, Google!google, Google!bounds
<1>8. Google!NoVisit \in VisitType /\ Google!NoVisit.pc = "idle"
      /\ Google!NoVisit.consent <= grants'
  BY <1>2, <1>7, Nones DEF Google!bounds
<1>9. UNCHANGED <<call, leaving, refusals, issued>>
      /\ good' \subseteq good \cup (Google!Consent \ 0..grants)
  BY <1>2 DEF Google!google, Google!bounds
<1>. QED
  BY <1>2, <1>4, <1>6, <1>7, <1>8, <1>9, VisitIInv

-----------------------------------------------------------------------------
(* The user leaves. *)

LEMMA LeavingIInv ==
    ASSUME Google!GoogleAssumption, GoogleInv, leaving' \in Leaving,
           UNCHANGED <<uses, visit, call, Google!bounds>>, good' \subseteq good,
           granted' \subseteq Service,
           row' \in Google!Row, row'.refresh <= grants, rowCrossed' \in BOOLEAN, Google!NoHalfConnection'
    PROVE  GoogleInv'
<1>1. /\ call' \in [Call -> CallType] /\ \A c \in Call : call'[c].refresh <= grants
      /\ refusals' \in 0..MaxFaults /\ refusals <= refusals'
      /\ \A c \in Call : call'[c].pc = "refused" => call'[c].refresh \notin good \/ refusals' > 0
  BY DEF GoogleInv, Google!TypeOK, CallType, Given, Refused, Google!bounds
<1>. QED
  BY <1>1, OtherIInv DEF Google!bounds

LEMMA DisconnectReadsIInv ==
    ASSUME Google!GoogleAssumption, GoogleInv, NEW s \in Service, Google!DisconnectReads(s)
    PROVE  GoogleInv'
<1>1. leaving' \in Leaving
      /\ UNCHANGED <<row, uses, visit, call, Google!google, Google!bounds, rowCrossed>>
  BY DEF Google!DisconnectReads, GoogleInv, Google!TypeOK, Leaving
<1>2. /\ good' \subseteq good /\ granted' \subseteq Service /\ row' \in Google!Row
      /\ row'.refresh <= grants /\ rowCrossed' \in BOOLEAN /\ Google!NoHalfConnection'
  BY <1>1 DEF GoogleInv, Google!TypeOK, Given, Google!NoHalfConnection, Google!google
<1>. QED
  BY <1>1, <1>2, LeavingIInv

LEMMA DisconnectRevokesIInv ==
    ASSUME Google!GoogleAssumption, GoogleInv, Google!DisconnectRevokes
    PROVE  GoogleInv'
<1>1. /\ UNCHANGED <<row, uses, visit, call, Google!bounds, rowCrossed>>
      /\ good' \subseteq good /\ granted' \subseteq Service
  BY DEF Google!DisconnectRevokes, GoogleInv, Google!TypeOK, Google!google
<1>2. leaving' \in Leaving
  BY DEF Google!DisconnectRevokes, GoogleInv, Google!TypeOK, Leaving
<1>3. row' \in Google!Row /\ row'.refresh <= grants /\ rowCrossed' \in BOOLEAN
      /\ Google!NoHalfConnection'
  BY <1>1 DEF GoogleInv, Google!TypeOK, Given, Google!NoHalfConnection
<1>. QED
  BY <1>1, <1>2, <1>3, LeavingIInv

(* Without an overtaking write the row is the one that was read, and goes  *)
(* as a whole.                                                             *)
LEMMA DisconnectCommitsIInv ==
    ASSUME Google!GoogleAssumption, GoogleInv, Google!DisconnectCommits
    PROVE  /\ GoogleInv'
           /\ row.refresh # 0 /\ row'.refresh = 0 => leaving.pc = "revoked" /\ leaving'.pc = "idle"
<1>. DEFINE seen == leaving.seen
            sc == IF Google!Remaining # seen.scopes THEN Google!Remaining ELSE row.scopes
            ac == IF Google!Remaining = {} /\ seen.access # 0 THEN 0 ELSE row.access
            re == IF Google!Remaining = {} /\ seen.refresh # 0 THEN 0 ELSE row.refresh
<1>1. /\ row' = [scopes |-> sc, access |-> ac, refresh |-> re]
      /\ rowCrossed' = (rowCrossed \/ row # seen) /\ leaving' = Google!Staying
      /\ leaving.pc = IF Google!Remaining = {} THEN "revoked" ELSE "read"
      /\ UNCHANGED <<uses, visit, call, Google!google, Google!bounds>>
  BY DEF Google!DisconnectCommits
<1>2. /\ seen \in Google!Row /\ row \in Google!Row /\ 0 \in Google!Consent
      /\ row.refresh <= grants /\ grants \in Nat
      /\ Google!Remaining \subseteq seen.scopes /\ Google!Remaining \subseteq Service
  BY Nones DEF GoogleInv, Google!TypeOK, Google!Row, Google!Remaining, Given, Google!Consent
<1>3. sc \subseteq Service /\ ac \in Google!Consent /\ re \in Google!Consent /\ re <= grants
  BY <1>2 DEF Google!Row
<1>4. row' \in Google!Row /\ row'.scopes = sc /\ row'.access = ac /\ row'.refresh = re
  BY <1>1, <1>3 DEF Google!Row
<1>5. Google!NoHalfConnection'
  <2>1. ASSUME ~rowCrossed'
        PROVE  /\ re # 0 <=> sc # {}
               /\ ac # 0 => re # 0
    <3>1. row = seen /\ ~rowCrossed
      BY <1>1, <2>1
    <3>2. /\ row.refresh # 0 <=> row.scopes # {}
          /\ row.access # 0 => row.refresh # 0
      BY <3>1 DEF GoogleInv, Google!NoHalfConnection
    <3>3. CASE Google!Remaining = {}
      <4>1. sc = {} /\ ac = 0 /\ re = 0
        BY <3>1, <3>3
      <4>. QED
        BY <4>1
    <3>4. CASE Google!Remaining # {}
      <4>1. sc # {} /\ row.scopes # {} /\ ac = row.access /\ re = row.refresh
        BY <1>2, <3>1, <3>4
      <4>. QED
        BY <3>2, <4>1
    <3>. QED
      BY <3>3, <3>4
  <2>. HIDE DEF sc, ac, re
  <2>. QED
    BY <1>4, <2>1 DEF Google!NoHalfConnection
<1>6. row.refresh # 0 /\ row'.refresh = 0 => leaving.pc = "revoked"
  BY <1>1, <1>4
<1>7. Google!Staying \in Leaving /\ Google!Staying.pc = "idle"
  BY Nones DEF Google!Staying
<1>. HIDE DEF sc, ac, re
<1>8. good' \subseteq good /\ granted' \subseteq Service /\ rowCrossed' \in BOOLEAN
  BY <1>1 DEF GoogleInv, Google!TypeOK, Google!google
<1>9. row'.refresh <= grants
  BY <1>3, <1>4
<1>10. leaving' \in Leaving /\ leaving'.pc = "idle"
  BY <1>1, <1>7
<1>11. UNCHANGED <<uses, visit, call, Google!bounds>>
  BY <1>1
<1>12. GoogleInv'
  BY <1>4, <1>5, <1>8, <1>9, <1>10, <1>11, LeavingIInv
<1>. QED
  BY <1>6, <1>10, <1>12

-----------------------------------------------------------------------------
(* Calls. *)

LEMMA CallBeginsIInv ==
    ASSUME Google!GoogleAssumption, GoogleInv, NEW c \in Call, Google!CallBegins(c)
    PROVE  GoogleInv'
<1>1. /\ call' = [call EXCEPT ![c] = [pc |-> "sent", access |-> row.access,
                                      refresh |-> row.refresh]]
      /\ UNCHANGED <<row, uses, visit, leaving, Google!google, Google!bounds, rowCrossed>>
  BY DEF Google!CallBegins
<1>2. row.access \in Google!Consent /\ row.refresh \in Google!Consent /\ row.refresh <= grants
  BY DEF GoogleInv, Google!TypeOK, Google!Row, Given
<1>3. /\ call' \in [Call -> CallType] /\ \A d \in Call : call'[d].refresh <= grants
      /\ \A d \in Call : call'[d].pc = "refused" => call'[d].refresh \notin good \/ refusals > 0
  BY <1>1, <1>2 DEF GoogleInv, Google!TypeOK, CallType, Given, Refused
<1>4. /\ refusals' \in 0..MaxFaults /\ refusals <= refusals' /\ good' \subseteq good
      /\ granted' \subseteq Service /\ leaving' \in Leaving /\ row' \in Google!Row
      /\ row'.refresh <= grants /\ rowCrossed' \in BOOLEAN /\ Google!NoHalfConnection'
  BY <1>1 DEF GoogleInv, Google!TypeOK, Leaving, Given, Google!NoHalfConnection, Google!google,
     Google!bounds
<1>. QED
  BY <1>1, <1>3, <1>4, OtherIInv DEF Google!bounds

(* A call that ends, whatever it writes into the row. *)
LEMMA EndedIInv ==
    ASSUME Google!GoogleAssumption, GoogleInv, NEW c \in Call,
           call' = [call EXCEPT ![c] = Google!NoCall],
           UNCHANGED <<uses, visit, leaving, Google!google, Google!bounds>>,
           row' \in Google!Row, row'.refresh <= grants, rowCrossed' \in BOOLEAN, Google!NoHalfConnection'
    PROVE  GoogleInv'
<1>1. grants \in Nat /\ Google!NoCall \in CallType /\ Google!NoCall.pc = "idle"
      /\ Google!NoCall.refresh <= grants
  BY Nones DEF GoogleInv, Google!TypeOK, Google!Consent
<1>2. /\ call' \in [Call -> CallType] /\ \A d \in Call : call'[d].refresh <= grants
      /\ \A d \in Call : call'[d].pc = "refused" => call'[d].refresh \notin good \/ refusals > 0
  BY <1>1 DEF GoogleInv, Google!TypeOK, CallType, Given, Refused
<1>3. /\ refusals' \in 0..MaxFaults /\ refusals <= refusals' /\ good' \subseteq good
      /\ granted' \subseteq Service /\ leaving' \in Leaving
  BY DEF GoogleInv, Google!TypeOK, Leaving, Google!google, Google!bounds
<1>. QED
  BY <1>2, <1>3, OtherIInv DEF Google!bounds

LEMMA CallEndsIInv ==
    ASSUME Google!GoogleAssumption, GoogleInv, NEW c \in Call, Google!CallEnds(c)
    PROVE  GoogleInv'
<1>1. row' \in Google!Row /\ row'.refresh <= grants /\ rowCrossed' \in BOOLEAN
      /\ Google!NoHalfConnection'
  BY DEF Google!CallEnds, GoogleInv, Google!TypeOK, Given, Google!NoHalfConnection
<1>. QED
  BY <1>1, EndedIInv DEF Google!CallEnds

LEMMA CallRefreshedIInv ==
    ASSUME Google!GoogleAssumption, GoogleInv, NEW c \in Call, Google!CallRefreshed(c)
    PROVE  GoogleInv' /\ row'.refresh = row.refresh
<1>1. row \in Google!Row /\ call[c].refresh \in Google!Consent /\ row.refresh <= grants
  BY DEF GoogleInv, Google!TypeOK, Given
<1>2. /\ row' = [row EXCEPT !.access = call[c].refresh]
      /\ rowCrossed' = (rowCrossed \/ row.refresh # call[c].refresh)
  BY DEF Google!CallRefreshed
<1>3. /\ row' \in Google!Row /\ row'.scopes = row.scopes /\ row'.refresh = row.refresh
      /\ row'.access = call[c].refresh
  BY <1>1, <1>2 DEF Google!Row
<1>4. Google!NoHalfConnection'
  BY <1>2, <1>3 DEF GoogleInv, Google!NoHalfConnection
<1>5. rowCrossed' \in BOOLEAN
  BY <1>2 DEF GoogleInv, Google!TypeOK
<1>6. GoogleInv'
  BY <1>1, <1>3, <1>4, <1>5, EndedIInv DEF Google!CallRefreshed
<1>. QED
  BY <1>3, <1>6

LEMMA CallRefusedIInv ==
    ASSUME Google!GoogleAssumption, GoogleInv, NEW c \in Call, Google!CallRefused(c)
    PROVE  GoogleInv'
<1>. DEFINE f == [call[c] EXCEPT !.pc = "refused"]
<1>1. /\ call' = [call EXCEPT ![c] = f]
      /\ UNCHANGED <<row, uses, visit, leaving, Google!google, issued, grants, rowCrossed>>
  BY DEF Google!CallRefused
<1>2. f \in CallType /\ f.refresh = call[c].refresh /\ f.refresh <= grants
  BY DEF GoogleInv, Google!TypeOK, CallType, Given
<1>3. /\ refusals \in Nat /\ refusals' \in 0..MaxFaults /\ refusals <= refusals'
      /\ call[c].refresh \in good => refusals' > 0
  BY DEF GoogleInv, Google!TypeOK, Google!CallRefused, Google!GoogleAssumption
<1>. HIDE DEF f
<1>4. /\ call' \in [Call -> CallType] /\ call'[c] = f
      /\ \A d \in Call \ {c} : call'[d] = call[d]
  BY <1>1, <1>2 DEF GoogleInv, Google!TypeOK, CallType
<1>5. \A d \in Call : call'[d].refresh <= grants
  BY <1>2, <1>4 DEF GoogleInv, Given
<1>6. \A d \in Call : call'[d].pc = "refused" => call'[d].refresh \notin good \/ refusals' > 0
  BY <1>2, <1>3, <1>4 DEF GoogleInv, Refused
<1>7. /\ good' \subseteq good /\ granted' \subseteq Service /\ leaving' \in Leaving
      /\ row' \in Google!Row /\ row'.refresh <= grants /\ rowCrossed' \in BOOLEAN
      /\ Google!NoHalfConnection'
  BY <1>1 DEF GoogleInv, Google!TypeOK, Leaving, Given, Google!NoHalfConnection, Google!google
<1>. QED
  BY <1>1, <1>3, <1>4, <1>5, <1>6, <1>7, OtherIInv

LEMMA CallClearsIInv ==
    ASSUME Google!GoogleAssumption, GoogleInv, NEW c \in Call, Google!CallClears(c)
    PROVE  GoogleInv' /\ call[c].pc = "refused" /\ call'[c].pc = "idle"
<1>1. /\ row' = Google!NoRow /\ Google!NoRow \in Google!Row /\ Google!NoRow.refresh = 0
      /\ Google!NoRow.access = 0
      /\ Google!NoRow.scopes = {} /\ grants \in Nat
  BY Nones DEF Google!CallClears, GoogleInv, Google!TypeOK, Google!Consent
<1>2. row'.refresh <= grants /\ Google!NoHalfConnection' /\ row' \in Google!Row
  BY <1>1 DEF Google!NoHalfConnection
<1>3. rowCrossed' \in BOOLEAN
  BY DEF Google!CallClears, GoogleInv, Google!TypeOK
<1>4. GoogleInv'
  BY <1>2, <1>3, EndedIInv DEF Google!CallClears
<1>5. call'[c].pc = "idle"
  BY Nones DEF Google!CallClears, GoogleInv, Google!TypeOK
<1>. QED
  BY <1>4, <1>5 DEF Google!CallClears

LEMMA RemovedIInv ==
    ASSUME Google!GoogleAssumption, GoogleInv, Google!RemovedAtGoogle
    PROVE  GoogleInv'
<1>1. /\ good' = {} /\ granted' = {} /\ leaving' \in Leaving
      /\ UNCHANGED <<row, uses, visit, call, Google!bounds, rowCrossed>>
  BY DEF Google!RemovedAtGoogle, GoogleInv, Google!TypeOK, Leaving
<1>2. row' \in Google!Row /\ row'.refresh <= grants /\ rowCrossed' \in BOOLEAN
      /\ Google!NoHalfConnection'
  BY <1>1 DEF GoogleInv, Google!TypeOK, Given, Google!NoHalfConnection
<1>. QED
  BY <1>1, <1>2, LeavingIInv

LEMMA StutterIInv == ASSUME GoogleInv, UNCHANGED Google!vars PROVE GoogleInv'
BY DEF Google!vars, Google!google, Google!bounds, GoogleInv, Google!TypeOK, Given, Brings, Refused,
   UsesBounded, Google!NoHalfConnection

-----------------------------------------------------------------------------
(* The connection is cleared by a disconnection or by a refusal. *)
ClearingCause == \/ leaving.pc = "revoked" /\ leaving'.pc = "idle"
         \/ \E c \in Call : /\ call[c].pc = "refused" /\ call'[c].pc = "idle"
                            /\ call[c].refresh \notin good \/ refusals > 0

LEMMA StepFits ==
    ASSUME Google!GoogleAssumption, GoogleInv, [Google!Next]_Google!vars
    PROVE  GoogleInv' /\ (row.refresh # 0 /\ row'.refresh = 0 => ClearingCause)
<1>1. CASE UNCHANGED Google!vars
  BY <1>1, StutterIInv DEF Google!vars
<1>2. ASSUME NEW s \in Service, NEW v \in Visit,
             Google!LinkIssued(s) \/ Google!DisconnectReads(s) \/ Google!LinkVisited(v, s)
      PROVE  GoogleInv' /\ UNCHANGED row
  BY <1>2, LinkIssuedIInv, DisconnectReadsIInv, LinkVisitedIInv
  DEF Google!LinkIssued, Google!DisconnectReads, Google!LinkVisited
<1>3. ASSUME NEW s \in Service, Google!LinkIssued(s) \/ Google!DisconnectReads(s)
      PROVE  GoogleInv' /\ UNCHANGED row
  BY <1>3, LinkIssuedIInv, DisconnectReadsIInv DEF Google!LinkIssued, Google!DisconnectReads
<1>4. ASSUME NEW v \in Visit, Google!VisitEnds(v) \/ Google!Consents(v) \/ Google!CallbackReads(v)
      PROVE  GoogleInv' /\ UNCHANGED row
  BY <1>4, VisitEndsIInv, ConsentsIInv, CallbackReadsIInv
  DEF Google!VisitEnds, Google!Consents, Google!CallbackReads
<1>5. ASSUME NEW v \in Visit, Google!CallbackCommits(v)
      PROVE  GoogleInv' /\ row'.refresh # 0
  BY <1>5, CallbackCommitsIInv
<1>6. CASE Google!DisconnectRevokes
  BY <1>6, DisconnectRevokesIInv DEF Google!DisconnectRevokes
<1>7. CASE Google!DisconnectCommits
  BY <1>7, DisconnectCommitsIInv DEF ClearingCause
<1>8. ASSUME NEW c \in Call, Google!CallBegins(c) \/ Google!CallEnds(c) \/ Google!CallRefused(c)
      PROVE  GoogleInv' /\ UNCHANGED row
  BY <1>8, CallBeginsIInv, CallEndsIInv, CallRefusedIInv
  DEF Google!CallBegins, Google!CallEnds, Google!CallRefused
<1>9. ASSUME NEW c \in Call, Google!CallRefreshed(c)
      PROVE  GoogleInv' /\ row'.refresh = row.refresh
  BY <1>9, CallRefreshedIInv
<1>10. ASSUME NEW c \in Call, Google!CallClears(c)
       PROVE  GoogleInv' /\ ClearingCause
  BY <1>10, CallClearsIInv DEF ClearingCause, GoogleInv, Refused
<1>11. CASE Google!RemovedAtGoogle
  BY <1>11, RemovedIInv DEF Google!RemovedAtGoogle
<1>. QED
  BY <1>1, <1>2, <1>3, <1>4, <1>5, <1>6, <1>7, <1>8, <1>9, <1>10, <1>11 DEF Google!Next

LEMMA GoogleAlone == Google!Spec => []GoogleInv
<1>1. Google!Init => GoogleInv
  BY GoogleInitIInv, ServicesAssumption DEF ServicesAssumption
<1>2. GoogleInv /\ [Google!Next]_Google!vars => GoogleInv'
  BY StepFits, ServicesAssumption DEF ServicesAssumption
<1>. QED
  BY <1>1, <1>2, PTL DEF Google!Spec

(* A behaviour of the services is one of this component, or a stutter.    *)
LEMMA IsGoogle == Spec => Google!Spec
<1>1. Init => Google!Init
  BY DEF Init
<1>2. [Next]_vars => [Google!Next]_Google!vars
  BY DEF Next, vars, googleVars, Google!vars
<1>. QED
  BY <1>1, <1>2, PTL DEF Spec, Google!Spec

LEMMA GoogleInvariance == Spec => []GoogleInv
BY GoogleAlone, IsGoogle, PTL

-----------------------------------------------------------------------------
(* The row, the visits, the calls and the bounds have their types. *)
THEOREM GoogleTypes == Spec => []Google!TypeOK
<1>1. GoogleInv => Google!TypeOK
  BY DEF GoogleInv
<1>. QED
  BY <1>1, GoogleInvariance, PTL

(* However callback, disconnection, refresh and refusal interleave, only   *)
(* writes that overtook each other leave half a connection.                *)
THEOREM ConnectionIsWhole == Spec => []NoHalfConnection
<1>1. GoogleInv => NoHalfConnection
  BY DEF GoogleInv, NoHalfConnection
<1>. QED
  BY <1>1, GoogleInvariance, PTL

(* And a connection is cleared by the user or by Google's refusal alone    *)
(* (disconnect_integration, _clear_google_tokens).                         *)
THEOREM ClearedOnlyForCause == Spec => ClearedForCause
<1>1. GoogleInv /\ [Google!Next]_Google!vars =>
      [row.refresh # 0 /\ row'.refresh = 0 =>
         \/ leaving.pc = "revoked" /\ leaving'.pc = "idle"
         \/ \E c \in Call : /\ call[c].pc = "refused" /\ call'[c].pc = "idle"
                            /\ \/ call[c].refresh \notin good
                               \/ refusals > 0]_Google!vars
  BY StepFits, ServicesAssumption DEF ClearingCause, ServicesAssumption
<1>. QED
  BY <1>1, GoogleInvariance, IsGoogle, PTL DEF Google!Spec, ClearedForCause, Google!ClearedForCause

-----------------------------------------------------------------------------
(* Calendar and mail: their invariants are proved beside them; here they   *)
(* are carried over to this instance of each.                              *)

ProvedCalendar == INSTANCE CallCalendar_proofs WITH
    Hours <- 2, Time <- 0..1, MaxFails <- MaxFaults
ProvedMail == INSTANCE WhatsAppWebhook_proofs WITH
    Actor <- Handler \cup Tool, MaxRevisions <- 1, MaxSessions <- 1, MaxPurges <- 0,
    crossed <- mailCrossed

LEMMA SameCalendar ==
  /\ Calendar!CalendarAssumption <=> ProvedCalendar!CalendarAssumption
  /\ Calendar!Init <=> ProvedCalendar!Init
  /\ Calendar!Next <=> ProvedCalendar!Next
  /\ Calendar!TypeOK <=> ProvedCalendar!TypeOK
  BY DEF Calendar!CalendarAssumption, ProvedCalendar!CalendarAssumption,
     Calendar!Init, ProvedCalendar!Init, Calendar!SomeWindow,
     ProvedCalendar!SomeWindow, Calendar!Settings, ProvedCalendar!Settings,
     Calendar!Proc, ProvedCalendar!Proc, Calendar!Idle, ProvedCalendar!Idle,
     Calendar!SomeType, ProvedCalendar!SomeType, Calendar!Slot, ProvedCalendar!Slot,
     Calendar!Next, ProvedCalendar!Next, Calendar!PlannerBegins,
     ProvedCalendar!PlannerBegins, Calendar!Reads, ProvedCalendar!Reads,
     Calendar!Begin, ProvedCalendar!Begin, Calendar!Changing, ProvedCalendar!Changing,
     Calendar!histories, ProvedCalendar!histories, Calendar!Materialized,
     ProvedCalendar!Materialized, Calendar!NewCall, ProvedCalendar!NewCall,
     Calendar!Active, ProvedCalendar!Active, Calendar!LocalDay,
     ProvedCalendar!LocalDay, Calendar!SweepBegins, ProvedCalendar!SweepBegins,
     Calendar!PlanCommits, ProvedCalendar!PlanCommits, Calendar!Commit,
     ProvedCalendar!Commit, Calendar!SlotOf, ProvedCalendar!SlotOf, Calendar!GoneBut,
     ProvedCalendar!GoneBut, Calendar!Deleted, ProvedCalendar!Deleted, Calendar!Free,
     ProvedCalendar!Free, Calendar!Planned, ProvedCalendar!Planned, Calendar!InSlot,
     ProvedCalendar!InSlot, Calendar!clocks, ProvedCalendar!clocks,
     Calendar!EditorBegins, ProvedCalendar!EditorBegins, Calendar!RemoveBegins,
     ProvedCalendar!RemoveBegins, Calendar!Edit, ProvedCalendar!Edit,
     Calendar!SaveBegins, ProvedCalendar!SaveBegins, Calendar!UpdateBegins,
     ProvedCalendar!UpdateBegins, Calendar!ZoneBegins, ProvedCalendar!ZoneBegins,
     Calendar!OnboardBegins, ProvedCalendar!OnboardBegins, Calendar!FirstDay,
     ProvedCalendar!FirstDay, Calendar!LocalHour, ProvedCalendar!LocalHour,
     Calendar!Works, ProvedCalendar!Works, Calendar!Change, ProvedCalendar!Change,
     Calendar!Deletable, ProvedCalendar!Deletable, Calendar!Pending,
     ProvedCalendar!Pending, Calendar!Future, ProvedCalendar!Future, Calendar!Due,
     ProvedCalendar!Due, Calendar!DeletesOf, ProvedCalendar!DeletesOf,
     Calendar!TimesChanged, ProvedCalendar!TimesChanged, Calendar!WritesWindow,
     ProvedCalendar!WritesWindow, Calendar!NewWindow, ProvedCalendar!NewWindow,
     Calendar!Reactivates, ProvedCalendar!Reactivates, Calendar!Lapped,
     ProvedCalendar!Lapped, Calendar!Excuse, ProvedCalendar!Excuse,
     Calendar!LeftBehind, ProvedCalendar!LeftBehind, Calendar!DuplicateWindow,
     ProvedCalendar!DuplicateWindow, Calendar!SaveCommits, ProvedCalendar!SaveCommits,
     Calendar!Rematerialized, ProvedCalendar!Rematerialized, Calendar!RemoveCommits,
     ProvedCalendar!RemoveCommits, Calendar!RematerializeAgain,
     ProvedCalendar!RematerializeAgain, Calendar!ZoneCommits,
     ProvedCalendar!ZoneCommits, Calendar!OnboardCommits,
     ProvedCalendar!OnboardCommits, Calendar!DashboardZone,
     ProvedCalendar!DashboardZone, Calendar!UserDrops, ProvedCalendar!UserDrops,
     Calendar!Today, ProvedCalendar!Today, Calendar!Locked, ProvedCalendar!Locked,
     Calendar!Becomes, ProvedCalendar!Becomes, Calendar!Dial, ProvedCalendar!Dial,
     Calendar!UserMoves, ProvedCalendar!UserMoves, Calendar!Fail, ProvedCalendar!Fail,
     Calendar!Stuck, ProvedCalendar!Stuck, Calendar!Tick, ProvedCalendar!Tick,
     Calendar!TypeOK, ProvedCalendar!TypeOK, Calendar!Entry, ProvedCalendar!Entry,
     Calendar!Day, ProvedCalendar!Day, Calendar!Txn, ProvedCalendar!Txn,
     Calendar!vars, ProvedCalendar!vars, Calendar!IsFiniteSet,
     ProvedCalendar!IsFiniteSet, Calendar!Cardinality, ProvedCalendar!Cardinality

LEMMA SameMail ==
  /\ Mail!DraftsAssumption <=> ProvedMail!DraftsAssumption
  /\ Mail!WebhookAssumption <=> ProvedMail!WebhookAssumption
  /\ Mail!Init <=> ProvedMail!Init
  /\ Mail!Next <=> ProvedMail!Next
  /\ Mail!WebhookTypeOK <=> ProvedMail!WebhookTypeOK
  BY DEF Mail!DraftsAssumption, ProvedMail!DraftsAssumption, Mail!WebhookAssumption,
     ProvedMail!WebhookAssumption, Mail!Init, ProvedMail!Init, Mail!DraftsInit,
     ProvedMail!DraftsInit, Mail!Rest, ProvedMail!Rest, Mail!Id, ProvedMail!Id,
     Mail!Away, ProvedMail!Away, Mail!NoMessage, ProvedMail!NoMessage, Mail!Next,
     ProvedMail!Next, Mail!Receive, ProvedMail!Receive, Mail!At, ProvedMail!At,
     Mail!Resting, ProvedMail!Resting, Mail!draftVars, ProvedMail!draftVars,
     Mail!store, ProvedMail!store, Mail!history, ProvedMail!history, Mail!Handles,
     ProvedMail!Handles, Mail!ReadsCheckin, ProvedMail!ReadsCheckin, Mail!GoTo,
     ProvedMail!GoTo, Mail!Decides, ProvedMail!Decides, Mail!Pending,
     ProvedMail!Pending, Mail!Rows, ProvedMail!Rows, Mail!ApproveBegins,
     ProvedMail!ApproveBegins, Mail!Start, ProvedMail!Start, Mail!outcome,
     ProvedMail!outcome, Mail!decisions, ProvedMail!decisions, Mail!AbandonBegins,
     ProvedMail!AbandonBegins, Mail!AsksAgent, ProvedMail!AsksAgent,
     Mail!TakesCheckin, ProvedMail!TakesCheckin, Mail!ReadsMapping,
     ProvedMail!ReadsMapping, Mail!Heals, ProvedMail!Heals, Mail!Commits,
     ProvedMail!Commits, Mail!CreatesSession, ProvedMail!CreatesSession,
     Mail!MapsSession, ProvedMail!MapsSession, Mail!AdoptsMapping,
     ProvedMail!AdoptsMapping, Mail!Answers, ProvedMail!Answers, Mail!HandlerDies,
     ProvedMail!HandlerDies, Mail!ToolBegins, ProvedMail!ToolBegins,
     Mail!CreateBegins, ProvedMail!CreateBegins, Mail!ActiveDraft,
     ProvedMail!ActiveDraft, Mail!Active, ProvedMail!Active, Mail!UpdateBegins,
     ProvedMail!UpdateBegins, Mail!hookVars, ProvedMail!hookVars, Mail!DraftWork,
     ProvedMail!DraftWork, Mail!Proceeds, ProvedMail!Proceeds, Mail!CreateCommits,
     ProvedMail!CreateCommits, Mail!Reading, ProvedMail!Reading, Mail!Rivals,
     ProvedMail!Rivals, Mail!Held, ProvedMail!Held, Mail!Crosses, ProvedMail!Crosses,
     Mail!Finish, ProvedMail!Finish, Mail!UpdateCommits, ProvedMail!UpdateCommits,
     Mail!AbandonCommits, ProvedMail!AbandonCommits, Mail!Status, ProvedMail!Status,
     Mail!ApproveFails, ProvedMail!ApproveFails, Mail!ApproveLocks,
     ProvedMail!ApproveLocks, Mail!ApproveCommits, ProvedMail!ApproveCommits,
     Mail!ApproveDies, ProvedMail!ApproveDies, Mail!Sending, ProvedMail!Sending,
     Mail!Misleads, ProvedMail!Misleads, Mail!GmailAccepts, ProvedMail!GmailAccepts,
     Mail!Accepts, ProvedMail!Accepts, Mail!GmailRefuses, ProvedMail!GmailRefuses,
     Mail!GmailAnswersLate, ProvedMail!GmailAnswersLate, Mail!GmailRetried,
     ProvedMail!GmailRetried, Mail!Cleans, ProvedMail!Cleans, Mail!Sweep,
     ProvedMail!Sweep, Mail!Overdue, ProvedMail!Overdue, Mail!Ages, ProvedMail!Ages,
     Mail!Expire, ProvedMail!Expire, Mail!CheckinSent, ProvedMail!CheckinSent,
     Mail!SessionLost, ProvedMail!SessionLost, Mail!WebhookTypeOK,
     ProvedMail!WebhookTypeOK, Mail!DraftsTypeOK, ProvedMail!DraftsTypeOK, Mail!Draft,
     ProvedMail!Draft, Mail!Work, ProvedMail!Work, Mail!Hook, ProvedMail!Hook,
     Mail!vars, ProvedMail!vars, Mail!One, ProvedMail!One, Mail!IsFiniteSet, ProvedMail!IsFiniteSet,
     Mail!Cardinality, ProvedMail!Cardinality, Mail!Max, ProvedMail!Max

LEMMA CalendarInvariance == Spec => []ProvedCalendar!IInv
<1>. ProvedCalendar!CalendarAssumption
  BY ServicesAssumption, SameCalendar DEF ServicesAssumption
<1>1. Init => ProvedCalendar!IInv
  BY SameCalendar, ProvedCalendar!InitIInv DEF Init
<1>2. ProvedCalendar!IInv /\ [Next]_vars => ProvedCalendar!IInv'
  <2>1. [Next]_vars => Calendar!Next \/ UNCHANGED ProvedCalendar!vars
    BY DEF Next, vars, calendarVars, ProvedCalendar!vars
  <2>2. ASSUME ProvedCalendar!IInv, ProvedCalendar!Next \/ UNCHANGED ProvedCalendar!vars
        PROVE  ProvedCalendar!IInv'
    BY <2>2, ProvedCalendar!NextIInv
  <2>. QED
    BY <2>1, <2>2, SameCalendar
<1>. QED
  BY <1>1, <1>2, PTL DEF Spec

LEMMA MailInvariance == Spec => []ProvedMail!IInv
<1>. ProvedMail!DraftsAssumption /\ ProvedMail!WebhookAssumption
  BY ServicesAssumption, SameMail DEF ServicesAssumption
<1>1. Init => ProvedMail!IInv
  BY SameMail, ProvedMail!InitIInv DEF Init
<1>2. ProvedMail!IInv /\ [Next]_vars => ProvedMail!IInv'
  <2>1. [Next]_vars => Mail!Next \/ UNCHANGED ProvedMail!vars
    BY DEF Next, vars, mailVars, ProvedMail!vars, ProvedMail!draftVars, ProvedMail!hookVars
  <2>2. ASSUME ProvedMail!IInv, ProvedMail!Next \/ UNCHANGED ProvedMail!vars
        PROVE  ProvedMail!IInv'
    BY <2>2, ProvedMail!NextIInv
  <2>. QED
    BY <2>1, <2>2, SameMail
<1>. QED
  BY <1>1, <1>2, PTL DEF Spec

(* Every service keeps its types, whichever is under load. *)
THEOREM TypesOfServices == Spec => []ServicesTypeOK
<1>1. ProvedCalendar!IInv => Calendar!TypeOK
  BY ProvedCalendar!IsTyped, SameCalendar
<1>2. ProvedMail!IInv => Mail!WebhookTypeOK
  <2>1. ProvedMail!DraftsAssumption /\ ProvedMail!WebhookAssumption
    BY ServicesAssumption, SameMail DEF ServicesAssumption
  <2>2. ProvedMail!IInv => ProvedMail!WebhookTypeOK
    BY <2>1, ProvedMail!IsTyped
  <2> QED
    BY <2>2, SameMail
<1>3. Mail!WebhookTypeOK /\ Calendar!TypeOK /\ Google!TypeOK /\ Identity!TypeOK
      /\ Automation!TypeOK /\ Tasks!TypeOK => ServicesTypeOK
  BY DEF ServicesTypeOK
<1>. QED
  BY <1>1, <1>2, <1>3, CalendarInvariance, MailInvariance, IdentityTypes, AutomationTypes,
     TaskTypes, GoogleTypes, PTL
=============================================================================
