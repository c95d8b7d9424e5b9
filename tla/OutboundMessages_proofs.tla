----------------------- MODULE OutboundMessages_proofs -----------------------
(***************************************************************************)
(* Machine-checked proofs about OutboundMessages, for every set of keys    *)
(* and attempts and every body length.                                     *)
(***************************************************************************)
EXTENDS OutboundMessages, FiniteSetTheorems, TLAPS

(* FencedDelivery is not inductive: it says nothing of the attempts that   *)
(* are about to reach Twilio.  Four facts strengthen it.                   *)

(* A token in a row is that of an attempt that claimed this very key. *)
TokenSound ==
    \A k \in Key :
        /\ rows[k].status = "absent" <=> rows[k].token = NoAttempt
        /\ rows[k].token \in Attempt =>
              /\ key[rows[k].token] = k
              /\ pc[rows[k].token] \notin {"unused", "queued", "conflict"}

(* What the worker knows of its deliveries at each program point. *)
CountSound ==
    \A a \in Attempt :
        /\ pc[a] \in {"unused", "queued", "conflict", "claimed", "rejected",
                      "refused"} => delivered[a] = 0
        /\ pc[a] \in {"unused", "queued", "conflict", "claimed"} => sids[a] = 0
        /\ pc[a] = "calling" => /\ delivered[a] = sids[a]
                                /\ sids[a] <= Chunks[key[a]]
        /\ pc[a] \in {"accepted", "partial"} => delivered[a] > 0

(* Only the owner of a `sending` row is inside the Twilio call. *)
CallerOwns ==
    \A a \in Attempt :
        pc[a] \in CallPC => a \in stolen \/ Owns(a, {"sending"})

(* Whoever delivered still holds the row, unless it was stolen. *)
DelivererOwns ==
    \A a \in Attempt :
        delivered[a] > 0 =>
            a \in stolen \/ (key[a] \in Key /\ Owns(a, {"sending", "sent", "failed"}))

IInv == /\ TypeOK
        /\ TokenSound
        /\ CountSound
        /\ CallerOwns
        /\ DelivererOwns
        /\ SentWasDelivered

LEMMA InitIInv == Init => IInv
  <1> SUFFICES ASSUME Init PROVE IInv
      OBVIOUS
  <1> USE OutboundAssumption DEF Init
  <1>1. TypeOK
      BY DEF TypeOK, Row, NoRow, RowStatus, PC, LivePC, CallPC
  <1>2. TokenSound /\ SentWasDelivered
      BY DEF TokenSound, SentWasDelivered, NoRow
  <1>3. CountSound /\ CallerOwns /\ DelivererOwns
      BY DEF CountSound, CallerOwns, DelivererOwns, CallPC
  <1>4. QED
      BY <1>1, <1>2, <1>3 DEF IInv

(* The shape of an attempt that has been dispatched, and of its claim. *)
LEMMA DispatchedKey ==
    ASSUME TypeOK, NEW a \in Attempt, pc[a] # "unused"
    PROVE  key[a] \in Key /\ rows[key[a]] \in Row
  BY DEF TypeOK

LEMMA ClaimIsRow == \A a \in Attempt : ClaimOf(a) \in Row
  BY DEF ClaimOf, Row, RowStatus

LEMMA NoRowIsRow == NoRow \in Row
  BY DEF NoRow, Row, RowStatus

LEMMA StatusUpdate ==
    ASSUME NEW r \in Row, NEW s \in RowStatus
    PROVE  [r EXCEPT !.status = s] \in Row
  BY DEF Row

LEMMA StaleUpdate ==
    ASSUME NEW r \in Row
    PROVE  [r EXCEPT !.stale = TRUE] \in Row
  BY DEF Row

(* The program counter after a step of one attempt. *)
LEMMA GotoType ==
    ASSUME TypeOK, NEW a \in Attempt, NEW p \in PC \ {"unused"}, Goto(a, p),
           pc[a] # "unused", UNCHANGED key
    PROVE  /\ pc' \in [Attempt -> PC]
           /\ \A x \in Attempt : key'[x] = NoKey <=> pc'[x] = "unused"
  BY DEF TypeOK, Goto

(* Type correctness is preserved by every step. *)
LEMMA TypeStep == TypeOK /\ TokenSound /\ [Next]_vars => TypeOK'
  <1> SUFFICES ASSUME TypeOK, TokenSound, [Next]_vars PROVE TypeOK'
      OBVIOUS
  <1> USE OutboundAssumption
  <1> DEFINE PcOK == /\ pc' \in [Attempt -> PC]
                     /\ key' \in [Attempt -> Key \cup {NoKey}]
                     /\ \A x \in Attempt : key'[x] = NoKey <=> pc'[x] = "unused"
  <1>1. ASSUME NEW a \in Attempt, InsertClaim(a) PROVE TypeOK'
    <2>1. key[a] \in Key
        BY <1>1, DispatchedKey DEF InsertClaim
    <2>2. PcOK
        BY <1>1, GotoType DEF InsertClaim, PC, LivePC, TypeOK
    <2>3. rows' \in [Key -> Row]
        BY <1>1, <2>1, ClaimIsRow DEF InsertClaim, TypeOK
    <2>4. QED
        BY <2>2, <2>3, <1>1 DEF InsertClaim, TypeOK
  <1>2. ASSUME NEW a \in Attempt, ReclaimStale(a) PROVE TypeOK'
    <2>1. key[a] \in Key /\ rows[key[a]] \in Row
        BY <1>2, DispatchedKey DEF ReclaimStale
    <2>2. PcOK
        BY <1>2, GotoType DEF ReclaimStale, PC, LivePC, TypeOK
    <2>3. rows' \in [Key -> Row]
        BY <1>2, <2>1, ClaimIsRow DEF ReclaimStale, TypeOK
    <2>4. rows[key[a]].status = "sending" => rows[key[a]].token \in Attempt
        BY <2>1 DEF TokenSound, Row
    <2>5. stolen' \subseteq Attempt
        BY <1>2, <2>4 DEF ReclaimStale, TypeOK
    <2>6. QED
        BY <2>2, <2>3, <2>5, <1>2 DEF ReclaimStale, TypeOK
  <1>3. ASSUME NEW a \in Attempt, AcquireSendLock(a) PROVE TypeOK'
    <2>1. key[a] \in Key /\ rows[key[a]] \in Row
        BY <1>3, DispatchedKey DEF AcquireSendLock
    <2>2. PcOK
        BY <1>3, GotoType DEF AcquireSendLock, PC, LivePC, CallPC, TypeOK
    <2>3. rows' \in [Key -> Row]
        BY <1>3, <2>1, StatusUpdate DEF AcquireSendLock, TypeOK, RowStatus
    <2>4. QED
        BY <2>2, <2>3, <1>3 DEF AcquireSendLock, TypeOK
  <1>4. ASSUME NEW a \in Attempt, ChunkAccepted(a) PROVE TypeOK'
    <2>1. PcOK
        BY <1>4, GotoType DEF ChunkAccepted, PC, LivePC, CallPC, TypeOK
    <2>2. QED
        BY <2>1, <1>4 DEF ChunkAccepted, TypeOK
  <1>5. ASSUME NEW a \in Attempt, ChunkRejected(a) PROVE TypeOK'
    <2>1. PcOK
        BY <1>5, GotoType DEF ChunkRejected, PC, LivePC, CallPC, TypeOK
    <2>2. QED
        BY <2>1, <1>5 DEF ChunkRejected, TypeOK
  <1>6. ASSUME NEW a \in Attempt, ChunkAmbiguous(a) PROVE TypeOK'
    <2>1. PcOK
        BY <1>6, GotoType DEF ChunkAmbiguous, PC, LivePC, CallPC, TypeOK
    <2>2. QED
        BY <2>1, <1>6 DEF ChunkAmbiguous, TypeOK
  <1>7. ASSUME NEW a \in Attempt, EmptyBody(a) PROVE TypeOK'
    <2>1. PcOK
        BY <1>7, GotoType DEF EmptyBody, PC, LivePC, CallPC, TypeOK
    <2>2. QED
        BY <2>1, <1>7 DEF EmptyBody, TypeOK
  <1>8. ASSUME NEW a \in Attempt, MarkSent(a) PROVE TypeOK'
    <2>1. key[a] \in Key /\ rows[key[a]] \in Row
        BY <1>8, DispatchedKey DEF MarkSent
    <2>2. PcOK
        BY <1>8, GotoType DEF MarkSent, PC, TypeOK
    <2>3. rows' \in [Key -> Row]
        BY <1>8, <2>1, StatusUpdate DEF MarkSent, TypeOK, RowStatus
    <2>4. QED
        BY <2>2, <2>3, <1>8 DEF MarkSent, TypeOK
  <1>9. ASSUME NEW a \in Attempt, MarkFailed(a) PROVE TypeOK'
    <2>1. key[a] \in Key /\ rows[key[a]] \in Row
        BY <1>9, DispatchedKey DEF MarkFailed
    <2>2. PcOK
        BY <1>9, GotoType DEF MarkFailed, PC, TypeOK
    <2>3. rows' \in [Key -> Row]
        BY <1>9, <2>1, StatusUpdate DEF MarkFailed, TypeOK, RowStatus
    <2>4. QED
        BY <2>2, <2>3, <1>9 DEF MarkFailed, TypeOK
  <1>10. ASSUME NEW a \in Attempt, ReleaseClaim(a) PROVE TypeOK'
    <2>1. key[a] \in Key
        BY <1>10, DispatchedKey DEF ReleaseClaim
    <2>2. PcOK
        BY <1>10, GotoType DEF ReleaseClaim, PC, TypeOK
    <2>3. rows' \in [Key -> Row]
        BY <1>10, <2>1, NoRowIsRow DEF ReleaseClaim, TypeOK
    <2>4. QED
        BY <2>2, <2>3, <1>10 DEF ReleaseClaim, TypeOK
  <1>11. ASSUME NEW a \in Attempt, NEW k \in Key, Dispatch(a, k) PROVE TypeOK'
    <2>1. PcOK
        BY <1>11 DEF Dispatch, Goto, PC, LivePC, TypeOK
    <2>2. QED
        BY <2>1, <1>11 DEF Dispatch, TypeOK
  <1>12. ASSUME NEW a \in Attempt, Crash(a) \/ Lose(a) PROVE TypeOK'
    <2>1. PcOK
        BY <1>12, GotoType DEF Crash, Lose, PC, LivePC, CallPC, TypeOK
    <2>2. QED
        BY <2>1, <1>12 DEF Crash, Lose, TypeOK
  <1>13. ASSUME NEW a \in Attempt, NEW b \in Attempt, Redeliver(a, b)
         PROVE  TypeOK'
    <2>1. key[a] \in Key
        BY <1>13, DispatchedKey DEF Redeliver
    <2>2. PcOK
        BY <2>1, <1>13 DEF Redeliver, PC, LivePC, TypeOK
    <2>3. QED
        BY <2>2, <1>13 DEF Redeliver, TypeOK
  <1>14. ASSUME NEW k \in Key, Expire(k) PROVE TypeOK'
    <2>1. rows' \in [Key -> Row]
        BY <1>14, StaleUpdate DEF Expire, TypeOK
    <2>2. QED
        BY <2>1, <1>14 DEF Expire, TypeOK
  <1>15. CASE UNCHANGED vars
      BY <1>15 DEF vars, TypeOK
  <1>16. QED
      BY <1>1, <1>2, <1>3, <1>4, <1>5, <1>6, <1>7, <1>8, <1>9, <1>10, <1>11,
         <1>12, <1>13, <1>14, <1>15 DEF Next, Work

(* Every step preserves the four strengthening facts and SentWasDelivered. *)
LEMMA InductiveStep == IInv /\ [Next]_vars => IInv'
  <1> SUFFICES ASSUME IInv, [Next]_vars PROVE IInv'
      OBVIOUS
  <1> USE OutboundAssumption
  <1>1. TypeOK /\ TypeOK'
      BY TypeStep DEF IInv
  <1> DEFINE Rest == /\ TokenSound' /\ CountSound' /\ CallerOwns'
                     /\ DelivererOwns' /\ SentWasDelivered'
  <1>2. ASSUME NEW a \in Attempt, InsertClaim(a) PROVE Rest
    <2>1. key[a] \in Key /\ rows[key[a]] \in Row
        BY <1>1, <1>2, DispatchedKey DEF InsertClaim
    <2>2. TokenSound'
      <3>1. CASE rows[key[a]].status = "absent"
        <4>1. rows' = [rows EXCEPT ![key[a]] = ClaimOf(a)]
            BY <1>2, <3>1 DEF InsertClaim
        <4>2. /\ rows'[key[a]].token = a
              /\ rows'[key[a]].status = "pending"
              /\ \A k \in Key \ {key[a]} : rows'[k] = rows[k]
            BY <4>1, <1>1, <2>1 DEF TypeOK, ClaimOf
        <4>3. /\ pc'[a] = "claimed"
              /\ \A x \in Attempt \ {a} : pc'[x] = pc[x]
              /\ key' = key
            BY <1>1, <1>2, <3>1 DEF InsertClaim, Goto, TypeOK
        <4>4. \A k \in Key \ {key[a]} : rows[k].token # a
            BY <1>2 DEF InsertClaim, IInv, TokenSound
        <4>5. QED
            BY <4>2, <4>3, <4>4 DEF IInv, TokenSound
      <3>2. CASE rows[key[a]].status # "absent"
          BY <1>1, <3>2, <1>2 DEF InsertClaim, IInv, TypeOK, Goto, TokenSound
      <3>3. QED
          BY <3>1, <3>2
    <2>3. CountSound'
        BY <1>1, <2>1, <1>2 DEF InsertClaim, IInv, TypeOK, Goto, CountSound, CallPC
    <2>4. CallerOwns'
        BY <1>1, <2>1, <1>2 DEF InsertClaim, IInv, TypeOK, Goto, TokenSound, CallerOwns, CountSound, Row, ClaimOf, NoRow, Owns, CallPC, Claimed
    <2>5. DelivererOwns'
        BY <1>1, <2>1, <1>2 DEF InsertClaim, IInv, TypeOK, Goto, TokenSound, CountSound, CallerOwns, DelivererOwns, Row, ClaimOf, NoRow, Owns, CallPC, Claimed
    <2>6. SentWasDelivered'
        BY <1>1, <2>1, <1>2 DEF InsertClaim, IInv, TypeOK, Goto, TokenSound, CountSound, SentWasDelivered, Delivered, Row, ClaimOf, NoRow, Owns, Claimed
    <2>7. QED
        BY <2>2, <2>3, <2>4, <2>5, <2>6
  <1>3. ASSUME NEW a \in Attempt, ReclaimStale(a) PROVE Rest
    <2>1. key[a] \in Key /\ rows[key[a]] \in Row
        BY <1>1, <1>3, DispatchedKey DEF ReclaimStale
    <2>2. TokenSound'
        BY <1>1, <2>1, <1>3 DEF ReclaimStale, Reclaimable, IInv, TypeOK, Goto, TokenSound, Row, ClaimOf, NoRow, Owns, Claimed
    <2>3. CountSound'
        BY <1>1, <2>1, <1>3 DEF ReclaimStale, Reclaimable, IInv, TypeOK, Goto, CountSound, CallPC
    <2>4. CallerOwns'
        BY <1>1, <2>1, <1>3 DEF ReclaimStale, Reclaimable, IInv, TypeOK, Goto, TokenSound, CallerOwns, CountSound, Row, ClaimOf, NoRow, Owns, CallPC, Claimed
    <2>5. DelivererOwns'
      <3>1. CASE Reclaimable(key[a])
        <4>1. \A k \in Key \ {key[a]} : rows'[k] = rows[k]
            BY <1>1, <1>3, <3>1 DEF ReclaimStale, TypeOK
        <4>2. \A x \in Attempt \ stolen' :
                 Owns(x, {"sending", "sent", "failed"}) /\ key[x] \in Key
                   => key[x] # key[a]
            BY <1>3, <3>1 DEF ReclaimStale, Reclaimable, Owns, Claimed
        <4>3. stolen \subseteq stolen' /\ key' = key /\ delivered' = delivered
            BY <1>3, <3>1 DEF ReclaimStale
        <4>4. QED
            BY <4>1, <4>2, <4>3 DEF IInv, DelivererOwns, Owns
      <3>2. CASE ~Reclaimable(key[a])
          BY <1>3, <3>2 DEF ReclaimStale, IInv, DelivererOwns, Owns
      <3>3. QED
          BY <3>1, <3>2
    <2>6. SentWasDelivered'
        BY <1>1, <2>1, <1>3 DEF ReclaimStale, Reclaimable, IInv, TypeOK, Goto, TokenSound, CountSound, SentWasDelivered, Delivered, Row, ClaimOf, NoRow, Owns, Claimed
    <2>7. QED
        BY <2>2, <2>3, <2>4, <2>5, <2>6
  <1>4. ASSUME NEW a \in Attempt, AcquireSendLock(a) PROVE Rest
    <2>1. key[a] \in Key /\ rows[key[a]] \in Row
        BY <1>1, <1>4, DispatchedKey DEF AcquireSendLock
    <2>2. TokenSound'
        BY <1>1, <2>1, <1>4 DEF AcquireSendLock, IInv, TypeOK, Goto, TokenSound, Row, ClaimOf, NoRow, Owns, Claimed
    <2>3. CountSound'
        BY <1>1, <2>1, <1>4 DEF AcquireSendLock, IInv, TypeOK, Goto, CountSound, CallPC
    <2>4. CallerOwns'
        BY <1>1, <2>1, <1>4 DEF AcquireSendLock, IInv, TypeOK, Goto, TokenSound, CallerOwns, CountSound, Row, ClaimOf, NoRow, Owns, CallPC, Claimed
    <2>5. DelivererOwns'
        BY <1>1, <2>1, <1>4 DEF AcquireSendLock, IInv, TypeOK, Goto, TokenSound, CountSound, CallerOwns, DelivererOwns, Row, ClaimOf, NoRow, Owns, CallPC, Claimed
    <2>6. SentWasDelivered'
        BY <1>1, <2>1, <1>4 DEF AcquireSendLock, IInv, TypeOK, Goto, TokenSound, CountSound, SentWasDelivered, Delivered, Row, ClaimOf, NoRow, Owns, Claimed
    <2>7. QED
        BY <2>2, <2>3, <2>4, <2>5, <2>6
  <1>5. ASSUME NEW a \in Attempt, ChunkAccepted(a) PROVE Rest
    <2>1. key[a] \in Key /\ rows[key[a]] \in Row
        BY <1>1, <1>5, DispatchedKey DEF ChunkAccepted, CallPC
    <2>2. TokenSound'
        BY <1>1, <2>1, <1>5 DEF ChunkAccepted, IInv, TypeOK, Goto, TokenSound, Row, ClaimOf, NoRow, Owns, Claimed
    <2>3. CountSound'
        BY <1>1, <2>1, <1>5 DEF ChunkAccepted, IInv, TypeOK, Goto, CountSound, CallPC
    <2>4. CallerOwns'
        BY <1>1, <2>1, <1>5 DEF ChunkAccepted, IInv, TypeOK, Goto, TokenSound, CallerOwns, CountSound, Row, ClaimOf, NoRow, Owns, CallPC, Claimed
    <2>5. DelivererOwns'
        BY <1>1, <2>1, <1>5 DEF ChunkAccepted, IInv, TypeOK, Goto, TokenSound, CountSound, CallerOwns, DelivererOwns, Row, ClaimOf, NoRow, Owns, CallPC, Claimed
    <2>6. SentWasDelivered'
        BY <1>1, <2>1, <1>5 DEF ChunkAccepted, IInv, TypeOK, Goto, TokenSound, CountSound, SentWasDelivered, Delivered, Row, ClaimOf, NoRow, Owns, Claimed
    <2>7. QED
        BY <2>2, <2>3, <2>4, <2>5, <2>6
  <1>6. ASSUME NEW a \in Attempt, ChunkRejected(a) PROVE Rest
    <2>1. key[a] \in Key /\ rows[key[a]] \in Row
        BY <1>1, <1>6, DispatchedKey DEF ChunkRejected, CallPC
    <2>2. TokenSound'
        BY <1>1, <2>1, <1>6 DEF ChunkRejected, IInv, TypeOK, Goto, TokenSound, Row, ClaimOf, NoRow, Owns, Claimed
    <2>3. CountSound'
        BY <1>1, <2>1, <1>6 DEF ChunkRejected, IInv, TypeOK, Goto, CountSound, CallPC
    <2>4. CallerOwns'
        BY <1>1, <2>1, <1>6 DEF ChunkRejected, IInv, TypeOK, Goto, TokenSound, CallerOwns, CountSound, Row, ClaimOf, NoRow, Owns, CallPC, Claimed
    <2>5. DelivererOwns'
        BY <1>1, <2>1, <1>6 DEF ChunkRejected, IInv, TypeOK, Goto, TokenSound, CountSound, CallerOwns, DelivererOwns, Row, ClaimOf, NoRow, Owns, CallPC, Claimed
    <2>6. SentWasDelivered'
        BY <1>1, <2>1, <1>6 DEF ChunkRejected, IInv, TypeOK, Goto, TokenSound, CountSound, SentWasDelivered, Delivered, Row, ClaimOf, NoRow, Owns, Claimed
    <2>7. QED
        BY <2>2, <2>3, <2>4, <2>5, <2>6
  <1>7. ASSUME NEW a \in Attempt, ChunkAmbiguous(a) PROVE Rest
    <2>1. key[a] \in Key /\ rows[key[a]] \in Row
        BY <1>1, <1>7, DispatchedKey DEF ChunkAmbiguous, CallPC
    <2>2. TokenSound'
        BY <1>1, <2>1, <1>7 DEF ChunkAmbiguous, IInv, TypeOK, Goto, TokenSound, Row, ClaimOf, NoRow, Owns, Claimed
    <2>3. CountSound'
        BY <1>1, <2>1, <1>7 DEF ChunkAmbiguous, IInv, TypeOK, Goto, CountSound, CallPC
    <2>4. CallerOwns'
        BY <1>1, <2>1, <1>7 DEF ChunkAmbiguous, IInv, TypeOK, Goto, TokenSound, CallerOwns, CountSound, Row, ClaimOf, NoRow, Owns, CallPC, Claimed
    <2>5. DelivererOwns'
        BY <1>1, <2>1, <1>7 DEF ChunkAmbiguous, IInv, TypeOK, Goto, TokenSound, CountSound, CallerOwns, DelivererOwns, Row, ClaimOf, NoRow, Owns, CallPC, Claimed
    <2>6. SentWasDelivered'
      <3>1. \A x \in Attempt : delivered'[x] >= delivered[x]
          BY <1>1, <1>7 DEF ChunkAmbiguous, TypeOK
      <3>2. delivered \in [Attempt -> Nat] /\ delivered' \in [Attempt -> Nat]
          BY <1>1 DEF TypeOK
      <3>3. rows' = rows /\ key' = key
          BY <1>7 DEF ChunkAmbiguous
      <3>4. QED
          BY <3>1, <3>2, <3>3 DEF IInv, SentWasDelivered, Delivered
    <2>7. QED
        BY <2>2, <2>3, <2>4, <2>5, <2>6
  <1>8. ASSUME NEW a \in Attempt, EmptyBody(a) PROVE Rest
    <2>1. key[a] \in Key /\ rows[key[a]] \in Row
        BY <1>1, <1>8, DispatchedKey DEF EmptyBody, CallPC
    <2>2. TokenSound'
        BY <1>1, <2>1, <1>8 DEF EmptyBody, IInv, TypeOK, Goto, TokenSound, Row, ClaimOf, NoRow, Owns, Claimed
    <2>3. CountSound'
        BY <1>1, <2>1, <1>8 DEF EmptyBody, IInv, TypeOK, Goto, CountSound, CallPC
    <2>4. CallerOwns'
        BY <1>1, <2>1, <1>8 DEF EmptyBody, IInv, TypeOK, Goto, TokenSound, CallerOwns, CountSound, Row, ClaimOf, NoRow, Owns, CallPC, Claimed
    <2>5. DelivererOwns'
        BY <1>1, <2>1, <1>8 DEF EmptyBody, IInv, TypeOK, Goto, TokenSound, CountSound, CallerOwns, DelivererOwns, Row, ClaimOf, NoRow, Owns, CallPC, Claimed
    <2>6. SentWasDelivered'
        BY <1>1, <2>1, <1>8 DEF EmptyBody, IInv, TypeOK, Goto, TokenSound, CountSound, SentWasDelivered, Delivered, Row, ClaimOf, NoRow, Owns, Claimed
    <2>7. QED
        BY <2>2, <2>3, <2>4, <2>5, <2>6
  <1>9. ASSUME NEW a \in Attempt, MarkSent(a) PROVE Rest
    <2>1. key[a] \in Key /\ rows[key[a]] \in Row
        BY <1>1, <1>9, DispatchedKey DEF MarkSent
    <2>2. TokenSound'
        BY <1>1, <2>1, <1>9 DEF MarkSent, IInv, TypeOK, Goto, TokenSound, Row, ClaimOf, NoRow, Owns, Claimed
    <2>3. CountSound'
        BY <1>1, <2>1, <1>9 DEF MarkSent, IInv, TypeOK, Goto, CountSound, CallPC
    <2>4. CallerOwns'
        BY <1>1, <2>1, <1>9 DEF MarkSent, IInv, TypeOK, Goto, TokenSound, CallerOwns, CountSound, Row, ClaimOf, NoRow, Owns, CallPC, Claimed
    <2>5. DelivererOwns'
        BY <1>1, <2>1, <1>9 DEF MarkSent, IInv, TypeOK, Goto, TokenSound, CountSound, CallerOwns, DelivererOwns, Row, ClaimOf, NoRow, Owns, CallPC, Claimed
    <2>6. SentWasDelivered'
        BY <1>1, <2>1, <1>9 DEF MarkSent, IInv, TypeOK, Goto, TokenSound, CountSound, SentWasDelivered, Delivered, Row, ClaimOf, NoRow, Owns, Claimed
    <2>7. QED
        BY <2>2, <2>3, <2>4, <2>5, <2>6
  <1>10. ASSUME NEW a \in Attempt, MarkFailed(a) PROVE Rest
    <2>1. key[a] \in Key /\ rows[key[a]] \in Row
        BY <1>1, <1>10, DispatchedKey DEF MarkFailed
    <2>2. TokenSound'
        BY <1>1, <2>1, <1>10 DEF MarkFailed, IInv, TypeOK, Goto, TokenSound, Row, ClaimOf, NoRow, Owns, Claimed
    <2>3. CountSound'
        BY <1>1, <2>1, <1>10 DEF MarkFailed, IInv, TypeOK, Goto, CountSound, CallPC
    <2>4. CallerOwns'
        BY <1>1, <2>1, <1>10 DEF MarkFailed, IInv, TypeOK, Goto, TokenSound, CallerOwns, CountSound, Row, ClaimOf, NoRow, Owns, CallPC, Claimed
    <2>5. DelivererOwns'
        BY <1>1, <2>1, <1>10 DEF MarkFailed, IInv, TypeOK, Goto, TokenSound, CountSound, CallerOwns, DelivererOwns, Row, ClaimOf, NoRow, Owns, CallPC, Claimed
    <2>6. SentWasDelivered'
        BY <1>1, <2>1, <1>10 DEF MarkFailed, IInv, TypeOK, Goto, TokenSound, CountSound, SentWasDelivered, Delivered, Row, ClaimOf, NoRow, Owns, Claimed
    <2>7. QED
        BY <2>2, <2>3, <2>4, <2>5, <2>6
  <1>11. ASSUME NEW a \in Attempt, ReleaseClaim(a) PROVE Rest
    <2>1. key[a] \in Key /\ rows[key[a]] \in Row
        BY <1>1, <1>11, DispatchedKey DEF ReleaseClaim
    <2>2. TokenSound'
        BY <1>1, <2>1, <1>11 DEF ReleaseClaim, IInv, TypeOK, Goto, TokenSound, Row, ClaimOf, NoRow, Owns, Claimed
    <2>3. CountSound'
        BY <1>1, <2>1, <1>11 DEF ReleaseClaim, IInv, TypeOK, Goto, CountSound, CallPC
    <2>4. CallerOwns'
        BY <1>1, <2>1, <1>11 DEF ReleaseClaim, IInv, TypeOK, Goto, TokenSound, CallerOwns, CountSound, Row, ClaimOf, NoRow, Owns, CallPC, Claimed
    <2>5. DelivererOwns'
        BY <1>1, <2>1, <1>11 DEF ReleaseClaim, IInv, TypeOK, Goto, TokenSound, CountSound, CallerOwns, DelivererOwns, Row, ClaimOf, NoRow, Owns, CallPC, Claimed
    <2>6. SentWasDelivered'
        BY <1>1, <2>1, <1>11 DEF ReleaseClaim, IInv, TypeOK, Goto, TokenSound, CountSound, SentWasDelivered, Delivered, Row, ClaimOf, NoRow, Owns, Claimed
    <2>7. QED
        BY <2>2, <2>3, <2>4, <2>5, <2>6
  <1>12. ASSUME NEW a \in Attempt, NEW k \in Key, Dispatch(a, k) PROVE Rest
    <2>2. TokenSound'
        BY <1>1, <1>12 DEF Dispatch, IInv, TypeOK, Goto, TokenSound, Row, Claimed
    <2>3. CountSound'
        BY <1>1, <1>12 DEF Dispatch, IInv, TypeOK, Goto, CountSound
    <2>4. CallerOwns'
        BY <1>1, <1>12 DEF Dispatch, IInv, TypeOK, Goto, CallerOwns, CountSound, Owns, CallPC, Row
    <2>5. DelivererOwns'
        BY <1>1, <1>12 DEF Dispatch, IInv, TypeOK, Goto, DelivererOwns, CountSound, Owns, Row
    <2>6. SentWasDelivered'
        BY <1>1, <1>12 DEF Dispatch, IInv, TypeOK, Goto, TokenSound, SentWasDelivered, Delivered, Row
    <2>7. QED
        BY <2>2, <2>3, <2>4, <2>5, <2>6
  <1>13. ASSUME NEW a \in Attempt, Crash(a) \/ Lose(a) PROVE Rest
    <2>2. TokenSound'
        BY <1>1, <1>13 DEF Crash, Lose, IInv, TypeOK, Goto, TokenSound, Row, Claimed
    <2>3. CountSound'
        BY <1>1, <1>13 DEF Crash, Lose, IInv, TypeOK, Goto, CountSound
    <2>4. CallerOwns'
        BY <1>1, <1>13 DEF Crash, Lose, IInv, TypeOK, Goto, CallerOwns, CountSound, Owns, CallPC, Row
    <2>5. DelivererOwns'
        BY <1>1, <1>13 DEF Crash, Lose, IInv, TypeOK, Goto, DelivererOwns, CountSound, Owns, Row
    <2>6. SentWasDelivered'
        BY <1>1, <1>13 DEF Crash, Lose, IInv, TypeOK, Goto, TokenSound, SentWasDelivered, Delivered, Row
    <2>7. QED
        BY <2>2, <2>3, <2>4, <2>5, <2>6
  <1>14. ASSUME NEW a \in Attempt, NEW b \in Attempt, Redeliver(a, b) PROVE Rest
    <2>2. TokenSound'
        BY <1>1, <1>14 DEF Redeliver, IInv, TypeOK, Goto, TokenSound, Row, Claimed
    <2>3. CountSound'
        BY <1>1, <1>14 DEF Redeliver, IInv, TypeOK, Goto, CountSound
    <2>4. CallerOwns'
        BY <1>1, <1>14 DEF Redeliver, IInv, TypeOK, Goto, CallerOwns, CountSound, Owns, CallPC, Row
    <2>5. DelivererOwns'
        BY <1>1, <1>14 DEF Redeliver, IInv, TypeOK, Goto, DelivererOwns, CountSound, Owns, Row
    <2>6. SentWasDelivered'
        BY <1>1, <1>14 DEF Redeliver, IInv, TypeOK, Goto, TokenSound, SentWasDelivered, Delivered, Row
    <2>7. QED
        BY <2>2, <2>3, <2>4, <2>5, <2>6
  <1>15. ASSUME NEW k \in Key, Expire(k) PROVE Rest
    <2>2. TokenSound'
        BY <1>1, <1>15 DEF Expire, IInv, TypeOK, Goto, TokenSound, Row, Claimed
    <2>3. CountSound'
        BY <1>1, <1>15 DEF Expire, IInv, TypeOK, Goto, CountSound
    <2>4. CallerOwns'
        BY <1>1, <1>15 DEF Expire, IInv, TypeOK, Goto, CallerOwns, CountSound, Owns, CallPC, Row
    <2>5. DelivererOwns'
        BY <1>1, <1>15 DEF Expire, IInv, TypeOK, Goto, DelivererOwns, CountSound, Owns, Row
    <2>6. SentWasDelivered'
        BY <1>1, <1>15 DEF Expire, IInv, TypeOK, Goto, TokenSound, SentWasDelivered, Delivered, Row
    <2>7. QED
        BY <2>2, <2>3, <2>4, <2>5, <2>6
  <1>16. CASE UNCHANGED vars
      BY <1>16 DEF vars, IInv, TypeOK, Goto, TokenSound, CountSound, CallerOwns, DelivererOwns, SentWasDelivered, Delivered, Owns, CallPC, Row
  <1>17. QED
      BY <1>1, <1>2, <1>3, <1>4, <1>5, <1>6, <1>7, <1>8, <1>9, <1>10, <1>11, <1>12, <1>13, <1>14, <1>15, <1>16 DEF Next, Work, IInv

(* TypeOK holds for every set of keys and attempts. *)
THEOREM TypeCorrect == Spec => []TypeOK
  <1>1. IInv => TypeOK
      BY DEF IInv
  <1>2. QED
      BY <1>1, InitIInv, InductiveStep, PTL DEF Spec

(* Two deliverers of one key that both kept their row would hold the same  *)
(* token, so they would be the same execution.                             *)
LEMMA IInvFenced == IInv => FencedDelivery
  <1> SUFFICES ASSUME IInv, NEW k \in Key,
                      NEW a \in Delivered(k), NEW b \in Delivered(k),
                      a # b, a \notin stolen, b \notin stolen
               PROVE  FALSE
      BY DEF FencedDelivery
  <1>1. rows[k].token = a /\ rows[k].token = b
      BY DEF IInv, DelivererOwns, Delivered, Owns
  <1>2. QED
      BY <1>1

(* The fencing guarantee of the claim token, with no assumption on timing  *)
(* or crashes: a second delivery needs a row stolen during a Twilio call.  *)
THEOREM Fencing == Spec => []FencedDelivery
  <1>1. QED
      BY IInvFenced, InitIInv, InductiveStep, PTL DEF Spec

(* `sent` is only ever recorded for a message its own claimant delivered.  *)
THEOREM SentIsTrue == Spec => []SentWasDelivered
  <1>1. IInv => SentWasDelivered
      BY DEF IInv
  <1>2. QED
      BY <1>1, InitIInv, InductiveStep, PTL DEF Spec

(* sent and failed rows never change again. *)
THEOREM TerminalFinal == Spec => TerminalRowsFinal
  <1> DEFINE Final == \A k \in Key : rows[k].status \in Terminal
                                        => rows'[k] = rows[k]
  <1>1. ASSUME IInv, [Next]_vars PROVE [Final]_vars
    <2> USE <1>1 DEF Terminal, Claimed, IInv, TypeOK
    <2>1. ASSUME NEW a \in Attempt, Work(a) PROVE Final
        BY <2>1 DEF Work, InsertClaim, ReclaimStale, Reclaimable,
           AcquireSendLock, ChunkAccepted, ChunkRejected, ChunkAmbiguous,
           EmptyBody, MarkSent, MarkFailed, ReleaseClaim, Owns
    <2>2. ASSUME NEW k \in Key, Expire(k) PROVE Final
        BY <2>2 DEF Expire
    <2>3. ASSUME NEW a \in Attempt, NEW b \in Attempt, NEW k \in Key,
                 Dispatch(a, k) \/ Crash(a) \/ Lose(a) \/ Redeliver(a, b)
          PROVE  Final
        BY <2>3 DEF Dispatch, Crash, Lose, Redeliver
    <2>4. QED
        BY <2>1, <2>2, <2>3 DEF Next
  <1>2. QED
      BY <1>1, InitIInv, InductiveStep, PTL DEF Spec, TerminalRowsFinal

-----------------------------------------------------------------------------
(* At most one message, under the timing the deployment is meant to have.  *)

(* A claim outlives its live worker, and no worker dies calling Twilio. *)
SafeTiming == LivePC \subseteq Covered /\ CrashPoints \cap CallPC = {}

(* A stale claim then belongs to a worker that died before its send lock:  *)
(* a `sending` row is always fresh and its owner is inside the call.       *)
NothingStolen ==
    /\ stolen = {}
    /\ \A k \in Key :
          /\ rows[k].status = "sending" =>
                pc[rows[k].token] \in CallPC /\ ~rows[k].stale
          /\ rows[k].status = "pending" =>
                /\ pc[rows[k].token] \in {"claimed", "crashed", "requeued", "lost"}
                /\ pc[rows[k].token] = "claimed" => ~rows[k].stale

LEMMA InitNothingStolen == Init => NothingStolen
  BY DEF Init, NothingStolen, NoRow

LEMMA NothingStolenStep ==
    ASSUME SafeTiming, IInv, NothingStolen, [Next]_vars
    PROVE  NothingStolen'
  <1> USE OutboundAssumption DEF NothingStolen, Goto
  <1>1. IInv' /\ TypeOK /\ TypeOK' /\ TokenSound /\ CallerOwns
      BY InductiveStep DEF IInv
  <1>2. \A x \in Attempt : pc[x] \in CallPC => Owns(x, {"sending"})
      BY <1>1 DEF CallerOwns
  <1>3. \A x \in Attempt : pc[x] = "crashed" => pc[x] \notin CallPC
      BY DEF CallPC
  <1>4. ASSUME NEW a \in Attempt, InsertClaim(a) PROVE NothingStolen'
    <2>1. key[a] \in Key /\ rows[key[a]] \in Row
        BY <1>1, <1>4, DispatchedKey DEF InsertClaim, CallPC
    <2>2. QED
        BY <1>1, <1>2, <2>1, <1>4 DEF InsertClaim, TypeOK, TokenSound, Owns,
           ClaimOf, NoRow, Row, Claimed, CallPC
  <1>5. ASSUME NEW a \in Attempt, ReclaimStale(a) PROVE NothingStolen'
    <2>1. key[a] \in Key /\ rows[key[a]] \in Row
        BY <1>1, <1>5, DispatchedKey DEF ReclaimStale, CallPC
    <2>2. CASE Reclaimable(key[a])
      <3>1. rows[key[a]].status = "pending" /\ stolen' = stolen
          BY <1>5, <2>1, <2>2 DEF ReclaimStale, Reclaimable, Claimed
      <3>2. /\ rows'[key[a]] = ClaimOf(a)
            /\ \A k \in Key \ {key[a]} : rows'[k] = rows[k]
          BY <1>1, <1>5, <2>1, <2>2 DEF ReclaimStale, TypeOK
      <3>3. /\ pc'[a] = "claimed"
            /\ \A x \in Attempt \ {a} : pc'[x] = pc[x]
          BY <1>1, <1>5, <2>2 DEF ReclaimStale, TypeOK
      <3>4. \A k \in Key : rows[k].token # a
          BY <1>1, <1>5 DEF ReclaimStale, TokenSound
      <3>5. \A k \in Key : rows[k].status \in {"pending", "sending"}
                               => rows[k].token \in Attempt
          BY <1>1 DEF TokenSound, TypeOK, Row
      <3>6. QED
          BY <3>1, <3>2, <3>3, <3>4, <3>5 DEF ClaimOf
    <2>3. CASE ~Reclaimable(key[a])
      <3>1. rows' = rows /\ stolen' = stolen /\ pc' = [pc EXCEPT ![a] = "done"]
          BY <1>5, <2>3 DEF ReclaimStale
      <3>2. \A k \in Key : rows[k].token # a
          BY <1>1, <1>5 DEF ReclaimStale, TokenSound
      <3>3. \A k \in Key : rows[k].status \in {"pending", "sending"}
                               => rows[k].token \in Attempt
          BY <1>1 DEF TokenSound, TypeOK, Row
      <3>4. QED
          BY <1>1, <3>1, <3>2, <3>3 DEF TypeOK
    <2>4. QED
        BY <2>2, <2>3
  <1>6. ASSUME NEW a \in Attempt, AcquireSendLock(a) PROVE NothingStolen'
    <2>1. key[a] \in Key /\ rows[key[a]] \in Row
        BY <1>1, <1>6, DispatchedKey DEF AcquireSendLock, CallPC
    <2>2. QED
        BY <1>1, <1>2, <2>1, <1>6 DEF AcquireSendLock, TypeOK, TokenSound, Owns,
           ClaimOf, NoRow, Row, Claimed, CallPC
  <1>7. ASSUME NEW a \in Attempt, ChunkAccepted(a) PROVE NothingStolen'
    <2>1. key[a] \in Key /\ rows[key[a]] \in Row
        BY <1>1, <1>7, DispatchedKey DEF ChunkAccepted, CallPC
    <2>2. QED
        BY <1>1, <1>2, <2>1, <1>7 DEF ChunkAccepted, TypeOK, TokenSound, Owns,
           ClaimOf, NoRow, Row, Claimed, CallPC
  <1>8. ASSUME NEW a \in Attempt, ChunkRejected(a) PROVE NothingStolen'
    <2>1. key[a] \in Key /\ rows[key[a]] \in Row
        BY <1>1, <1>8, DispatchedKey DEF ChunkRejected, CallPC
    <2>2. QED
        BY <1>1, <1>2, <2>1, <1>8 DEF ChunkRejected, TypeOK, TokenSound, Owns,
           ClaimOf, NoRow, Row, Claimed, CallPC
  <1>9. ASSUME NEW a \in Attempt, ChunkAmbiguous(a) PROVE NothingStolen'
    <2>1. key[a] \in Key /\ rows[key[a]] \in Row
        BY <1>1, <1>9, DispatchedKey DEF ChunkAmbiguous, CallPC
    <2>2. QED
        BY <1>1, <1>2, <2>1, <1>9 DEF ChunkAmbiguous, TypeOK, TokenSound, Owns,
           ClaimOf, NoRow, Row, Claimed, CallPC
  <1>10. ASSUME NEW a \in Attempt, EmptyBody(a) PROVE NothingStolen'
    <2>1. key[a] \in Key /\ rows[key[a]] \in Row
        BY <1>1, <1>10, DispatchedKey DEF EmptyBody, CallPC
    <2>2. QED
        BY <1>1, <1>2, <2>1, <1>10 DEF EmptyBody, TypeOK, TokenSound, Owns,
           ClaimOf, NoRow, Row, Claimed, CallPC
  <1>11. ASSUME NEW a \in Attempt, MarkSent(a) PROVE NothingStolen'
    <2>1. key[a] \in Key /\ rows[key[a]] \in Row
        BY <1>1, <1>11, DispatchedKey DEF MarkSent, CallPC
    <2>2. QED
        BY <1>1, <1>2, <2>1, <1>11 DEF MarkSent, TypeOK, TokenSound, Owns,
           ClaimOf, NoRow, Row, Claimed, CallPC
  <1>12. ASSUME NEW a \in Attempt, MarkFailed(a) PROVE NothingStolen'
    <2>1. key[a] \in Key /\ rows[key[a]] \in Row
        BY <1>1, <1>12, DispatchedKey DEF MarkFailed, CallPC
    <2>2. QED
        BY <1>1, <1>2, <2>1, <1>12 DEF MarkFailed, TypeOK, TokenSound, Owns,
           ClaimOf, NoRow, Row, Claimed, CallPC
  <1>13. ASSUME NEW a \in Attempt, ReleaseClaim(a) PROVE NothingStolen'
    <2>1. key[a] \in Key /\ rows[key[a]] \in Row
        BY <1>1, <1>13, DispatchedKey DEF ReleaseClaim, CallPC
    <2>2. QED
        BY <1>1, <1>2, <2>1, <1>13 DEF ReleaseClaim, TypeOK, TokenSound, Owns,
           ClaimOf, NoRow, Row, Claimed, CallPC
  <1>14. ASSUME NEW a \in Attempt, NEW k \in Key, Dispatch(a, k) PROVE NothingStolen'
      BY <1>1, <1>14 DEF Dispatch, SafeTiming, LivePC, CallPC, TypeOK, TokenSound, Row, Claimed
  <1>15. ASSUME NEW a \in Attempt, Crash(a) \/ Lose(a) PROVE NothingStolen'
      BY <1>1, <1>15 DEF Crash, Lose, SafeTiming, LivePC, CallPC, TypeOK, TokenSound, Row, Claimed
  <1>16. ASSUME NEW a \in Attempt, NEW b \in Attempt, Redeliver(a, b) PROVE NothingStolen'
      BY <1>1, <1>16 DEF Redeliver, SafeTiming, LivePC, CallPC, TypeOK, TokenSound, Row, Claimed
  <1>17. ASSUME NEW k \in Key, Expire(k) PROVE NothingStolen'
      BY <1>1, <1>17 DEF Expire, SafeTiming, LivePC, CallPC, TypeOK, TokenSound, Row, Claimed
  <1>18. CASE UNCHANGED vars
      BY <1>18 DEF vars
  <1>19. QED
      BY <1>4, <1>5, <1>6, <1>7, <1>8, <1>9, <1>10, <1>11, <1>12, <1>13, <1>14, <1>15, <1>16, <1>17, <1>18 DEF Next, Work

(* If claims outlive live workers and no worker dies while calling Twilio, *)
(* at most one execution per dedup key reaches the user.                   *)
THEOREM AtMostOnce == SafeTiming => (Spec => []AtMostOneMessage)
  <1> SUFFICES ASSUME SafeTiming PROVE Spec => []AtMostOneMessage
      OBVIOUS
  <1>1. IInv /\ NothingStolen => AtMostOneMessage
    <2> SUFFICES ASSUME IInv, NothingStolen, NEW k \in Key
                 PROVE  Cardinality(Delivered(k)) <= 1
        BY DEF AtMostOneMessage
    <2>1. \A a, b \in Delivered(k) : a = b
        BY IInvFenced DEF FencedDelivery, NothingStolen
    <2>2. CASE Delivered(k) = {}
        BY <2>2, FS_EmptySet
    <2>3. CASE Delivered(k) # {}
      <3>1. PICK a : a \in Delivered(k)
          BY <2>3
      <3>2. Delivered(k) = {a}
          BY <2>1, <3>1
      <3>3. Cardinality({a}) = 1
          BY FS_Singleton
      <3>4. QED
          BY <3>2, <3>3
    <2>4. QED
        BY <2>2, <2>3
  <1>2. IInv /\ NothingStolen /\ [Next]_vars => (IInv /\ NothingStolen)'
      BY InductiveStep, NothingStolenStep
  <1>3. QED
      BY <1>1, <1>2, InitIInv, InitNothingStolen, PTL DEF Spec

-----------------------------------------------------------------------------
(* Under the same assumption every step is one of the promise or stutters. *)

Copies    == [k \in Key |-> Cardinality(Delivered(k))]
OutcomeOf(r) == IF r.status \in Terminal THEN r.status ELSE "open"
Outcomes  == [k \in Key |-> OutcomeOf(rows[k])]

(* A key is delivered by none or by one. *)
OneCopy == \A k \in Key :
    /\ Delivered(k) = {} => Cardinality(Delivered(k)) = 0
    /\ Delivered(k) # {} => Cardinality(Delivered(k)) = 1
    /\ \A a, b \in Delivered(k) : a = b

LEMMA OneCopyHolds == IInv /\ NothingStolen => OneCopy
  <1> SUFFICES ASSUME IInv, NothingStolen, NEW k \in Key
               PROVE  /\ Delivered(k) = {} => Cardinality(Delivered(k)) = 0
                      /\ Delivered(k) # {} => Cardinality(Delivered(k)) = 1
                      /\ \A a, b \in Delivered(k) : a = b
      BY DEF OneCopy
  <1>1. \A a, b \in Delivered(k) : a = b
      BY IInvFenced DEF FencedDelivery, NothingStolen
  <1>2. CASE Delivered(k) = {}
      BY <1>2, FS_EmptySet
  <1>3. CASE Delivered(k) # {}
    <2>1. PICK a : Delivered(k) = {a}
        BY <1>1, <1>3
    <2>2. Cardinality({a}) = 1
        BY FS_Singleton
    <2>3. QED
        BY <1>1, <1>3, <2>1, <2>2
  <1>4. QED
      BY <1>1, <1>2, <1>3

(* No outcome is recorded and nothing more is delivered. *)
LEMMA StepStutters ==
    ASSUME TypeOK, TypeOK', NEW a \in Attempt,
           \A x \in Attempt : delivered'[x] = delivered[x],
           \A x \in Attempt : key'[x] = key[x] \/ delivered[x] = 0,
           \A k \in Key : \/ rows'[k].status = rows[k].status
                          \/ {rows[k].status, rows'[k].status} \cap Terminal = {}
    PROVE  UNCHANGED <<Copies, Outcomes>>
  <1>1. ASSUME NEW k \in Key PROVE Delivered(k)' = Delivered(k)
      BY DEF Delivered
  <1>2. ASSUME NEW k \in Key PROVE OutcomeOf(rows'[k]) = OutcomeOf(rows[k])
      BY DEF OutcomeOf
  <1>3. QED
      BY <1>1, <1>2 DEF Copies, Outcomes

(* Twilio takes a chunk: for a's key it is the first copy or one more of   *)
(* the same.                                                               *)
LEMMA StepDelivers ==
    ASSUME IInv, NothingStolen, OneCopy, OneCopy', NEW a \in Attempt,
           pc[a] \in CallPC, UNCHANGED <<rows, key>>,
           delivered[a] > 0 => delivered'[a] > 0,
           \A x \in Attempt \ {a} : delivered'[x] = delivered[x]
    PROVE  \/ UNCHANGED <<Copies, Outcomes>>
           \/ \E k \in Key : /\ Outcomes[k] = "open" /\ Copies[k] = 0
                             /\ Copies' = [Copies EXCEPT ![k] = 1]
                             /\ UNCHANGED Outcomes
  <1>. DEFINE k == key[a]
  <1>1. k \in Key /\ rows[k].status = "sending"
    <2>1. pc[a] # "unused"
        BY DEF CallPC
    <2>2. QED
        BY <2>1, DispatchedKey DEF IInv, CallerOwns, Owns, NothingStolen
  <1>2. UNCHANGED Outcomes /\ Outcomes[k] = "open"
      BY <1>1 DEF Outcomes, OutcomeOf, Terminal
  <1>3. \A j \in Key \ {k} : Delivered(j)' = Delivered(j)
      BY DEF Delivered
  <1>4. Delivered(k)' = Delivered(k) \/ (a \in Delivered(k)' /\ a \notin Delivered(k))
      BY DEF Delivered
  <1>5. CASE Delivered(k)' = Delivered(k)
    <2>1. \A j \in Key : Delivered(j)' = Delivered(j)
        BY <1>3, <1>5
    <2>2. UNCHANGED Copies
        BY <2>1 DEF Copies
    <2>3. QED
        BY <1>2, <2>2
  <1>6. CASE a \in Delivered(k)' /\ a \notin Delivered(k)
    <2>1. Delivered(k) = {}
      <3>1. Delivered(k) \subseteq Delivered(k)'
          BY DEF Delivered
      <3>2. \A x \in Delivered(k)' : x = a
          BY <1>1, <1>6 DEF OneCopy
      <3>3. QED
          BY <1>6, <3>1, <3>2
    <2>2. Copies[k] = 0
        BY <1>1, <2>1 DEF OneCopy, Copies
    <2>3. Cardinality(Delivered(k))' = 1
        BY <1>1, <1>6 DEF OneCopy
    <2>4. Copies' = [Copies EXCEPT ![k] = 1]
        BY <1>1, <1>3, <2>3 DEF Copies
    <2>5. QED
        BY <1>1, <1>2, <2>2, <2>4
  <1>7. QED
      BY <1>4, <1>5, <1>6

(* An outcome is recorded by the attempt that is in the call, and sent     *)
(* only what was delivered.                                                *)
LEMMA StepRecords ==
    ASSUME IInv, OneCopy, NEW a \in Attempt, NEW o \in Terminal,
           pc[a] \in CallPC, UNCHANGED <<key, delivered>>,
           o = "sent" => delivered[a] > 0,
           rows' = IF Owns(a, {"sending"}) THEN [rows EXCEPT ![key[a]].status = o] ELSE rows
    PROVE  \/ UNCHANGED <<Copies, Outcomes>>
           \/ \E k \in Key : /\ Outcomes[k] = "open" /\ (o = "sent" => Copies[k] = 1)
                             /\ Outcomes' = [Outcomes EXCEPT ![k] = o]
                             /\ UNCHANGED Copies
  <1>. DEFINE k == key[a]
  <1>1. k \in Key /\ rows \in [Key -> Row]
    <2>1. pc[a] # "unused"
        BY DEF CallPC
    <2>2. QED
        BY <2>1, DispatchedKey DEF IInv, TypeOK
  <1>2. UNCHANGED Copies
    <2>1. \A j \in Key : Delivered(j)' = Delivered(j)
        BY DEF Delivered
    <2>2. QED
        BY <2>1 DEF Copies
  <1>3. CASE ~Owns(a, {"sending"})
      BY <1>2, <1>3 DEF Outcomes
  <1>4. CASE Owns(a, {"sending"})
    <2>1. Outcomes[k] = "open"
        BY <1>1, <1>4 DEF Outcomes, OutcomeOf, Owns, Terminal
    <2>2. OutcomeOf(rows'[k]) = o /\ \A j \in Key \ {k} : rows'[j] = rows[j]
        BY <1>1, <1>4 DEF OutcomeOf, Row
    <2>3. Outcomes' = [Outcomes EXCEPT ![k] = o]
        BY <1>1, <2>2 DEF Outcomes
    <2>4. o = "sent" => Copies[k] = 1
      <3>1. o = "sent" => a \in Delivered(k)
          BY DEF Delivered
      <3>2. QED
          BY <1>1, <3>1 DEF OneCopy, Copies
    <2>5. QED
        BY <1>1, <1>2, <2>1, <2>3, <2>4
  <1>5. QED
      BY <1>3, <1>4

LEMMA PromiseStep ==
    ASSUME IInv, NothingStolen, IInv', NothingStolen', OneCopy, OneCopy', [Next]_vars
    PROVE  [Promise!Next]_<<Copies, Outcomes>>
  <1> USE OutboundAssumption DEF Goto
  <1>1. TypeOK /\ TypeOK'
      BY DEF IInv
  <1>2. ASSUME UNCHANGED <<Copies, Outcomes>> PROVE [Promise!Next]_<<Copies, Outcomes>>
      BY <1>2
  <1>3. ASSUME NEW k \in Key, Outcomes[k] = "open", Copies[k] = 0,
               Copies' = [Copies EXCEPT ![k] = 1], UNCHANGED Outcomes
        PROVE  Promise!Next
      BY <1>3 DEF Promise!Next, Promise!Deliver, Copies, Outcomes, OutcomeOf
  <1>4. ASSUME NEW k \in Key, NEW o \in Terminal, Outcomes[k] = "open",
               o = "sent" => Copies[k] = 1,
               Outcomes' = [Outcomes EXCEPT ![k] = o], UNCHANGED Copies
        PROVE  Promise!Next
      BY <1>4 DEF Promise!Next, Promise!Record, Copies, Outcomes, OutcomeOf, Terminal
  <1>5. ASSUME NEW a \in Attempt, ChunkAccepted(a) \/ ChunkAmbiguous(a)
        PROVE  [Promise!Next]_<<Copies, Outcomes>>
    <2>1. /\ pc[a] \in CallPC /\ UNCHANGED <<rows, key>>
          /\ delivered[a] > 0 => delivered'[a] > 0
          /\ \A x \in Attempt \ {a} : delivered'[x] = delivered[x]
        BY <1>1, <1>5 DEF ChunkAccepted, ChunkAmbiguous, TypeOK, CallPC
    <2>2. QED
        BY <1>2, <1>3, <2>1, StepDelivers
  <1>6. ASSUME NEW a \in Attempt, MarkSent(a)
        PROVE  [Promise!Next]_<<Copies, Outcomes>>
    <2>1. /\ pc[a] \in CallPC /\ "sent" \in Terminal /\ UNCHANGED <<key, delivered>>
          /\ delivered[a] > 0
          /\ rows' = IF Owns(a, {"sending"}) THEN [rows EXCEPT ![key[a]].status = "sent"] ELSE rows
        BY <1>6 DEF MarkSent, CallPC, Terminal, IInv, CountSound
    <2>2. QED
        BY <1>2, <1>4, <2>1, StepRecords
  <1>7. ASSUME NEW a \in Attempt, MarkFailed(a)
        PROVE  [Promise!Next]_<<Copies, Outcomes>>
    <2>1. /\ pc[a] \in CallPC /\ "failed" \in Terminal /\ UNCHANGED <<key, delivered>>
          /\ rows' = IF Owns(a, {"sending"}) THEN [rows EXCEPT ![key[a]].status = "failed"] ELSE rows
        BY <1>7 DEF MarkFailed, CallPC, Terminal
    <2>2. QED
        BY <1>2, <1>4, <2>1, StepRecords
  <1>8. ASSUME NEW a \in Attempt, ReclaimStale(a) \/ ReleaseClaim(a)
        PROVE  [Promise!Next]_<<Copies, Outcomes>>
    <2>1. UNCHANGED <<delivered, key>>
        BY <1>8 DEF ReclaimStale, ReleaseClaim
    <2>2. ASSUME NEW k \in Key PROVE \/ rows'[k].status = rows[k].status
                                    \/ {rows[k].status, rows'[k].status} \cap Terminal = {}
        BY <1>1, <1>8 DEF ReclaimStale, ReleaseClaim, Reclaimable, Owns, ClaimOf, NoRow, Claimed,
           Terminal, TypeOK
    <2>3. QED
        BY <1>1, <1>2, <2>1, <2>2, StepStutters
  <1>9. ASSUME NEW a \in Attempt, InsertClaim(a) \/ AcquireSendLock(a)
        PROVE  [Promise!Next]_<<Copies, Outcomes>>
    <2>1. UNCHANGED <<delivered, key>>
        BY <1>9 DEF InsertClaim, AcquireSendLock
    <2>2. ASSUME NEW k \in Key PROVE \/ rows'[k].status = rows[k].status
                                    \/ {rows[k].status, rows'[k].status} \cap Terminal = {}
      <3>1. CASE InsertClaim(a)
          BY <1>1, <3>1 DEF InsertClaim, ClaimOf, Terminal, TypeOK
      <3>2. CASE AcquireSendLock(a)
        <4>1. \A j \in Key : rows[j] \in Row
            BY <1>1 DEF TypeOK
        <4>2. \A j \in Key : [rows[j] EXCEPT !.status = "sending"].status = "sending"
            BY <4>1 DEF Row
        <4>3. QED
            BY <1>1, <3>2, <4>2 DEF AcquireSendLock, Owns, Terminal, TypeOK
      <3>3. QED
          BY <1>9, <3>1, <3>2
    <2>3. QED
        BY <1>1, <1>2, <2>1, <2>2, StepStutters
  <1>10. ASSUME NEW a \in Attempt, ChunkRejected(a) \/ EmptyBody(a) \/ Crash(a) \/ Lose(a)
         PROVE  [Promise!Next]_<<Copies, Outcomes>>
    <2>1. UNCHANGED <<rows, delivered, key>>
        BY <1>10 DEF ChunkRejected, EmptyBody, Crash, Lose
    <2>2. QED
        BY <1>1, <1>2, <2>1, StepStutters
  <1>11. ASSUME NEW a \in Attempt, NEW k \in Key, Dispatch(a, k)
         PROVE  [Promise!Next]_<<Copies, Outcomes>>
    <2>1. /\ UNCHANGED <<rows, delivered>> /\ delivered[a] = 0
          /\ \A x \in Attempt \ {a} : key'[x] = key[x]
        BY <1>1, <1>11 DEF Dispatch, IInv, CountSound, TypeOK
    <2>2. QED
        BY <1>1, <1>2, <2>1, StepStutters
  <1>12. ASSUME NEW a \in Attempt, NEW b \in Attempt, Redeliver(a, b)
         PROVE  [Promise!Next]_<<Copies, Outcomes>>
    <2>1. /\ UNCHANGED <<rows, delivered>> /\ delivered[b] = 0
          /\ \A x \in Attempt \ {b} : key'[x] = key[x]
        BY <1>1, <1>12 DEF Redeliver, IInv, CountSound, TypeOK
    <2>2. QED
        BY <1>1, <1>2, <2>1, StepStutters
  <1>13. ASSUME NEW k \in Key, Expire(k)
         PROVE  [Promise!Next]_<<Copies, Outcomes>>
    <2>1. UNCHANGED <<delivered, key>>
        BY <1>13 DEF Expire
    <2>2. \A j \in Key : rows'[j].status = rows[j].status
        BY <1>1, <1>13 DEF Expire, TypeOK, Row
    <2>3. PICK a \in Attempt : a = rows[k].token
        BY <1>13 DEF Expire, Claimed, IInv, TokenSound, TypeOK, Row
    <2>4. QED
        BY <1>1, <1>2, <2>1, <2>2, StepStutters
  <1>14. CASE UNCHANGED vars
      BY <1>2, <1>14 DEF vars, Copies, Outcomes, OutcomeOf, Delivered
  <1>15. QED
      BY <1>5, <1>6, <1>7, <1>8, <1>9, <1>10, <1>11, <1>12, <1>13, <1>14 DEF Next, Work

(* The service is a refinement of its promise: under SafeTiming every      *)
(* behaviour of claims, locks and workers is one of AtMostOnceSend.        *)
THEOREM Implements == SafeTiming => (Spec => ImplementsPromise)
  <1> SUFFICES ASSUME SafeTiming PROVE Spec => ImplementsPromise
      OBVIOUS
  <1>1. Init => Promise!Init
    <2> SUFFICES ASSUME Init PROVE Promise!Init
        OBVIOUS
    <2>1. \A k \in Key : Delivered(k) = {} /\ rows[k].status = "absent"
        BY DEF Init, Delivered, NoRow
    <2>2. QED
        BY <2>1, FS_EmptySet DEF Promise!Init, Terminal
  <1>2. IInv /\ NothingStolen /\ [Next]_vars => (IInv /\ NothingStolen)'
      BY InductiveStep, NothingStolenStep
  <1>3. IInv /\ NothingStolen /\ OneCopy /\ (IInv /\ NothingStolen /\ OneCopy)' /\ [Next]_vars
            => [Promise!Next]_Promise!aVars
    <2> SUFFICES ASSUME IInv, NothingStolen, OneCopy, (IInv /\ NothingStolen /\ OneCopy)', [Next]_vars
                 PROVE  [Promise!Next]_Promise!aVars
        OBVIOUS
    <2>1. Copies = [k \in Key |-> Cardinality(Delivered(k))]
        BY DEF Copies
    <2>2. Outcomes = [k \in Key |-> IF rows[k].status \in Terminal THEN rows[k].status ELSE "open"]
        BY DEF Outcomes, OutcomeOf
    <2>3. Copies' = [k \in Key |-> Cardinality(Delivered(k)')]
        BY DEF Copies
    <2>4. Outcomes' = [k \in Key |-> IF rows'[k].status \in Terminal THEN rows'[k].status ELSE "open"]
        BY DEF Outcomes, OutcomeOf
    <2>5. UNCHANGED <<Copies, Outcomes>> => UNCHANGED Promise!aVars
        BY <2>1, <2>2, <2>3, <2>4 DEF Promise!aVars
    <2>6. QED
        BY <2>5, PromiseStep
  <1>4. QED
      BY <1>1, <1>2, <1>3, OneCopyHolds, InitIInv, InitNothingStolen, PTL
      DEF Spec, ImplementsPromise, Promise!Spec
=============================================================================
