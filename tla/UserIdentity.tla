---------------------------- MODULE UserIdentity ----------------------------
(***************************************************************************)
(* Who a phone number belongs to (user_service.py): rows of users appear   *)
(* on the first WhatsApp message or the first Firebase login of a phone,   *)
(* and a Firebase login links its uid to the row of its phone, once.       *)
(* Both columns are unique; requests run side by side and each works on    *)
(* what it read, so every conflict is found by PostgreSQL.                 *)
(***************************************************************************)
EXTENDS Naturals

CONSTANTS
    Phone, Uid,
    Request     \* logins and messages being served

(* To be assumed of the constants. *)
UidAssumption == Phone # {} /\ Uid \cap {"norow", "unlinked", "none"} = {}

VARIABLES
    owner,      \* owner[ph]: uid of the phone's row, "unlinked", or "norow"
    req         \* req[q]: a request, where it is, and what it read

vars == <<owner, req>>

Owner == Uid \cup {"norow", "unlinked"}
Req == [pc : {"idle", "read", "insert", "link", "compare", "served", "refused"},
        phone : Phone, uid : Uid \cup {"none"}, seen : Owner]

TypeOK == owner \in [Phone -> Owner] /\ req \in [Request -> Req]

Taken(u) == \E ph \in Phone : owner[ph] = u

(* Where a request that has read x of its phone goes next. *)
Turn(q, x) == IF x = "norow" THEN "insert"
              ELSE IF req[q].uid = "none" THEN "served"     \* a message needs no more
              ELSE IF x = "unlinked" THEN "link"
              ELSE "compare"

To(q, pc) == req' = [req EXCEPT ![q].pc = pc]
Rereads(q) == LET x == owner[req[q].phone]
              IN req' = [req EXCEPT ![q].seen = x, ![q].pc = Turn(q, x)]

(* A request comes in: from WhatsApp without a uid, or a Firebase login.   *)
(* The principal's phone and uid are verified before.                      *)
Arrives(q, ph, u) ==
    /\ req[q].pc = "idle"
    /\ req' = [req EXCEPT ![q] = [pc |-> "read", phone |-> ph, uid |-> u, seen |-> "norow"]]
    /\ UNCHANGED owner

Reads(q) == req[q].pc = "read" /\ Rereads(q) /\ UNCHANGED owner

(* INSERT: two keys may be in the way.  Which one it was is told by        *)
(* reading the phone again.                                                *)
Inserts(q) ==
    LET ph == req[q].phone
        u  == req[q].uid IN
    /\ req[q].pc = "insert"
    /\ IF owner[ph] = "norow" /\ (u = "none" \/ ~Taken(u))
       THEN /\ owner' = [owner EXCEPT ![ph] = IF u = "none" THEN "unlinked" ELSE u]
            /\ To(q, "served")
       ELSE /\ UNCHANGED owner
            /\ IF owner[ph] = "norow" THEN To(q, "refused") ELSE Rereads(q)

(* Mutant: the UPDATE does not ask for firebase_uid IS NULL. *)
LinksAnyway(q) ==
    LET ph == req[q].phone
        u  == req[q].uid IN
    /\ req[q].pc = "link"
    /\ IF Taken(u) /\ owner[ph] # u
       THEN To(q, "refused") /\ UNCHANGED owner
       ELSE owner' = [owner EXCEPT ![ph] = u] /\ To(q, "served")

(* UPDATE ... WHERE firebase_uid IS NULL; no row: read again and compare. *)
Links(q) ==
    LET ph == req[q].phone
        u  == req[q].uid IN
    /\ req[q].pc = "link"
    /\ IF owner[ph] # "unlinked"
       THEN Rereads(q) /\ UNCHANGED owner
       ELSE IF Taken(u) THEN To(q, "refused") /\ UNCHANGED owner
       ELSE owner' = [owner EXCEPT ![ph] = u] /\ To(q, "served")

Compares(q) ==
    /\ req[q].pc = "compare"
    /\ To(q, IF req[q].seen = req[q].uid THEN "served" ELSE "refused")
    /\ UNCHANGED owner

Init == /\ owner = [ph \in Phone |-> "norow"]
        /\ req = [q \in Request |-> [pc |-> "idle", phone |-> CHOOSE ph \in Phone : TRUE,
                                     uid |-> "none", seen |-> "norow"]]

Next == \E q \in Request :
            \/ \E ph \in Phone, u \in Uid \cup {"none"} : Arrives(q, ph, u)
            \/ Reads(q) \/ Inserts(q) \/ Links(q) \/ Compares(q)

Spec == Init /\ [][Next]_vars

-----------------------------------------------------------------------------
(* Properties.                                                             *)

(* A login that was served owns its phone for good, no uid owns two, and   *)
(* one that was refused met another owner of its phone or of its uid.      *)
LoginOwnsPhone ==
    /\ \A p1, p2 \in Phone : p1 # p2 /\ owner[p1] = owner[p2] => owner[p1] \notin Uid
    /\ \A q \in Request : req[q].uid # "none" =>
        /\ req[q].pc = "served" => owner[req[q].phone] = req[q].uid
        /\ req[q].pc = "refused" =>
              \/ owner[req[q].phone] \in Uid \ {req[q].uid}
              \/ \E ph \in Phone \ {req[q].phone} : owner[ph] = req[q].uid
=============================================================================
