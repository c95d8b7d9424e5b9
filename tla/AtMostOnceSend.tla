--------------------------- MODULE AtMostOnceSend ---------------------------
(***************************************************************************)
(* What OutboundMessageService promises its callers (the Celery tasks and  *)
(* the voice API), stated without claims, tokens, locks or workers: for    *)
(* every dedup key one logical message, delivered by at most one send, and *)
(* an outcome that, once recorded, never changes.                          *)
(***************************************************************************)
EXTENDS Naturals

CONSTANT Key

VARIABLES
    copies,     \* copies[k]: sends of k that reached Twilio (at most one)
    outcome     \* outcome[k]: "open", "sent" or "failed"

aVars == <<copies, outcome>>

Outcome == {"open", "sent", "failed"}

Init == /\ copies  = [k \in Key |-> 0]
        /\ outcome = [k \in Key |-> "open"]

(* The message of an open key reaches Twilio for the first time. *)
Deliver(k) == /\ outcome[k] = "open"
              /\ copies[k] = 0
              /\ copies' = [copies EXCEPT ![k] = 1]
              /\ UNCHANGED outcome

(* The send is recorded; only a delivered message may be recorded sent. *)
Record(k, o) == /\ outcome[k] = "open"
                /\ o = "sent" => copies[k] = 1
                /\ outcome' = [outcome EXCEPT ![k] = o]
                /\ UNCHANGED copies

Next == \E k \in Key : Deliver(k) \/ \E o \in {"sent", "failed"} : Record(k, o)

Spec == Init /\ [][Next]_aVars
=============================================================================
