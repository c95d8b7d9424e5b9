--------------------------- MODULE MCCallLifecycle ---------------------------
(* Instances of CallLifecycle for TLC. *)
EXTENDS CallLifecycle, TLC

(* Replacement cancels a row in any state cancel_all_calls_today does. *)
Cancels       == {"replace"}
NoFault       == {}
LateAttempts  == MAX_RETRIES..(MAX_RETRIES + 1)

(* Bound: a retry falls due (ten minutes after the miss) when its parent's *)
(* call is over and every callback and stream of it has been dealt with.   *)
QuietRetry ==
    \A r \in RowId \ Root : rows'[r].due /\ ~rows[r].due =>
        /\ net = {}
        /\ \A h \in Handler : handler[h].pc = "idle"
        /\ \A s \in Sid : /\ calls[s].phase \in {"none", "ended"}
                          /\ stream[s].pc \in {"none", "done"}

(* Bound: the user cancels in a chain that starts at its last attempt; one *)
(* with a retry left runs undisturbed.                                     *)
UserOnLastAttempt ==
    \A u \in User : user'[u].pc = "idle" \/ \A r \in Root : rows[r].attempt > MAX_RETRIES

LifecycleSymmetry == Permutations(TaskId) \cup Permutations(Sid)
                        \cup Permutations(RowId \ Root)
=============================================================================
