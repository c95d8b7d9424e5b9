---------------------------- MODULE MCCallSession ----------------------------
(* Instances of CallSession for TLC. *)
EXTENDS CallSession, TLC

NoFault      == {}
AllFaults    == SessionFault
AnyAttempt   == 1..(MAX_RETRIES + 1)
LateAttempts == 2..(MAX_RETRIES + 1)

(* Requests and the ids of retries are interchangeable. *)
SessionSymmetry == Permutations(Handler) \cup Permutations(RowId \ Root)
=============================================================================
