--------------------------- MODULE MCCallDispatch ---------------------------
(* Instances of CallDispatch for TLC. *)
EXTENDS CallDispatch, TLC

AllFaults == HarmlessFault \cup CostlyFault
AllOps    == UserOp
NoReplace == UserOp \ {"replace"}
NoFault   == {}

(* Runs, messages, operations and SIDs are interchangeable. *)
DispatchSymmetry == Permutations(Dispatcher) \cup Permutations(TaskId)
                       \cup Permutations(Sid) \cup Permutations(User)
=============================================================================
