---------------------------- MODULE CallLifecycle ----------------------------
(***************************************************************************)
(* CallDispatch and CallSession over one call_logs table: a scheduled row  *)
(* is dispatched, its call runs, a miss inserts a retry row, and that row  *)
(* is dispatched again, while the user cancels and reschedules.  The two   *)
(* halves share the rows, the Twilio calls and the fault budget; the       *)
(* stand-ins for dispatching in CallSession and for inserting rows in      *)
(* CallDispatch are replaced by the real thing.                            *)
(***************************************************************************)
EXTENDS CallDispatch

CONSTANTS
    Handler, Root, RootAttempts,    \* see CallSession
    SessionFaults                   \* the faults of CallSession that happen

VARIABLES net, outcome, machines, handler, stream, encouraged

sessionVars  == <<net, outcome, machines, handler, stream, encouraged>>
dispatchVars == <<disp, task, user>>

S == INSTANCE CallSession WITH Faults <- SessionFaults

ASSUME LifecycleAssumption == S!SessionAssumption

LifecycleInit ==
    /\ S!Init
    /\ disp = [d \in Dispatcher |-> IdleDisp]
    /\ task = [t \in TaskId |-> UnusedTask]
    /\ user = [u \in User |-> IdleUser]

DispatchNext == \/ \E r \in RowId : BecomeDue(r) \/ Age(r)
                \/ \E d \in Dispatcher : DispatcherStep(d) \/ DispatcherCrash(d)
                \/ \E t \in TaskId : TaskStep(t) \/ TaskDies(t)
                \/ \E u \in User : UserStep(u)
                \/ Sweep

LifecycleNext == \/ DispatchNext /\ UNCHANGED sessionVars
                 \/ S!SessionNext /\ UNCHANGED dispatchVars

LifecycleSpec == LifecycleInit /\ [][LifecycleNext]_<<vars, sessionVars>>

-----------------------------------------------------------------------------
(* Properties.                                                             *)

(* A scheduled call rings the user at most 1 + MAX_RETRIES times, however  *)
(* its callbacks, its stream and the AMD verdict race to settle each       *)
(* attempt and whatever the user cancels (each root starts its own chain;  *)
(* a chain that starts at a later attempt has fewer calls left).           *)
ChainOf(r) == {r} \cup {q \in RowId : \/ rows[q].parent = r
                                      \/ /\ rows[q].parent \in RowId
                                         /\ rows[rows[q].parent].parent = r}
CallsPerChain ==
    \A r \in Root :
        Cardinality({s \in Sid : calls[s].row \in ChainOf(r)})
            <= MAX_RETRIES + 2 - rows[r].attempt

(* A call that its row records as cancelled is never in conversation: a    *)
(* cancellation that wins keeps the stream out, one that loses to the      *)
(* stream leaves the row in progress.                                      *)
CancelledNeverTalks ==
    \A s \in Sid : stream[s].pc = "talking" => rows[calls[s].row].status # "cancelled"
=============================================================================
