------------------------- MODULE MCOutboundMessages -------------------------
(* Instances of OutboundMessages for TLC: one free-form key of two chunks, *)
(* alone or next to one with an empty body.                                *)
EXTENDS OutboundMessages, TLC

CONSTANTS k1, k2, a1, a2, a3, a4

OneFreeform  == k1 :> 2
TwoFreeform  == (k1 :> 2) @@ (k2 :> 0)
NoPoint      == {}
BeforeLock   == {"queued", "conflict", "claimed"}

(* Attempts are interchangeable; keys are not, their bodies differ. *)
AttemptSymmetry == Permutations(Attempt)
=============================================================================
