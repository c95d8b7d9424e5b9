----------------------------- MODULE MCServices -----------------------------
(* Services for TLC. *)
EXTENDS Services
=============================================================================
