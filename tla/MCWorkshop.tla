----------------------------- MODULE MCWorkshop -----------------------------
(***************************************************************************)
(* Instances of Workshop for TLC: two clients, one with a batch of two     *)
(* units and one with an empty batch, or each with a batch of one unit.    *)
(***************************************************************************)
EXTENDS Workshop, TLC

CONSTANTS a, b, u1, u2

OneUnitEach == u1 :> a @@ u2 :> b

OneEmptyBatch == u1 :> a @@ u2 :> a
=============================================================================
