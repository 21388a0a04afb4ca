-------------------------- MODULE MCClaimsPlatform --------------------------
(***************************************************************************)
(* Small instance of ClaimsPlatform: one policy id, two claims, one payer. *)
(***************************************************************************)
EXTENDS ClaimsPlatform

MCPlans == {[coverage |-> 2, amount |-> 1, period |-> 2, term |-> 0]}

MCLimits == {[perClaim |-> 2, perWindow |-> 9, seconds |-> 1]}
=============================================================================
