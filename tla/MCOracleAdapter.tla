--------------------------- MODULE MCOracleAdapter --------------------------
(***************************************************************************)
(* Small instance of OracleAdapter: one claim slot, two request ids, one   *)
(* key.                                                                    *)
(***************************************************************************)
EXTENDS OracleAdapter

CONSTANTS alice

MCViews == {[exists |-> TRUE, revoked |-> FALSE, validFrom |-> 0,
             validUntil |-> 9, holder |-> alice, coverage |-> 2,
             premiumCurrent |-> TRUE]}

MCLimits == {[perClaim |-> 1, perWindow |-> 1, seconds |-> 1]}
=============================================================================
