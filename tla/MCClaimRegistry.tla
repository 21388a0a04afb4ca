--------------------------- MODULE MCClaimRegistry --------------------------
(***************************************************************************)
(* Small instances of ClaimRegistry.  Amounts, coverages and caps are a few *)
(* units, and Claim.amount wraps at 4 so that truncation happens.          *)
(***************************************************************************)
EXTENDS ClaimRegistry

\* What the policy registry can answer about the policy: valid now, or valid
\* from the next second with less coverage.  Premiums that fall overdue are left
\* to ClaimsPlatform, where the policy contract itself answers.
View(exists, revoked, from, until, holder, coverage, current) ==
  [exists |-> exists, revoked |-> revoked, validFrom |-> from,
   validUntil |-> until, holder |-> holder, coverage |-> coverage,
   premiumCurrent |-> current]

CONSTANTS alice

MCViews == {View(TRUE, FALSE, 0, 0, alice, 5, TRUE),
            View(TRUE, FALSE, 1, 1, alice, 3, TRUE)}

OneView == {View(TRUE, FALSE, 0, 9, alice, 9, TRUE)}

Limit(perClaim, perWindow, seconds) ==
  [perClaim |-> perClaim, perWindow |-> perWindow, seconds |-> seconds]

LooseLimits == {Limit(5, 9, 1)}
TightLimits == {Limit(2, 2, 2), Limit(1, 1, 1), Limit(2, 2, 0)}
AllLimits == LooseLimits \cup TightLimits
AllViews == MCViews \cup OneView

Sees(views) == \A r \in Registries, p \in PolicyIds : policyOf[r][p] \in views

\* Lifecycle, coverage and pool: two claims on one policy, one oracle request,
\* limits that never bind.
LifeBounds ==
  /\ capMax = 9 /\ secondsMin = 1 /\ limits \in LooseLimits
  /\ Sees(MCViews)
  /\ now <= 1
  /\ deposited <= 4
  /\ \A t \in Tokens \ {PayoutToken} : balance[t] <= 2
  /\ usedOracleRequestIds \subseteq {101}
  /\ \A c \in ClaimIds : timesApproved[c] <= 2

\* Rate limit: one claim paid over and over while the limits move.
LimitBounds ==
  /\ capMax <= 2
  /\ Sees(OneView)
  /\ nextClaimId <= 2
  /\ \A t \in Tokens \ {PayoutToken} : balance[t] = 0

\* The two scenarios need different bounds; the run explores both.
EitherScenario == LifeBounds \/ LimitBounds
=============================================================================
