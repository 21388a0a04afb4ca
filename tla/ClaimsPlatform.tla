--------------------------- MODULE ClaimsPlatform ---------------------------
(***************************************************************************)
(* ClaimRegistry composed with the InsurancePolicy contract it consults.   *)
(*                                                                         *)
(* The composition extends InsurancePolicy, whose state it is built on,    *)
(* and instantiates ClaimRegistry.  Both contracts live on one chain and   *)
(* share its clock.  What the registry reads through getPolicy and         *)
(* isPremiumCurrent is computed from the policy contract's state, so a     *)
(* step of the policy contract is at the same time a PolicyStep of the     *)
(* registry's environment, a second passing is a Tick of both, and every   *)
(* other registry step leaves the policy contract alone.  The circuit      *)
(* breakers of both contracts, which only disable operations, are left to  *)
(* the modules of the contracts.                                           *)
(***************************************************************************)
EXTENDS InsurancePolicy

CONSTANTS Plans,   \* arguments of addPolicyTemplate
          PolicyContract, Amounts, ClaimAmountModulus, RequestIds, Tokens,
          PayoutToken, Transfers, LimitSettings, MaxClaims, MaxDeposit,
          MaxApprovals

\* A deployment happens long after the epoch: a policy that was never paid
\* (premiumPaidUntil = 0) is not saved by the grace period.
ASSUME GraceIsShort == StartTime > 0 /\ \A g \in GracePeriods : g < StartTime
ASSUME PlansAreArguments ==
  Plans \subseteq [coverage : Coverages, amount : Prices, period : Spans, term : Spans]
ASSUME PlatformBounds ==
  /\ MaxClaims \in Nat /\ ClaimAmountModulus \in Nat \ {0} /\ Amounts \subseteq Nat
  /\ PolicyContract # ZeroAddress

VARIABLES registryPaused, nextClaimId, claims, usedOracleRequestIds,
          policyRegistry, limits, windowStart, windowTotalPaid, balance,
          timesApproved, timesPaid, verdicts, deposited, disbursed, limitedAt,
          capMax, secondsMin, overridden

\* The fields getPolicy returns, and the answer of isPremiumCurrent.
PolicyView(p) ==
  [exists |-> policies[p].exists, revoked |-> policies[p].revoked,
   validFrom |-> policies[p].validFrom, validUntil |-> policies[p].validUntil,
   holder |-> policies[p].holder, coverage |-> policies[p].coverage,
   premiumCurrent |-> isPremiumCurrent(p)]

AllViews == [exists : BOOLEAN, revoked : BOOLEAN, validFrom : Nat,
             validUntil : Nat, holder : Accounts \cup {ZeroAddress},
             coverage : Nat, premiumCurrent : BOOLEAN]

Registry == INSTANCE ClaimRegistry
            WITH paused <- registryPaused, AmountModulus <- ClaimAmountModulus,
                 Registries <- {PolicyContract}, PolicyViews <- AllViews,
                 policyOf <- [r \in {PolicyContract} |->
                                [p \in PolicyIds |-> PolicyView(p)]]

registrySide == <<registryPaused, nextClaimId, claims, usedOracleRequestIds,
                  policyRegistry, limits, windowStart, windowTotalPaid, balance,
                  timesApproved, timesPaid, verdicts, deposited, disbursed,
                  limitedAt, capMax, secondsMin, overridden>>
platformVars == <<vars, registrySide>>

\* Both contracts as deployed, the registry configured with the policy contract.
PlatformInit == Init /\ Registry!Init /\ policyRegistry = PolicyContract
-----------------------------------------------------------------------------
PolicySide ==
  \/ \E t \in Treasuries, g \in GracePeriods : setPremiumConfig(t, g)
  \/ \E p \in PolicyIds, n \in Prices, d \in Spans : setPremiumTerms(p, n, d)
  \/ \E a \in Accounts, p \in PolicyIds : payPremium(a, p)
  \/ \E t \in TemplateIds, plan \in Plans :
       addPolicyTemplate(t, plan.coverage, plan.amount, plan.period, plan.term)
  \/ \E t \in TemplateIds, b \in BOOLEAN : setPolicyTemplateActive(t, b)
  \/ \E a \in Accounts, t \in TemplateIds, p \in PolicyIds :
       subscribeToPolicy(a, t, p)
  \/ \E p \in PolicyIds, a \in Accounts, f, u \in Spans,
        c \in Coverages : registerPolicy(p, a, f, u, c)
  \/ \E p \in PolicyIds : revokePolicy(p)
  \/ \E p \in PolicyIds, c \in Coverages : updateCoverage(p, c)
  \/ \E a \in Accounts, n \in Prices : Approve(a, n)

\* The registry's operations; its configuration is fixed here and explored by
\* the runs of ClaimRegistry itself.
RegistrySide ==
  \/ \E a \in Accounts, p \in PolicyIds, n \in Amounts :
       Registry!submitClaim(a, p, n)
  \/ \E c \in Registry!ClaimIds, s \in Registry!ClaimStatus :
       Registry!setClaimStatus(c, s)
  \/ \E c \in Registry!ClaimIds, r \in RequestIds, ok \in BOOLEAN :
       Registry!recordOracleVerification(c, r, ok)
  \/ \E c \in Registry!ClaimIds : Registry!payoutClaim(c)
  \/ \E c \in Registry!ClaimIds : Registry!releaseStuckPayout(c)
  \/ \E t \in Tokens, n \in Transfers : Registry!Deposit(t, n)

PlatformNext ==
  \/ PolicySide /\ Registry!PolicyStep
  \/ UNCHANGED vars /\ RegistrySide
  \/ Tick /\ Registry!Tick

PlatformSpec == PlatformInit /\ [][PlatformNext]_platformVars
-----------------------------------------------------------------------------
(* Properties *)

\* Claims that appear in a step.
NewClaims ==
  {c \in Registry!ClaimIds : c >= nextClaimId /\ c < nextClaimId'}

\* The two contracts agree on who may claim: whatever submitClaim accepts, the
\* policy contract's own isClaimEligible accepts at that moment.
AcceptedIsEligible ==
  [][\A c \in NewClaims :
       isClaimEligible(claims'[c].policyId, claims'[c].claimant,
                       claims'[c].amount, now)]_nextClaimId

\* No claim rides on an unpaid policy: when a claim is accepted on a policy that
\* is billed at that moment, a premium for it has reached the treasury before,
\* whether the policy came from registerPolicy or from the catalogue.
ClaimsArePaidFor ==
  [][\A c \in NewClaims :
       LET p == claims'[c].policyId
       IN  premiumTerms[p].amount # 0 => received[p] > 0]_nextClaimId
=============================================================================
