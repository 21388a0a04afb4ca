------------------------ MODULE ClaimRegistryProofs -------------------------
(***************************************************************************)
(* Theorems about ClaimRegistry and about the OracleAdapter in front of it, *)
(* for every value of their constants.                                     *)
(*                                                                         *)
(* 1. RegistryInv: types, approvals, the pool and request ids.  Its parts  *)
(*    are tied together: the type of the history variable overridden needs *)
(*    SlotsInOrder (a claim that exists names a real policy), and          *)
(*    OnePaymentPerApproval needs the unused approval of ApprovalCredit.   *)
(* 2. CoverageKept: what the claims on a policy hold stays within its      *)
(*    coverage, a sum that submitClaim alone lets grow.                    *)
(* 3. WindowKept: the fixed windows of _enforceRateLimit bound what any    *)
(*    interval lets through.                                               *)
(* 4. ReplayInv: the two layers of replay protection agree.  Only two      *)
(*    steps write usedOracleRequestIds, verdicts or one of the adapter's   *)
(*    id sets: submitVerification towards the modelled registry and        *)
(*    towards another sink.  Both consume an id that the adapter did not   *)
(*    know, which by ReplayInv neither the registry nor the other sink     *)
(*    knew.  Last, the registry behind the adapter is ClaimRegistry's.     *)
(***************************************************************************)
EXTENDS OracleAdapter, Sums, TLAPS

\* Setting the status of one claim, as setClaimStatus, the oracle and both
\* payout functions do, keeps the type of the mapping and everything else in it.
LEMMA StatusUpdate ==
  ASSUME NEW f \in [ClaimIds -> Claim], NEW c \in ClaimIds,
         NEW s \in ClaimStatus
  PROVE  LET g == [f EXCEPT ![c].status = s]
         IN  /\ g \in [ClaimIds -> Claim]
             /\ g[c].status = s
             /\ \A d \in ClaimIds : /\ g[d].claimant = f[d].claimant
                                    /\ g[d].policyId = f[d].policyId
                                    /\ g[d].amount = f[d].amount
                                    /\ d # c => g[d] = f[d]
  BY DEF Claim

\* A claim that exists lies below the counter and names a real policy.
LEMMA ExistingSlot ==
  ASSUME RegistryInv, NEW c \in ClaimIds, Exists(c)
  PROVE  c < nextClaimId /\ claims[c].policyId \in PolicyIds
<1>1. nextClaimId \in Nat /\ c \in Nat
  BY BoundsAssumption DEF RegistryInv, TypeOK, ClaimIds
<1>2. c < nextClaimId
  BY <1>1 DEF RegistryInv, SlotsInOrder, Exists, EmptyClaim
<1>3. QED
  BY <1>2 DEF RegistryInv, SlotsInOrder

\* The contract as initialize leaves it satisfies the inductive invariant.
LEMMA InitEstablishes == Init => RegistryInv
<1> SUFFICES ASSUME Init PROVE RegistryInv
  OBVIOUS
<1> USE BoundsAssumption, AddressAssumption, LimitsAssumption DEF Init
<1>1. paused \in BOOLEAN
  OBVIOUS
<1>2. claims \in [ClaimIds -> Claim]
  BY DEF Claim, EmptyClaim, ClaimStatus
<1>3. TypeOK
  BY <1>1, <1>2 DEF TypeOK, Time, Limits
<1>4. SlotsInOrder
  BY DEF SlotsInOrder, ClaimIds
<1>5. ApprovalCredit
  BY DEF ApprovalCredit, EmptyClaim
<1>6. PoolConserved /\ UsedIffDecided
  BY DEF PoolConserved, UsedIffDecided
<1>7. QED
  BY <1>3, <1>4, <1>5, <1>6 DEF RegistryInv

\* submitClaim writes the slot at the counter, which was empty.
LEMMA SubmitPreserves ==
  ASSUME RegistryInv, NEW a \in Accounts, NEW p \in PolicyIds,
         NEW n \in Amounts, submitClaim(a, p, n)
  PROVE  RegistryInv'
<1> USE BoundsAssumption, AddressAssumption DEF RegistryInv
<1> DEFINE new == [policyId |-> p, claimant |-> a,
                   amount |-> n % AmountModulus, status |-> "Submitted"]
<1>1. /\ nextClaimId \in ClaimIds /\ nextClaimId' = nextClaimId + 1
      /\ claims' = [claims EXCEPT ![nextClaimId] = new]
      /\ claims \in [ClaimIds -> Claim]
  BY DEF submitClaim, NextId, uint96, TypeOK, ClaimIds
<1>2. new \in Claim
  BY DEF Claim, ClaimStatus
<1>3. claims' \in [ClaimIds -> Claim] /\ nextClaimId' \in 1..(MaxClaims + 1)
  BY <1>1, <1>2 DEF ClaimIds
<1>4. UNCHANGED <<now, paused, usedOracleRequestIds, policyRegistry, limits,
                  windowStart, windowTotalPaid, balance, policyOf, histVars>>
  BY DEF submitClaim
<1>5. TypeOK'
  BY <1>3, <1>4 DEF TypeOK, histVars
<1>6. SlotsInOrder'
  <2> SUFFICES ASSUME NEW d \in ClaimIds
               PROVE  /\ d < nextClaimId' => /\ claims'[d].claimant \in Accounts
                                             /\ claims'[d].policyId \in PolicyIds
                      /\ d >= nextClaimId' => claims'[d] = EmptyClaim
    BY DEF SlotsInOrder
  <2>1. d \in Nat /\ nextClaimId \in Nat
    BY DEF ClaimIds, TypeOK
  <2>2. CASE d = nextClaimId
    BY <1>1, <2>1, <2>2
  <2>3. CASE d # nextClaimId
    BY <1>1, <2>1, <2>3 DEF SlotsInOrder
  <2>4. QED
    BY <2>2, <2>3
<1>7. ApprovalCredit'
  <2>1. \A c \in ClaimIds : claims'[c].status = "Approved" =>
          claims[c].status = "Approved"
    BY <1>1
  <2>2. QED
    BY <2>1, <1>4 DEF ApprovalCredit, histVars
<1>8. PoolConserved' /\ UsedIffDecided'
  BY <1>4 DEF PoolConserved, UsedIffDecided, histVars
<1>9. QED
  BY <1>5, <1>6, <1>7, <1>8

\* A status transition: entering Approved brings an approval with it.
LEMMA StatusPreserves ==
  ASSUME RegistryInv, NEW c \in ClaimIds, NEW s \in ClaimStatus, Exists(c),
         setStatus(c, s), nextClaimId' = nextClaimId, timesPaid' = timesPaid
  PROVE  /\ claims' \in [ClaimIds -> Claim]
         /\ timesApproved' \in [ClaimIds -> Nat]
         /\ overridden' \subseteq PolicyIds
         /\ SlotsInOrder'
         /\ ApprovalCredit'
<1> USE DEF RegistryInv
<1>1. /\ claims \in [ClaimIds -> Claim] /\ timesApproved \in [ClaimIds -> Nat]
      /\ timesPaid \in [ClaimIds -> Nat] /\ overridden \subseteq PolicyIds
  BY DEF TypeOK
<1>2. claims' = [claims EXCEPT ![c].status = s]
  BY DEF setStatus
<1>3. /\ claims' \in [ClaimIds -> Claim]
      /\ claims'[c].status = s
      /\ \A d \in ClaimIds : /\ claims'[d].claimant = claims[d].claimant
                             /\ claims'[d].policyId = claims[d].policyId
                             /\ d # c => claims'[d] = claims[d]
  BY <1>1, <1>2, StatusUpdate
<1>4. timesApproved' = IF s = "Approved" /\ claims[c].status # "Approved"
                       THEN [timesApproved EXCEPT ![c] = @ + 1]
                       ELSE timesApproved
  BY DEF setStatus, RecordStatus, EntersApproved
<1>5. timesApproved' \in [ClaimIds -> Nat]
  BY <1>1, <1>4
<1>6. overridden' \subseteq PolicyIds
  BY <1>1, ExistingSlot DEF setStatus, RecordStatus
<1>7. SlotsInOrder'
  <2>1. c < nextClaimId
    BY ExistingSlot
  <2>2. \A d \in ClaimIds : d \in Nat /\ nextClaimId \in Nat
    BY BoundsAssumption DEF ClaimIds, TypeOK
  <2>3. QED
    BY <1>3, <2>1, <2>2 DEF SlotsInOrder
<1>8. ApprovalCredit'
  BY <1>1, <1>3, <1>4 DEF ApprovalCredit
<1>9. QED
  BY <1>3, <1>5, <1>6, <1>7, <1>8

\* A payment: the Approved claim's unused approval is used up, and what leaves
\* the pool is what the claimant receives.
LEMMA SettlePreserves ==
  ASSUME RegistryInv, NEW c \in ClaimIds, Payable(c), settle(c),
         nextClaimId' = nextClaimId, timesApproved' = timesApproved,
         deposited' = deposited
  PROVE  /\ claims' \in [ClaimIds -> Claim]
         /\ timesPaid' \in [ClaimIds -> Nat]
         /\ balance' \in [Tokens -> Nat] /\ disbursed' \in Nat
         /\ SlotsInOrder'
         /\ ApprovalCredit'
         /\ PoolConserved'
<1> USE DEF RegistryInv
<1>1. /\ claims \in [ClaimIds -> Claim] /\ timesApproved \in [ClaimIds -> Nat]
      /\ timesPaid \in [ClaimIds -> Nat] /\ balance \in [Tokens -> Nat]
      /\ disbursed \in Nat /\ deposited \in Nat /\ claims[c].amount \in Nat
  BY DEF TypeOK, Claim
<1>2. claims' = [claims EXCEPT ![c].status = "Paid"]
  BY DEF settle
<1>3. /\ claims' \in [ClaimIds -> Claim]
      /\ claims'[c].status = "Paid"
      /\ \A d \in ClaimIds : /\ claims'[d].claimant = claims[d].claimant
                             /\ claims'[d].policyId = claims[d].policyId
                             /\ d # c => claims'[d] = claims[d]
  <2>1. "Paid" \in ClaimStatus
    BY DEF ClaimStatus
  <2>2. QED
    BY <1>1, <1>2, <2>1, StatusUpdate
<1>4. /\ balance[PayoutToken] >= claims[c].amount
      /\ balance' = [balance EXCEPT ![PayoutToken] = @ - claims[c].amount]
      /\ timesPaid' = [timesPaid EXCEPT ![c] = @ + 1]
      /\ disbursed' = disbursed + claims[c].amount
  BY DEF settle
<1>5. /\ timesPaid' \in [ClaimIds -> Nat] /\ balance' \in [Tokens -> Nat]
      /\ disbursed' \in Nat
  BY <1>1, <1>4, AddressAssumption
<1>6. SlotsInOrder'
  <2>1. c < nextClaimId
    BY ExistingSlot DEF Payable
  <2>2. \A d \in ClaimIds : d \in Nat /\ nextClaimId \in Nat
    BY BoundsAssumption DEF ClaimIds, TypeOK
  <2>3. QED
    BY <1>3, <2>1, <2>2 DEF SlotsInOrder
<1>7. ApprovalCredit'
  BY <1>1, <1>3, <1>4 DEF ApprovalCredit, Payable
<1>8. PoolConserved'
  BY <1>1, <1>4, AddressAssumption DEF PoolConserved
<1>9. QED
  BY <1>3, <1>5, <1>6, <1>7, <1>8

\* Every action of the contract and of its environment preserves the
\* inductive invariant.
LEMMA StepPreserves == RegistryInv /\ [Next]_vars => RegistryInv'
<1> SUFFICES ASSUME RegistryInv, [Next]_vars PROVE RegistryInv'
  OBVIOUS
<1> USE DEF RegistryInv
<1>1. ASSUME NEW a \in Accounts, NEW p \in PolicyIds, NEW n \in Amounts,
             submitClaim(a, p, n)
      PROVE  RegistryInv'
  BY <1>1, SubmitPreserves
<1>2. ASSUME NEW c \in ClaimIds, NEW s \in ClaimStatus, setClaimStatus(c, s)
      PROVE  RegistryInv'
  <2>1. /\ Exists(c) /\ setStatus(c, s)
        /\ UNCHANGED <<now, paused, nextClaimId, usedOracleRequestIds,
                       policyRegistry, limits, windowStart, windowTotalPaid,
                       balance, policyOf, timesPaid, verdicts, deposited,
                       disbursed, limitedAt, capMax, secondsMin>>
    BY <1>2 DEF setClaimStatus
  <2>2. /\ claims' \in [ClaimIds -> Claim]
        /\ timesApproved' \in [ClaimIds -> Nat]
        /\ overridden' \subseteq PolicyIds /\ SlotsInOrder' /\ ApprovalCredit'
    BY <2>1, StatusPreserves
  <2>3. TypeOK'
    BY <2>1, <2>2 DEF TypeOK
  <2>4. PoolConserved' /\ UsedIffDecided'
    BY <2>1 DEF PoolConserved, UsedIffDecided
  <2>5. QED
    BY <2>2, <2>3, <2>4
<1>3. ASSUME NEW c \in ClaimIds, NEW r \in RequestIds, NEW ok \in BOOLEAN,
             recordOracleVerification(c, r, ok)
      PROVE  RegistryInv'
  <2>1. /\ r \notin usedOracleRequestIds /\ Exists(c)
        /\ usedOracleRequestIds' = usedOracleRequestIds \cup {r}
        /\ verdicts' = [verdicts EXCEPT ![r] = @ + 1]
        /\ UNCHANGED <<now, paused, nextClaimId, policyRegistry, limits,
                       windowStart, windowTotalPaid, balance, policyOf,
                       timesPaid, deposited, disbursed, limitedAt, capMax,
                       secondsMin>>
    BY <1>3 DEF recordOracleVerification, MarkUsed
  <2>2. PICK s \in ClaimStatus : setStatus(c, s)
    <3>1. CASE ok
      BY <1>3, <3>1 DEF recordOracleVerification, ClaimStatus
    <3>2. CASE ~ok
      BY <1>3, <3>2 DEF recordOracleVerification, ClaimStatus
    <3>3. QED
      BY <3>1, <3>2
  <2>3. /\ claims' \in [ClaimIds -> Claim]
        /\ timesApproved' \in [ClaimIds -> Nat]
        /\ overridden' \subseteq PolicyIds /\ SlotsInOrder' /\ ApprovalCredit'
    BY <2>1, <2>2, StatusPreserves
  <2>4. verdicts' \in [RequestIds -> Nat] /\ UsedIffDecided'
    BY <2>1 DEF UsedIffDecided, TypeOK
  <2>5. TypeOK'
    BY <2>1, <2>3, <2>4 DEF TypeOK
  <2>6. PoolConserved'
    BY <2>1 DEF PoolConserved
  <2>7. QED
    BY <2>3, <2>4, <2>5, <2>6
<1>4. ASSUME NEW c \in ClaimIds, payoutClaim(c)
      PROVE  RegistryInv'
  <2>1. /\ Payable(c) /\ settle(c)
        /\ UNCHANGED <<now, paused, nextClaimId, usedOracleRequestIds,
                       policyRegistry, limits, policyOf, timesApproved,
                       verdicts, deposited, capMax, secondsMin, overridden>>
    BY <1>4 DEF payoutClaim
  <2>2. /\ claims' \in [ClaimIds -> Claim] /\ timesPaid' \in [ClaimIds -> Nat]
        /\ balance' \in [Tokens -> Nat] /\ disbursed' \in Nat
        /\ SlotsInOrder' /\ ApprovalCredit' /\ PoolConserved'
    BY <2>1, SettlePreserves
  <2>3. /\ windowStart' \in Time /\ windowTotalPaid' \in Nat
        /\ limitedAt' \in [Time -> Nat]
    <3>1. claims[c].amount \in Nat
      BY DEF TypeOK, Claim
    <3>2. WindowUsed \in Nat
      BY DEF WindowUsed, TypeOK
    <3>3. windowStart' \in Time /\ windowTotalPaid' = WindowUsed + claims[c].amount
      BY <1>4 DEF payoutClaim, enforceRateLimit, TypeOK
    <3>4. limitedAt' = [limitedAt EXCEPT ![now] = @ + claims[c].amount]
      BY <1>4 DEF payoutClaim
    <3>5. QED
      BY <3>1, <3>2, <3>3, <3>4 DEF TypeOK
  <2>4. TypeOK'
    BY <2>1, <2>2, <2>3 DEF TypeOK
  <2>5. UsedIffDecided'
    BY <2>1 DEF UsedIffDecided
  <2>6. QED
    BY <2>2, <2>4, <2>5
<1>5. ASSUME NEW c \in ClaimIds, releaseStuckPayout(c)
      PROVE  RegistryInv'
  <2>1. /\ Payable(c) /\ settle(c)
        /\ UNCHANGED <<now, paused, nextClaimId, usedOracleRequestIds,
                       policyRegistry, limits, windowStart, windowTotalPaid,
                       policyOf, timesApproved, verdicts, deposited, limitedAt,
                       capMax, secondsMin, overridden>>
    BY <1>5 DEF releaseStuckPayout
  <2>2. /\ claims' \in [ClaimIds -> Claim] /\ timesPaid' \in [ClaimIds -> Nat]
        /\ balance' \in [Tokens -> Nat] /\ disbursed' \in Nat
        /\ SlotsInOrder' /\ ApprovalCredit' /\ PoolConserved'
    BY <2>1, SettlePreserves
  <2>3. TypeOK'
    BY <2>1, <2>2 DEF TypeOK
  <2>4. UsedIffDecided'
    BY <2>1 DEF UsedIffDecided
  <2>5. QED
    BY <2>2, <2>3, <2>4
<1>6. CASE pause \/ unpause
  <2>1. paused' \in BOOLEAN
    BY <1>6 DEF pause, unpause
  <2>2. UNCHANGED <<now, nextClaimId, claims, usedOracleRequestIds,
                    policyRegistry, limits, windowStart, windowTotalPaid,
                    balance, policyOf, histVars>>
    BY <1>6 DEF pause, unpause
  <2>3. TypeOK'
    BY <2>1, <2>2 DEF TypeOK, histVars
  <2>4. QED
    BY <2>2, <2>3
    DEF SlotsInOrder, ApprovalCredit, PoolConserved, UsedIffDecided, histVars
<1>7. ASSUME NEW l \in LimitSettings, updateRateLimits(l)
      PROVE  RegistryInv'
  <2>1. l \in Limits
    BY LimitsAssumption DEF Limits
  <2>2. limits' \in Limits /\ capMax' \in Nat /\ secondsMin' \in Nat
    BY <1>7, <2>1 DEF updateRateLimits, TypeOK, Limits
  <2>3. UNCHANGED <<now, paused, nextClaimId, claims, usedOracleRequestIds,
                    policyRegistry, windowStart, windowTotalPaid, balance,
                    policyOf, timesApproved, timesPaid, verdicts, deposited,
                    disbursed, limitedAt, overridden>>
    BY <1>7 DEF updateRateLimits
  <2>4. TypeOK'
    BY <2>2, <2>3 DEF TypeOK
  <2>5. QED
    BY <2>3, <2>4
    DEF SlotsInOrder, ApprovalCredit, PoolConserved, UsedIffDecided
<1>8. ASSUME NEW r \in Registries \cup {ZeroAddress}, setPolicyRegistry(r)
      PROVE  RegistryInv'
  <2>1. UNCHANGED <<now, paused, nextClaimId, claims, usedOracleRequestIds,
                    limits, windowStart, windowTotalPaid, balance, policyOf,
                    timesApproved, timesPaid, verdicts, deposited, disbursed,
                    limitedAt, capMax, secondsMin>>
    BY <1>8 DEF setPolicyRegistry
  <2>2. TypeOK'
    BY <1>8, <2>1 DEF setPolicyRegistry, TypeOK
  <2>3. QED
    BY <2>1, <2>2
    DEF SlotsInOrder, ApprovalCredit, PoolConserved, UsedIffDecided
<1>9. ASSUME NEW t \in Tokens, NEW n \in Transfers, rescueForeignToken(t, n)
      PROVE  RegistryInv'
  <2>1. /\ t # PayoutToken
        /\ balance' \in [Tokens -> Nat]
        /\ balance'[PayoutToken] = balance[PayoutToken]
    BY <1>9, BoundsAssumption, AddressAssumption
    DEF rescueForeignToken, Rescuable, TypeOK
  <2>2. UNCHANGED <<now, paused, nextClaimId, claims, usedOracleRequestIds,
                    policyRegistry, limits, windowStart, windowTotalPaid,
                    policyOf, histVars>>
    BY <1>9 DEF rescueForeignToken
  <2>3. TypeOK'
    BY <2>1, <2>2 DEF TypeOK, histVars
  <2>4. QED
    BY <2>1, <2>2, <2>3
    DEF SlotsInOrder, ApprovalCredit, PoolConserved, UsedIffDecided, histVars
<1>10. ASSUME NEW t \in Tokens, NEW n \in Transfers, Deposit(t, n)
       PROVE  RegistryInv'
  <2>1. /\ balance' \in [Tokens -> Nat] /\ deposited' \in Nat
        /\ PoolConserved'
    <3>1. /\ n \in Nat /\ PayoutToken \in Tokens
          /\ balance \in [Tokens -> Nat] /\ deposited \in Nat
          /\ disbursed \in Nat
          /\ balance' = [balance EXCEPT ![t] = @ + n] /\ disbursed' = disbursed
      BY <1>10, BoundsAssumption, AddressAssumption DEF Deposit, TypeOK
    <3>2. CASE t = PayoutToken
      BY <1>10, <3>1, <3>2 DEF Deposit, PoolConserved
    <3>3. CASE t # PayoutToken
      BY <1>10, <3>1, <3>3 DEF Deposit, PoolConserved
    <3>4. QED
      BY <3>2, <3>3
  <2>2. UNCHANGED <<now, paused, nextClaimId, claims, usedOracleRequestIds,
                    policyRegistry, limits, windowStart, windowTotalPaid,
                    policyOf, timesApproved, timesPaid, verdicts, disbursed,
                    limitedAt, capMax, secondsMin, overridden>>
    BY <1>10 DEF Deposit
  <2>3. TypeOK'
    BY <2>1, <2>2 DEF TypeOK
  <2>4. QED
    BY <2>1, <2>2, <2>3 DEF SlotsInOrder, ApprovalCredit, UsedIffDecided
<1>11. CASE PolicyStep \/ Tick
  <2>1. /\ now' \in Time
        /\ policyOf' \in [Registries -> [PolicyIds -> PolicyViews]]
        /\ overridden' \subseteq PolicyIds
    BY <1>11, BoundsAssumption
    DEF PolicyStep, Tick, AnswersChange, TypeOK, Time
  <2>2. UNCHANGED <<codeVars, timesApproved, timesPaid, verdicts, deposited,
                    disbursed, limitedAt, capMax, secondsMin>>
    BY <1>11 DEF PolicyStep, Tick
  <2>3. TypeOK'
    BY <2>1, <2>2 DEF TypeOK, codeVars
  <2>4. QED
    BY <2>2, <2>3
    DEF SlotsInOrder, ApprovalCredit, PoolConserved, UsedIffDecided, codeVars
<1>12. CASE UNCHANGED vars
  BY <1>12 DEF vars, codeVars, histVars, TypeOK, SlotsInOrder, ApprovalCredit,
               PoolConserved, UsedIffDecided
<1>13. QED
  BY <1>1, <1>2, <1>3, <1>4, <1>5, <1>6, <1>7, <1>8, <1>9, <1>10, <1>11, <1>12
  DEF Next

\* The inductive invariant holds in every reachable state.
THEOREM RegistryInvariant == Spec => []RegistryInv
<1>1. QED
  BY InitEstablishes, StepPreserves, PTL DEF Spec

\* Every variable of the contract's model keeps its type.
THEOREM TypeCorrect == Spec => []TypeOK
<1>1. RegistryInv => TypeOK
  BY DEF RegistryInv
<1>2. QED
  BY <1>1, RegistryInvariant, PTL

\* A claim is paid at most as often as it was approved, for any number of
\* claims, underwriters and oracle requests and whichever of payoutClaim and
\* releaseStuckPayout pays.
THEOREM PaymentsNeedApprovals == Spec => []OnePaymentPerApproval
<1>1. RegistryInv => OnePaymentPerApproval
  BY DEF RegistryInv, ApprovalCredit, OnePaymentPerApproval
<1>2. QED
  BY <1>1, RegistryInvariant, PTL

\* Payout tokens leave the contract only to settle claims.
THEOREM PoolIsConserved == Spec => []PoolConserved
<1>1. RegistryInv => PoolConserved
  BY DEF RegistryInv
<1>2. QED
  BY <1>1, RegistryInvariant, PTL

\* An oracle request id is never the source of two verdicts.
THEOREM RequestsDecideOnce == Spec => []RequestDecidesOnce
<1>1. RegistryInv => RequestDecidesOnce
  BY DEF RegistryInv, UsedIffDecided, RequestDecidesOnce
<1>2. QED
  BY <1>1, RegistryInvariant, PTL

\* What submitClaim recorded about a claim is never changed and never
\* overwritten by a later submission.
THEOREM TermsAreFixed == Spec => ClaimTermsFixed
<1> DEFINE Kept ==
      \A c \in ClaimIds : Exists(c) =>
        /\ claims'[c].policyId = claims[c].policyId
        /\ claims'[c].claimant = claims[c].claimant
        /\ claims'[c].amount = claims[c].amount
<1>1. RegistryInv /\ [Next]_vars => [Kept]_claims
  <2> SUFFICES ASSUME RegistryInv, [Next]_vars PROVE Kept \/ claims' = claims
    OBVIOUS
  <2>1. claims \in [ClaimIds -> Claim]
    BY DEF RegistryInv, TypeOK
  <2>2. ASSUME NEW d \in ClaimIds, NEW s \in ClaimStatus,
               claims' = [claims EXCEPT ![d].status = s]
        PROVE  Kept
    BY <2>1, <2>2, StatusUpdate
  <2>3. ASSUME NEW a \in Accounts, NEW p \in PolicyIds, NEW n \in Amounts,
               submitClaim(a, p, n)
        PROVE  Kept
    <3>1. nextClaimId \in Nat /\ \A c \in ClaimIds : c \in Nat
      BY BoundsAssumption DEF RegistryInv, TypeOK, ClaimIds
    <3>2. \A c \in ClaimIds : Exists(c) => c # nextClaimId
      BY <3>1, ExistingSlot
    <3>3. \A c \in ClaimIds : c # nextClaimId => claims'[c] = claims[c]
      BY <2>1, <2>3 DEF submitClaim
    <3>4. QED
      BY <3>2, <3>3
  <2>4. ASSUME NEW d \in ClaimIds, NEW s \in ClaimStatus, setClaimStatus(d, s)
        PROVE  Kept
    BY <2>2, <2>4 DEF setClaimStatus, setStatus
  <2>5. ASSUME NEW d \in ClaimIds, NEW r \in RequestIds, NEW ok \in BOOLEAN,
               recordOracleVerification(d, r, ok)
        PROVE  Kept
    <3>1. (IF ok THEN "Approved" ELSE "Rejected") \in ClaimStatus
      BY DEF ClaimStatus
    <3>2. QED
      BY <2>2, <2>5, <3>1 DEF recordOracleVerification, setStatus
  <2>6. ASSUME NEW d \in ClaimIds, payoutClaim(d) \/ releaseStuckPayout(d)
        PROVE  Kept
    <3>1. "Paid" \in ClaimStatus
      BY DEF ClaimStatus
    <3>2. QED
      BY <2>2, <2>6, <3>1 DEF payoutClaim, releaseStuckPayout, settle
  <2>7. QED
    BY <2>3, <2>4, <2>5, <2>6
    DEF Next, vars, codeVars, pause, unpause, updateRateLimits,
        setPolicyRegistry, rescueForeignToken, Deposit, PolicyStep, Tick
<1>2. QED
  BY <1>1, RegistryInvariant, PTL DEF Spec, ClaimTermsFixed

-----------------------------------------------------------------------------
(* Coverage *)

\* The claims that _consumedCoverage counts, and what they hold.
Counted(f, p) == {c \in ClaimIds : /\ f[c].claimant # ZeroAddress
                                   /\ f[c].policyId = p
                                   /\ f[c].status # "Rejected"}
Held(f, p) == SumFunctionOnSet([c \in ClaimIds |-> f[c].amount], Counted(f, p))

\* It is what consumedCoverage reads, before and after a step.
LEMMA HeldIsConsumed ==
  \A p : /\ consumedCoverage(p) = Held(claims, p)
         /\ consumedCoverage(p)' = Held(claims', p)
<1> SUFFICES ASSUME NEW p
             PROVE  /\ consumedCoverage(p) = Held(claims, p)
                    /\ consumedCoverage(p)' = Held(claims', p)
  OBVIOUS
<1>1. Counted(claims, p) = {c \in policyClaims(p) : claims[c].status # "Rejected"}
  BY DEF Counted, policyClaims, Exists
<1>2. Counted(claims', p)
        = {c \in policyClaims(p)' : claims'[c].status # "Rejected"}
  BY DEF Counted, policyClaims, Exists
<1>3. consumedCoverage(p) = Held(claims, p)
  BY <1>1 DEF consumedCoverage, Held, AmountOf
<1>4. consumedCoverage(p)' = Held(claims', p)
  BY <1>2 DEF consumedCoverage, Held, AmountOf
<1> QED BY <1>3, <1>4

\* The sum is one of natural numbers over a finite set.
LEMMA HeldType ==
  ASSUME NEW f \in [ClaimIds -> Claim], NEW p
  PROVE  /\ IsFiniteSet(ClaimIds) /\ IsFiniteSet(Counted(f, p))
         /\ \A c \in ClaimIds : f[c].amount \in Nat
         /\ Held(f, p) \in Nat
<1>1. IsFiniteSet(ClaimIds)
  BY BoundsAssumption, FS_Interval DEF ClaimIds
<1>2. Counted(f, p) \in SUBSET ClaimIds
  BY DEF Counted
<1>3. IsFiniteSet(Counted(f, p))
  BY <1>1, <1>2, FS_Subset
<1>4. \A c \in ClaimIds : f[c].amount \in Nat
  BY BoundsAssumption DEF Claim
<1>5. \A c \in Counted(f, p) : [d \in ClaimIds |-> f[d].amount][c] \in Nat
  BY <1>2, <1>4
<1>6. Held(f, p) \in Nat
  BY <1>3, <1>5, SumAdd DEF Held
<1> QED BY <1>1, <1>3, <1>4, <1>6

\* A status that does not revive a Rejected claim of the policy leaves what the
\* policy's claims hold where it was, or lowers it.
LEMMA HeldShrinks ==
  ASSUME NEW f \in [ClaimIds -> Claim], NEW c \in ClaimIds,
         NEW s \in ClaimStatus, NEW p,
         ~(f[c].policyId = p /\ f[c].status = "Rejected" /\ s # "Rejected")
  PROVE  Held([f EXCEPT ![c].status = s], p) <= Held(f, p)
<1> DEFINE g == [f EXCEPT ![c].status = s]
           fa == [d \in ClaimIds |-> f[d].amount]
           ga == [d \in ClaimIds |-> g[d].amount]
<1>1. /\ g \in [ClaimIds -> Claim] /\ g[c].status = s
      /\ \A d \in ClaimIds : /\ g[d].claimant = f[d].claimant
                             /\ g[d].policyId = f[d].policyId
                             /\ g[d].amount = f[d].amount
                             /\ d # c => g[d] = f[d]
  BY StatusUpdate
<1> HIDE DEF g
<1>2. Counted(g, p) \in SUBSET Counted(f, p) /\ Counted(f, p) \in SUBSET ClaimIds
  BY <1>1 DEF Counted
<1>3. IsFiniteSet(Counted(f, p)) /\ IsFiniteSet(Counted(g, p))
  BY <1>1, HeldType
<1>4. /\ \A d \in Counted(f, p) : fa[d] \in Nat
      /\ \A d \in Counted(g, p) :
           ga[d] \in Nat /\ d \in Counted(f, p) /\ ga[d] <= fa[d]
  BY <1>1, <1>2, HeldType
<1>5. SumFunctionOnSet(ga, Counted(g, p)) <= SumFunctionOnSet(fa, Counted(f, p))
  <2> HIDE DEF fa, ga
  <2> QED BY <1>3, <1>4, SumMonotone
<1> QED BY <1>5 DEF Held, g

\* A claim written into an empty slot adds its amount to its own policy.
LEMMA HeldGrows ==
  ASSUME NEW f \in [ClaimIds -> Claim], NEW c \in ClaimIds,
         f[c].claimant = ZeroAddress, NEW new \in Claim, NEW p,
         new.claimant # ZeroAddress, new.status = "Submitted"
  PROVE  Held([f EXCEPT ![c] = new], p)
           = Held(f, p) + IF new.policyId = p THEN new.amount ELSE 0
<1> DEFINE g == [f EXCEPT ![c] = new]
           fa == [d \in ClaimIds |-> f[d].amount]
           ga == [d \in ClaimIds |-> g[d].amount]
           F == Counted(f, p)
           G == Counted(g, p)
<1>1. /\ g \in [ClaimIds -> Claim] /\ g[c] = new
      /\ \A d \in ClaimIds : d # c => g[d] = f[d]
  OBVIOUS
<1> HIDE DEF g
<1>2. /\ F \in SUBSET ClaimIds /\ c \notin F
      /\ G = IF new.policyId = p THEN F \cup {c} ELSE F
  BY <1>1 DEF Counted
<1>3. IsFiniteSet(F) /\ IsFiniteSet(G)
  BY <1>1, HeldType
<1>4. /\ \A d \in F : fa[d] \in Nat /\ ga[d] = fa[d]
      /\ \A d \in G : ga[d] \in Nat
      /\ ga[c] = new.amount /\ new.amount \in Nat
  BY <1>1, <1>2, HeldType
<1>5. SumFunctionOnSet(ga, F) = SumFunctionOnSet(fa, F)
  <2> HIDE DEF fa, ga, F
  <2> QED BY <1>3, <1>4, SumSame
<1>6. CASE new.policyId = p
  <2>1. c \in G /\ G \ {c} = F
    BY <1>2, <1>6
  <2>2. SumFunctionOnSet(ga, G) = ga[c] + SumFunctionOnSet(ga, G \ {c})
    <3> HIDE DEF ga, G
    <3> QED BY <1>3, <1>4, <2>1, SumAdd
  <2>3. Held(g, p) = ga[c] + Held(f, p)
    BY <1>5, <2>1, <2>2 DEF Held
  <2> QED BY <1>4, <1>6, <2>3, HeldType DEF g
<1>7. CASE new.policyId # p
  <2>1. G = F
    BY <1>2, <1>7
  <2>2. Held(g, p) = Held(f, p)
    BY <1>5, <2>1 DEF Held
  <2> QED BY <1>7, <2>2, HeldType DEF g
<1> QED BY <1>6, <1>7

\* No claim, nothing consumed.
LEMMA CoverageInit == Init => CoverageKept
<1> SUFFICES ASSUME Init PROVE CoverageKept
  OBVIOUS
<1>1. \A c \in ClaimIds : timesPaid[c] = 0
  BY DEF Init
<1>2. ASSUME NEW p \in PolicyIds PROVE AccountingStands(p)
  <2>1. policyClaims(p) = {} /\ Counted(claims, p) = {}
    BY DEF Init, EmptyClaim, policyClaims, Exists, Counted
  <2>2. consumedCoverage(p) = 0
    BY <2>1, HeldIsConsumed, SumEmpty DEF Held
  <2> QED BY <2>1, <2>2 DEF AccountingStands
<1> QED BY <1>1, <1>2 DEF CoverageKept

\* A status transition that marks no policy: claims leave Rejected and Paid only
\* on policies that are marked, so nothing is held twice.
LEMMA CoverageStatus ==
  ASSUME RegistryInv, CoverageKept, NEW c \in ClaimIds, NEW s \in ClaimStatus,
         claims' = [claims EXCEPT ![c].status = s],
         overridden \subseteq overridden',
         claims[c].status = "Rejected" /\ s # "Rejected" =>
           claims[c].policyId \in overridden',
         claims[c].status = "Paid" /\ s # "Paid" =>
           claims[c].policyId \in overridden',
         \A d \in ClaimIds : d # c => timesPaid'[d] = timesPaid[d],
         Exists(c),
         \/ timesPaid'[c] = timesPaid[c]
         \/ /\ timesPaid'[c] = timesPaid[c] + 1
            /\ claims[c].status = "Approved" /\ s = "Paid",
         UNCHANGED <<policyRegistry, policyOf>>
  PROVE  CoverageKept'
<1>1. /\ claims \in [ClaimIds -> Claim] /\ timesPaid \in [ClaimIds -> Nat]
      /\ policyOf \in [Registries -> [PolicyIds -> PolicyViews]]
  BY DEF RegistryInv, TypeOK
<1>2. /\ claims' \in [ClaimIds -> Claim] /\ claims'[c].status = s
      /\ \A d \in ClaimIds : /\ claims'[d].claimant = claims[d].claimant
                             /\ claims'[d].policyId = claims[d].policyId
                             /\ d # c => claims'[d] = claims[d]
  BY <1>1, StatusUpdate
<1>0. \A d \in ClaimIds : ~Exists(d)' => timesPaid'[d] = 0
  BY <1>2 DEF CoverageKept, Exists, Payable
<1> SUFFICES ASSUME NEW p \in PolicyIds, p \notin overridden'
             PROVE  AccountingStands(p)'
  BY <1>0 DEF CoverageKept
<1>3. \A d \in policyClaims(p) :
        timesPaid[d] <= IF claims[d].status = "Paid" THEN 1 ELSE 0
  BY DEF CoverageKept, AccountingStands
<1>4. ASSUME NEW d \in policyClaims(p)'
      PROVE  timesPaid'[d] <= IF claims'[d].status = "Paid" THEN 1 ELSE 0
  <2>1. d \in ClaimIds /\ d \in policyClaims(p) /\ claims[d].policyId = p
    BY <1>2 DEF policyClaims, Exists
  <2>2. CASE d # c
    BY <1>2, <1>3, <2>1, <2>2
  <2>3. CASE d = c
    <3>1. claims[c].status = "Paid" => s = "Paid"
      BY <2>1, <2>3
    <3> QED BY <1>1, <1>2, <1>3, <2>1, <2>3, <3>1
  <2> QED BY <2>2, <2>3
<1>5. consumedCoverage(p)' <= consumedCoverage(p)
  <2>1. ~(claims[c].policyId = p /\ claims[c].status = "Rejected"
          /\ s # "Rejected")
    OBVIOUS
  <2>2. Held(claims', p) <= Held(claims, p)
    BY <1>1, <2>1, HeldShrinks
  <2> QED BY <2>2, HeldIsConsumed
<1>6. consumedCoverage(p)' \in Nat /\ consumedCoverage(p) \in Nat
  BY <1>1, <1>2, HeldType, HeldIsConsumed
<1>7. ASSUME consumedCoverage(p)' > 0
      PROVE  /\ policyRegistry' \in Registries
             /\ consumedCoverage(p)' <= policyOf'[policyRegistry'][p].coverage
  <2>1. consumedCoverage(p) > 0
    BY <1>5, <1>6, <1>7
  <2>2. /\ policyRegistry \in Registries
        /\ consumedCoverage(p) <= policyOf[policyRegistry][p].coverage
    BY <2>1 DEF CoverageKept, AccountingStands
  <2>3. policyOf[policyRegistry][p].coverage \in Nat
    BY <1>1, <2>2, ViewsAssumption
  <2> QED BY <1>5, <1>6, <2>2, <2>3
<1> QED BY <1>4, <1>7 DEF AccountingStands

\* A step that leaves the claims alone and marks the policies whose coverage fell.
LEMMA CoverageFrame ==
  ASSUME RegistryInv, CoverageKept, UNCHANGED <<claims, timesPaid>>,
         overridden \subseteq overridden', policyRegistry' = policyRegistry,
         policyOf' \in [Registries -> [PolicyIds -> PolicyViews]],
         \A r \in Registries, p \in PolicyIds :
           policyOf'[r][p].coverage < policyOf[r][p].coverage => p \in overridden'
  PROVE  CoverageKept'
<1>1. policyOf \in [Registries -> [PolicyIds -> PolicyViews]]
  BY DEF RegistryInv, TypeOK
<1>0. \A d \in ClaimIds : ~Exists(d)' => timesPaid'[d] = 0
  BY DEF CoverageKept, Exists
<1> SUFFICES ASSUME NEW p \in PolicyIds, p \notin overridden'
             PROVE  AccountingStands(p)'
  BY <1>0 DEF CoverageKept
<1>2. /\ policyClaims(p)' = policyClaims(p)
      /\ consumedCoverage(p)' = consumedCoverage(p)
  BY DEF policyClaims, Exists, consumedCoverage, AmountOf
<1>3. /\ \A d \in policyClaims(p) :
           timesPaid[d] <= IF claims[d].status = "Paid" THEN 1 ELSE 0
      /\ consumedCoverage(p) > 0 =>
           /\ policyRegistry \in Registries
           /\ consumedCoverage(p) <= policyOf[policyRegistry][p].coverage
  BY DEF CoverageKept, AccountingStands
<1>4. consumedCoverage(p) \in Nat
  BY HeldType, HeldIsConsumed DEF RegistryInv, TypeOK
<1>5. ASSUME policyRegistry \in Registries
      PROVE  /\ policyOf[policyRegistry][p].coverage \in Nat
             /\ policyOf'[policyRegistry][p].coverage \in Nat
             /\ policyOf[policyRegistry][p].coverage
                  <= policyOf'[policyRegistry][p].coverage
  <2>1. /\ policyOf[policyRegistry][p].coverage \in Nat
        /\ policyOf'[policyRegistry][p].coverage \in Nat
    BY <1>1, <1>5, ViewsAssumption
  <2>2. ~(policyOf'[policyRegistry][p].coverage
          < policyOf[policyRegistry][p].coverage)
    BY <1>5
  <2> QED BY <2>1, <2>2
<1>6. ASSUME consumedCoverage(p)' > 0
      PROVE  /\ policyRegistry' \in Registries
             /\ consumedCoverage(p)' <= policyOf'[policyRegistry'][p].coverage
  <2>1. /\ policyRegistry \in Registries
        /\ consumedCoverage(p) <= policyOf[policyRegistry][p].coverage
    BY <1>2, <1>3, <1>6
  <2>2. consumedCoverage(p) <= policyOf'[policyRegistry][p].coverage
    BY <1>4, <1>5, <2>1
  <2> QED BY <1>2, <2>1, <2>2
<1> QED BY <1>2, <1>3, <1>6 DEF AccountingStands

\* submitClaim checks the coverage against the untruncated amount, which bounds
\* the uint96 that it stores.
LEMMA CoverageSubmit ==
  ASSUME RegistryInv, CoverageKept, NEW a \in Accounts, NEW q \in PolicyIds,
         NEW n \in Amounts, submitClaim(a, q, n)
  PROVE  CoverageKept'
<1> DEFINE c == nextClaimId
           new == [policyId |-> q, claimant |-> a,
                   amount |-> n % AmountModulus, status |-> "Submitted"]
<1>1. /\ claims \in [ClaimIds -> Claim] /\ timesPaid \in [ClaimIds -> Nat]
      /\ policyOf \in [Registries -> [PolicyIds -> PolicyViews]]
      /\ policyRegistry \in Registries \cup {ZeroAddress}
  BY DEF RegistryInv, TypeOK
<1>2. /\ c \in ClaimIds /\ claims[c] = EmptyClaim
      /\ claims' = [claims EXCEPT ![c] = new]
      /\ UNCHANGED <<policyRegistry, policyOf, timesPaid, overridden>>
      /\ policyRegistry # ZeroAddress
      /\ consumedCoverage(q) + n <= policyOf[policyRegistry][q].coverage
  <2>1. c \in ClaimIds /\ c >= nextClaimId
    BY BoundsAssumption DEF submitClaim, RegistryInv, TypeOK, ClaimIds
  <2> QED BY <2>1 DEF submitClaim, uint96, histVars, RegistryInv, SlotsInOrder
<1>3. /\ n \in Nat /\ n % AmountModulus \in Nat /\ n % AmountModulus <= n
  BY BoundsAssumption
<1>4. /\ new \in Claim /\ new.claimant # ZeroAddress
      /\ new.status = "Submitted" /\ new.policyId = q
      /\ new.amount = n % AmountModulus
  BY BoundsAssumption, AddressAssumption DEF Claim, ClaimStatus
<1> HIDE DEF c, new
<1>5. /\ claims'[c] = new /\ claims' \in [ClaimIds -> Claim]
      /\ \A d \in ClaimIds : d # c => claims'[d] = claims[d]
  BY <1>1, <1>2, <1>4
<1>6. ~Exists(c) /\ timesPaid[c] = 0
  BY <1>2 DEF CoverageKept, Exists, EmptyClaim
<1>7. \A d \in ClaimIds : ~Exists(d)' => timesPaid'[d] = 0
  BY <1>2, <1>5, <1>6 DEF CoverageKept, Exists
<1> SUFFICES ASSUME NEW p \in PolicyIds, p \notin overridden'
             PROVE  AccountingStands(p)'
  BY <1>7 DEF CoverageKept
<1>8. AccountingStands(p)
  BY <1>2 DEF CoverageKept
<1>9. ASSUME NEW d \in policyClaims(p)'
      PROVE  timesPaid'[d] <= IF claims'[d].status = "Paid" THEN 1 ELSE 0
  <2>1. CASE d = c
    BY <1>2, <1>4, <1>5, <1>6, <2>1
  <2>2. CASE d # c
    <3>1. d \in policyClaims(p) /\ claims'[d] = claims[d]
      BY <1>5, <2>2 DEF policyClaims, Exists
    <3> QED BY <1>2, <1>8, <3>1 DEF AccountingStands
  <2> QED BY <2>1, <2>2
<1>10. /\ consumedCoverage(p) \in Nat
       /\ consumedCoverage(p)' = consumedCoverage(p)
            + IF q = p THEN n % AmountModulus ELSE 0
  <2>1. claims[c].claimant = ZeroAddress
    BY <1>2 DEF EmptyClaim
  <2>2. Held(claims', p) = Held(claims, p)
                            + IF new.policyId = p THEN new.amount ELSE 0
    BY <1>1, <1>2, <1>4, <2>1, HeldGrows, ZenonT(60)
  <2>3. Held(claims, p) \in Nat
    BY <1>1, HeldType
  <2> QED BY <1>4, <2>2, <2>3, HeldIsConsumed
<1>11. policyRegistry \in Registries /\ policyOf[policyRegistry][p].coverage \in Nat
  BY <1>1, <1>2, ViewsAssumption
<1>12. ASSUME consumedCoverage(p)' > 0
       PROVE  consumedCoverage(p)' <= policyOf[policyRegistry][p].coverage
  <2>1. CASE q = p
    BY <1>2, <1>3, <1>10, <1>11, <2>1
  <2>2. CASE q # p
    <3>1. consumedCoverage(p)' = consumedCoverage(p)
      BY <1>10, <2>2
    <3> QED BY <1>8, <1>12, <3>1 DEF AccountingStands
  <2> QED BY <2>1, <2>2
<1> QED BY <1>2, <1>9, <1>11, <1>12 DEF AccountingStands

\* Every action keeps the accounting of the policies that are not marked.
LEMMA CoverageNext == RegistryInv /\ CoverageKept /\ [Next]_vars => CoverageKept'
<1> SUFFICES ASSUME RegistryInv, CoverageKept, [Next]_vars PROVE CoverageKept'
  OBVIOUS
<1>0. /\ claims \in [ClaimIds -> Claim] /\ timesPaid \in [ClaimIds -> Nat]
      /\ policyOf \in [Registries -> [PolicyIds -> PolicyViews]]
      /\ overridden \subseteq PolicyIds
  BY DEF RegistryInv, TypeOK
<1>1. ASSUME NEW a \in Accounts, NEW p \in PolicyIds, NEW n \in Amounts,
             submitClaim(a, p, n)
      PROVE  CoverageKept'
  BY <1>1, CoverageSubmit
<1>2. ASSUME NEW c \in ClaimIds, NEW s \in ClaimStatus, Exists(c),
             setStatus(c, s), UNCHANGED <<policyRegistry, policyOf, timesPaid>>
      PROVE  CoverageKept'
  <2>1. /\ claims' = [claims EXCEPT ![c].status = s]
        /\ overridden \subseteq overridden'
        /\ claims[c].status = "Rejected" /\ s # "Rejected" =>
             claims[c].policyId \in overridden'
        /\ claims[c].status = "Paid" /\ s # "Paid" =>
             claims[c].policyId \in overridden'
    BY <1>2 DEF setStatus, RecordStatus
  <2>2. \A d \in ClaimIds : timesPaid'[d] = timesPaid[d]
    BY <1>2
  <2> QED BY <1>2, <2>1, <2>2, CoverageStatus
<1>3. ASSUME NEW c \in ClaimIds, NEW s \in ClaimStatus, setClaimStatus(c, s)
      PROVE  CoverageKept'
  BY <1>2, <1>3 DEF setClaimStatus
<1>4. ASSUME NEW c \in ClaimIds, NEW r \in RequestIds, NEW ok \in BOOLEAN,
             recordOracleVerification(c, r, ok)
      PROVE  CoverageKept'
  <2>1. (IF ok THEN "Approved" ELSE "Rejected") \in ClaimStatus
    BY DEF ClaimStatus
  <2> QED BY <1>2, <1>4, <2>1 DEF recordOracleVerification
<1>5. ASSUME NEW c \in ClaimIds, payoutClaim(c) \/ releaseStuckPayout(c)
      PROVE  CoverageKept'
  <2>1. /\ Exists(c) /\ claims[c].status = "Approved"
        /\ claims' = [claims EXCEPT ![c].status = "Paid"]
        /\ timesPaid' = [timesPaid EXCEPT ![c] = @ + 1]
        /\ UNCHANGED <<policyRegistry, policyOf, overridden>>
    BY <1>5 DEF payoutClaim, releaseStuckPayout, Payable, settle
  <2>2. /\ \A d \in ClaimIds : d # c => timesPaid'[d] = timesPaid[d]
        /\ timesPaid'[c] = timesPaid[c] + 1
    BY <1>0, <2>1
  <2>3. "Paid" \in ClaimStatus
    BY DEF ClaimStatus
  <2> QED BY <2>1, <2>2, <2>3, CoverageStatus
<1>6. ASSUME NEW r \in Registries \cup {ZeroAddress}, setPolicyRegistry(r)
      PROVE  CoverageKept'
  BY <1>6 DEF setPolicyRegistry, CoverageKept, Exists
<1>7. CASE PolicyStep \/ Tick
  <2>1. /\ AnswersChange
        /\ UNCHANGED <<claims, timesPaid, policyRegistry>>
    BY <1>7 DEF PolicyStep, Tick, codeVars
  <2> QED BY <2>1, CoverageFrame DEF AnswersChange
<1>8. ASSUME UNCHANGED <<claims, timesPaid, policyRegistry, policyOf, overridden>>
      PROVE  CoverageKept'
  <2>1. \A r \in Registries, p \in PolicyIds :
          ~(policyOf'[r][p].coverage < policyOf[r][p].coverage)
    <3> SUFFICES ASSUME NEW r \in Registries, NEW p \in PolicyIds
                 PROVE  ~(policyOf'[r][p].coverage < policyOf[r][p].coverage)
      OBVIOUS
    <3>1. policyOf[r][p].coverage \in Nat
      BY <1>0, ViewsAssumption
    <3> QED BY <1>8, <3>1
  <2> QED BY <1>0, <1>8, <2>1, CoverageFrame
<1> QED
  BY <1>1, <1>3, <1>4, <1>5, <1>6, <1>7, <1>8
  DEF Next, vars, codeVars, histVars, pause, unpause, updateRateLimits,
      rescueForeignToken, Deposit

\* Claimants on a policy never receive more than its coverage, for any number of
\* claims, unless its accounting was overridden.
THEOREM PaymentsWithinCoverage == Spec => []PaidWithinCoverage
<1>1. RegistryInv /\ CoverageKept => PaidWithinCoverage
  <2> SUFFICES ASSUME RegistryInv, CoverageKept,
                      NEW p \in PolicyIds \ overridden, PaidOn(p) > 0
               PROVE  PaidOn(p) <= policyOf[policyRegistry][p].coverage
    BY DEF PaidWithinCoverage
  <2> DEFINE paid == [c \in ClaimIds |-> timesPaid[c] * claims[c].amount]
             held == [c \in ClaimIds |-> claims[c].amount]
  <2>1. /\ claims \in [ClaimIds -> Claim] /\ timesPaid \in [ClaimIds -> Nat]
        /\ policyOf \in [Registries -> [PolicyIds -> PolicyViews]]
    BY DEF RegistryInv, TypeOK
  <2>2. /\ IsFiniteSet(ClaimIds) /\ IsFiniteSet(Counted(claims, p))
        /\ \A c \in ClaimIds : claims[c].amount \in Nat
    BY <2>1, HeldType
  <2>3. policyClaims(p) \in SUBSET ClaimIds /\ IsFiniteSet(policyClaims(p))
    <3>1. policyClaims(p) \in SUBSET ClaimIds
      BY DEF policyClaims
    <3> QED BY <2>2, <3>1, FS_Subset
  <2>4. AccountingStands(p)
    BY DEF CoverageKept
  <2>5. ASSUME NEW c \in policyClaims(p)
        PROVE  /\ paid[c] \in Nat
               /\ paid[c] # 0 => c \in Counted(claims, p) /\ paid[c] <= held[c]
    <3>1. timesPaid[c] \in Nat /\ claims[c].amount \in Nat /\ c \in ClaimIds
      BY <2>1, <2>2, <2>3
    <3>2. timesPaid[c] <= IF claims[c].status = "Paid" THEN 1 ELSE 0
      BY <2>4 DEF AccountingStands
    <3>3. CASE timesPaid[c] = 0
      BY <3>1, <3>3
    <3>4. CASE timesPaid[c] = 1 /\ claims[c].status = "Paid"
      <4>1. c \in Counted(claims, p)
        BY <3>4 DEF Counted, policyClaims, Exists
      <4> QED BY <3>1, <3>4, <4>1
    <3> QED BY <3>1, <3>2, <3>3, <3>4
  <2>6. \A c \in Counted(claims, p) : held[c] \in Nat
    BY <2>2 DEF Counted
  <2>7. PaidOn(p) <= consumedCoverage(p)
    <3>1. SumFunctionOnSet(paid, policyClaims(p))
            <= SumFunctionOnSet(held, Counted(claims, p))
      <4> HIDE DEF paid, held
      <4> QED BY <2>2, <2>3, <2>5, <2>6, SumMonotone
    <3> QED BY <3>1, HeldIsConsumed DEF PaidOn, Held
  <2>8. PaidOn(p) \in Nat /\ consumedCoverage(p) \in Nat
    <3>1. SumFunctionOnSet(paid, policyClaims(p)) \in Nat
      <4> HIDE DEF paid
      <4> QED BY <2>3, <2>5, SumAdd
    <3> QED BY <2>1, <3>1, HeldType, HeldIsConsumed DEF PaidOn
  <2>9. /\ policyRegistry \in Registries
        /\ consumedCoverage(p) <= policyOf[policyRegistry][p].coverage
    BY <2>4, <2>7, <2>8 DEF AccountingStands
  <2>10. policyOf[policyRegistry][p].coverage \in Nat
    BY <2>1, <2>9, ViewsAssumption
  <2> QED BY <2>7, <2>8, <2>9, <2>10
<1> QED
  BY <1>1, CoverageInit, CoverageNext, RegistryInvariant, PTL DEF Spec

-----------------------------------------------------------------------------
(* The rate limit *)

\* The seconds from t on, and the n seconds from t on.
From(t) == {s \in Time : t <= s}
Within(t, n) == {s \in Time : t <= s /\ s < t + n}

\* Sums over seconds are sums of natural numbers over finite sets, and a longer
\* interval holds at least as much.
LEMMA SecondsSum ==
  ASSUME NEW f \in [Time -> Nat], NEW S \in SUBSET Time, NEW T \in SUBSET S
  PROVE  /\ IsFiniteSet(S)
         /\ SumFunctionOnSet(f, S) \in Nat
         /\ SumFunctionOnSet(f, T) \in Nat
         /\ SumFunctionOnSet(f, T) <= SumFunctionOnSet(f, S)
<1>1. IsFiniteSet(Time)
  BY BoundsAssumption, FS_Interval DEF Time
<1>2. IsFiniteSet(S) /\ IsFiniteSet(T)
  BY <1>1, FS_Subset
<1>3. /\ \A x \in S : f[x] \in Nat
      /\ \A x \in T : f[x] \in Nat /\ x \in S /\ f[x] <= f[x]
  OBVIOUS
<1> QED BY <1>2, <1>3, SumAdd, SumMonotone

\* A payment counts in the intervals that contain its second.
LEMMA SecondsAdd ==
  ASSUME NEW f \in [Time -> Nat], NEW g \in [Time -> Nat],
         NEW S \in SUBSET Time, NEW x \in Time, NEW a \in Nat,
         g[x] = f[x] + a, \A y \in Time : y # x => g[y] = f[y]
  PROVE  SumFunctionOnSet(g, S)
           = SumFunctionOnSet(f, S) + IF x \in S THEN a ELSE 0
<1>1. f[x] \in Nat /\ g[x] \in Nat
  OBVIOUS
<1>2. /\ IsFiniteSet(S) /\ SumFunctionOnSet(f, S) \in Nat
      /\ SumFunctionOnSet(g, S) \in Nat
  BY SecondsSum
<1>3. CASE x \in S
  <2>1. /\ \A y \in S : f[y] \in Nat /\ g[y] \in Nat
        /\ \A y \in S \ {x} : g[y] = f[y]
    OBVIOUS
  <2>2. SumFunctionOnSet(g, S) + f[x] = SumFunctionOnSet(f, S) + g[x]
    BY <1>2, <1>3, <2>1, SumUpdate
  <2> QED BY <1>1, <1>2, <1>3, <2>2
<1>4. CASE x \notin S
  <2>1. \A y \in S : f[y] \in Nat /\ g[y] = f[y]
    BY <1>4
  <2>2. SumFunctionOnSet(g, S) = SumFunctionOnSet(f, S)
    BY <1>2, <2>1, SumSame
  <2> QED BY <1>2, <1>4, <2>2
<1> QED BY <1>3, <1>4

\* Nothing was paid in seconds whose record is zero.
LEMMA SecondsZero ==
  ASSUME NEW f \in [Time -> Nat], NEW S \in SUBSET Time, \A s \in S : f[s] = 0
  PROVE  SumFunctionOnSet(f, S) = 0
<1>1. IsFiniteSet(S) /\ SumFunctionOnSet(f, S) \in Nat
  BY SecondsSum
<1>2. SumFunctionOnSet(f, S) <= SumFunctionOnSet(f, {})
  <2>1. \A x \in S : f[x] \in Nat /\ f[x] = 0
    OBVIOUS
  <2> QED BY <1>1, <2>1, SumMonotone, FS_EmptySet
<1> QED BY <1>1, <1>2, SumEmpty

\* The first window has not seen a payment.
LEMMA WindowInit == Init => WindowKept
<1> SUFFICES ASSUME Init PROVE WindowKept
  OBVIOUS
<1>1. /\ limitedAt \in [Time -> Nat] /\ \A s \in Time : limitedAt[s] = 0
      /\ limits \in [perClaim : Nat, perWindow : Nat, seconds : Nat]
      /\ now \in Nat
  BY BoundsAssumption, LimitsAssumption DEF Init
<1>2. capMax \in Nat /\ secondsMin \in Nat
  BY <1>1 DEF Init
<1>3. \A S \in SUBSET Time : SumFunctionOnSet(limitedAt, S) = 0
  BY <1>1, SecondsZero
<1>4. \A t, n : LimitedIn(t, n) = 0 /\ PaidSince(t) = 0
  <2> SUFFICES ASSUME NEW t, NEW n PROVE LimitedIn(t, n) = 0 /\ PaidSince(t) = 0
    OBVIOUS
  <2>1. /\ {s \in Time : t <= s /\ s < t + n} \in SUBSET Time
        /\ {s \in Time : t <= s} \in SUBSET Time
    OBVIOUS
  <2> QED BY <1>3, <2>1 DEF LimitedIn, PaidSince
<1> QED
  BY <1>1, <1>2, <1>4 DEF WindowKept, BurstBound, Init

\* The types that the arithmetic below needs.
LEMMA WindowTypes ==
  ASSUME RegistryInv
  PROVE  /\ now \in Time /\ windowStart \in Time /\ windowTotalPaid \in Nat
         /\ limits.perWindow \in Nat /\ limits.seconds \in Nat
         /\ capMax \in Nat /\ secondsMin \in Nat
         /\ limitedAt \in [Time -> Nat]
         /\ \A t \in Time : t \in Nat
         /\ \A c \in ClaimIds : claims[c].amount \in Nat
  BY BoundsAssumption DEF RegistryInv, TypeOK, Time, Limits, Claim

\* A payment through payoutClaim.  In a running window both sides grow by the
\* amount.  A new window starts at least secondsMin after the old one did, so
\* what an interval that reaches into it already holds was paid after the first
\* second of the old window, which that window's total covers.
LEMMA WindowPay ==
  ASSUME RegistryInv, WindowKept, NEW c \in ClaimIds, payoutClaim(c)
  PROVE  WindowKept'
<1> DEFINE a == claims[c].amount
           Before(t) == SumFunctionOnSet(limitedAt, From(t))
           After(t) == SumFunctionOnSet(limitedAt', From(t))
<1>1. /\ now \in Nat /\ now \in Time /\ windowStart \in Nat
      /\ windowTotalPaid \in Nat
      /\ limits.perWindow \in Nat /\ limits.seconds \in Nat
      /\ capMax \in Nat /\ secondsMin \in Nat /\ limitedAt \in [Time -> Nat]
      /\ a \in Nat
      /\ \A t \in Time : t \in Nat
  BY WindowTypes
<1>2. /\ UNCHANGED <<now, limits, capMax, secondsMin>>
      /\ limitedAt' = [limitedAt EXCEPT ![now] = @ + a]
      /\ WindowUsed + a <= limits.perWindow
      /\ windowStart' = IF WindowExpired THEN now ELSE windowStart
      /\ windowTotalPaid' = WindowUsed + a
  BY DEF payoutClaim, enforceRateLimit
<1> HIDE DEF a
<1>3. /\ windowStart <= now
      /\ limits.perWindow <= capMax /\ secondsMin <= limits.seconds
      /\ windowTotalPaid <= capMax
      /\ \A s \in Time : s > now => limitedAt[s] = 0
      /\ Before(windowStart + 1) <= windowTotalPaid
      /\ \A t \in Time : t + secondsMin > windowStart =>
           Before(t) <= capMax + windowTotalPaid
      /\ BurstBound
  BY DEF WindowKept, PaidSince, From
<1>4. WindowUsed \in Nat /\ windowTotalPaid' \in Nat /\ windowTotalPaid' <= capMax
  BY <1>1, <1>2, <1>3 DEF WindowUsed
<1>5. windowStart' \in Nat /\ windowStart' <= now
  BY <1>1, <1>2, <1>3
<1>6. limitedAt' \in [Time -> Nat] /\ \A s \in Time : s > now => limitedAt'[s] = 0
  BY <1>1, <1>2, <1>3
<1>7. \A S \in SUBSET Time :
        /\ SumFunctionOnSet(limitedAt, S) \in Nat
        /\ SumFunctionOnSet(limitedAt', S)
             = SumFunctionOnSet(limitedAt, S) + IF now \in S THEN a ELSE 0
  <2> SUFFICES ASSUME NEW S \in SUBSET Time
               PROVE  /\ SumFunctionOnSet(limitedAt, S) \in Nat
                      /\ SumFunctionOnSet(limitedAt', S)
                           = SumFunctionOnSet(limitedAt, S)
                             + IF now \in S THEN a ELSE 0
    OBVIOUS
  <2>1. SumFunctionOnSet(limitedAt, S) \in Nat
    BY <1>1, SecondsSum
  <2>2. /\ limitedAt'[now] = limitedAt[now] + a
        /\ \A y \in Time : y # now => limitedAt'[y] = limitedAt[y]
    BY <1>1, <1>2
  <2> QED BY <1>1, <1>6, <2>1, <2>2, SecondsAdd
<1>8. \A t \in Nat : /\ From(t) \in SUBSET Time
                     /\ Before(t) \in Nat /\ After(t) \in Nat
                     /\ After(t) <= Before(t) + a
  <2> SUFFICES ASSUME NEW t \in Nat
               PROVE  /\ From(t) \in SUBSET Time
                      /\ Before(t) \in Nat /\ After(t) \in Nat
                      /\ After(t) <= Before(t) + a
    OBVIOUS
  <2>1. From(t) \in SUBSET Time
    BY DEF From
  <2>2. /\ Before(t) \in Nat
        /\ After(t) = Before(t) + IF now \in From(t) THEN a ELSE 0
    BY <1>7, <2>1
  <2> QED BY <1>1, <2>1, <2>2
<1> HIDE DEF Before, After
<1>9. After(windowStart' + 1) <= windowTotalPaid'
  <2>1. CASE WindowExpired
    <3>1. windowStart' = now
      BY <1>2, <2>1
    <3>2. From(now + 1) \in SUBSET Time /\ \A s \in From(now + 1) : limitedAt'[s] = 0
      BY <1>1, <1>6 DEF From
    <3>3. After(now + 1) = 0
      BY <1>6, <3>2, SecondsZero DEF After
    <3> QED BY <1>4, <3>1, <3>3
  <2>2. CASE ~WindowExpired
    <3>1. windowStart' = windowStart /\ windowTotalPaid' = windowTotalPaid + a
      BY <1>2, <2>2 DEF WindowUsed
    <3>2. windowStart + 1 \in Nat
      BY <1>1
    <3> QED BY <1>1, <1>3, <1>8, <3>1, <3>2
  <2> QED BY <2>1, <2>2
<1>10. ASSUME NEW t \in Time, t + secondsMin > windowStart'
       PROVE  After(t) <= capMax + windowTotalPaid'
  <2>1. /\ t \in Nat /\ Before(t) \in Nat /\ After(t) \in Nat
        /\ After(t) <= Before(t) + a
    BY <1>1, <1>8
  <2>2. CASE WindowExpired
    <3>1. /\ windowTotalPaid' = a /\ windowStart' = now
          /\ now >= windowStart + limits.seconds
      BY <1>1, <1>2, <2>2 DEF WindowUsed, WindowExpired
    <3>2. t >= windowStart + 1
      BY <1>1, <1>3, <1>10, <2>1, <3>1
    <3>3. Before(t) <= Before(windowStart + 1)
      <4>1. /\ From(t) \in SUBSET From(windowStart + 1)
            /\ From(windowStart + 1) \in SUBSET Time
        <5>1. \A s \in Time : s \in Nat /\ (t <= s => windowStart + 1 <= s)
          BY <1>1, <2>1, <3>2
        <5> QED BY <5>1 DEF From
      <4> QED BY <1>1, <4>1, SecondsSum DEF Before
    <3>4. Before(windowStart + 1) \in Nat
      BY <1>1, <1>8
    <3> QED BY <1>1, <1>3, <2>1, <3>1, <3>3, <3>4
  <2>3. CASE ~WindowExpired
    <3>1. windowStart' = windowStart /\ windowTotalPaid' = windowTotalPaid + a
      BY <1>2, <2>3 DEF WindowUsed
    <3>2. Before(t) <= capMax + windowTotalPaid
      BY <1>3, <1>10, <3>1
    <3> QED BY <1>1, <2>1, <3>1, <3>2
  <2> QED BY <2>2, <2>3
<1>11. ASSUME NEW t \in Time
       PROVE  SumFunctionOnSet(limitedAt', Within(t, secondsMin)) <= 2 * capMax
  <2>1. /\ Within(t, secondsMin) \in SUBSET From(t) /\ From(t) \in SUBSET Time
        /\ Within(t, secondsMin) \in SUBSET Time /\ t \in Nat
    BY <1>1 DEF Within, From
  <2>2. CASE now \in Within(t, secondsMin)
    <3>1. t + secondsMin > windowStart'
      BY <1>1, <1>5, <2>1, <2>2 DEF Within
    <3>2. After(t) <= capMax + windowTotalPaid'
      BY <1>10, <3>1
    <3>3. /\ SumFunctionOnSet(limitedAt', Within(t, secondsMin)) \in Nat
          /\ SumFunctionOnSet(limitedAt', Within(t, secondsMin)) <= After(t)
          /\ After(t) \in Nat
      BY <1>6, <2>1, SecondsSum DEF After
    <3> QED BY <1>1, <1>4, <3>2, <3>3
  <2>3. CASE now \notin Within(t, secondsMin)
    <3>1. SumFunctionOnSet(limitedAt', Within(t, secondsMin))
            = SumFunctionOnSet(limitedAt, Within(t, secondsMin))
      BY <1>1, <1>7, <2>1, <2>3
    <3>2. SumFunctionOnSet(limitedAt, Within(t, secondsMin)) <= 2 * capMax
      BY <1>3 DEF BurstBound, LimitedIn, Within
    <3> QED BY <3>1, <3>2
  <2> QED BY <2>2, <2>3
<1>12. BurstBound'
  BY <1>2, <1>11 DEF BurstBound, LimitedIn, Within
<1>13. /\ PaidSince(windowStart + 1)' <= windowTotalPaid'
       /\ \A t \in Time : t + secondsMin' > windowStart' =>
            PaidSince(t)' <= capMax' + windowTotalPaid'
  BY <1>2, <1>9, <1>10 DEF PaidSince, After, From
<1> QED
  BY <1>2, <1>3, <1>4, <1>5, <1>6, <1>12, <1>13 DEF WindowKept

\* New limits raise the largest cap and lower the shortest window, or leave them.
LEMMA WindowLimits ==
  ASSUME RegistryInv, WindowKept, NEW l \in LimitSettings, updateRateLimits(l)
  PROVE  WindowKept'
<1>1. /\ now \in Nat /\ windowStart \in Nat /\ windowTotalPaid \in Nat
      /\ capMax \in Nat /\ secondsMin \in Nat /\ limitedAt \in [Time -> Nat]
      /\ \A t \in Time : t \in Nat
      /\ l.perWindow \in Nat /\ l.seconds \in Nat
  BY WindowTypes, LimitsAssumption
<1>2. /\ UNCHANGED <<now, windowStart, windowTotalPaid, limitedAt>>
      /\ limits' = l
      /\ capMax' = IF l.perWindow > capMax THEN l.perWindow ELSE capMax
      /\ secondsMin' = IF l.seconds < secondsMin THEN l.seconds ELSE secondsMin
  BY DEF updateRateLimits
<1>3. /\ capMax' \in Nat /\ capMax <= capMax' /\ l.perWindow <= capMax'
      /\ secondsMin' \in Nat /\ secondsMin' <= secondsMin
      /\ secondsMin' <= l.seconds
  BY <1>1, <1>2
<1>4. \A t : PaidSince(t)' = PaidSince(t)
  BY <1>2 DEF PaidSince
<1>5. ASSUME NEW t \in Time, t + secondsMin' > windowStart
      PROVE  PaidSince(t) <= capMax' + windowTotalPaid
  <2>1. t + secondsMin > windowStart /\ t \in Nat
    BY <1>1, <1>3, <1>5
  <2>2. PaidSince(t) <= capMax + windowTotalPaid
    BY <2>1 DEF WindowKept
  <2>3. PaidSince(t) \in Nat
    <3>1. {s \in Time : t <= s} \in SUBSET Time
      OBVIOUS
    <3> QED BY <1>1, <3>1, SecondsSum DEF PaidSince
  <2> QED BY <1>1, <1>3, <2>2, <2>3
<1>6. ASSUME NEW t \in Time PROVE LimitedIn(t, secondsMin)' <= 2 * capMax'
  <2> DEFINE S == {s \in Time : t <= s /\ s < t + secondsMin}
             T == {s \in Time : t <= s /\ s < t + secondsMin'}
  <2>1. S \in SUBSET Time /\ T \in SUBSET S
    BY <1>1, <1>3
  <2>2. /\ SumFunctionOnSet(limitedAt, S) \in Nat
        /\ SumFunctionOnSet(limitedAt, T) \in Nat
        /\ SumFunctionOnSet(limitedAt, T) <= SumFunctionOnSet(limitedAt, S)
    <3> HIDE DEF S, T
    <3> QED BY <1>1, <2>1, SecondsSum
  <2>3. SumFunctionOnSet(limitedAt, S) <= 2 * capMax
    BY DEF WindowKept, BurstBound, LimitedIn
  <2>4. SumFunctionOnSet(limitedAt, T) <= 2 * capMax'
    BY <1>1, <1>3, <2>2, <2>3
  <2> QED BY <1>2, <2>4 DEF LimitedIn
<1>7. PaidSince(windowStart + 1) <= windowTotalPaid /\ windowTotalPaid <= capMax'
  BY <1>1, <1>3 DEF WindowKept
<1> QED
  BY <1>2, <1>3, <1>4, <1>5, <1>6, <1>7 DEF WindowKept, BurstBound

\* Nothing else touches the window; time only moves on.
LEMMA WindowNext ==
  RegistryInv /\ WindowKept /\ [Next]_vars => WindowKept'
<1> SUFFICES ASSUME RegistryInv, WindowKept, [Next]_vars
             PROVE  WindowKept'
  OBVIOUS
<1>1. ASSUME UNCHANGED <<limits, windowStart, windowTotalPaid, limitedAt, capMax,
                         secondsMin>>,
             now' = now \/ now' = now + 1
      PROVE  WindowKept'
  <2>1. /\ now \in Nat /\ windowStart \in Nat /\ \A t \in Time : t \in Nat
    BY WindowTypes
  <2>2. windowStart' <= now' /\ \A s \in Time : s > now' => s > now
    BY <1>1, <2>1 DEF WindowKept
  <2>3. /\ \A t : PaidSince(t)' = PaidSince(t)
        /\ \A t, n : LimitedIn(t, n)' = LimitedIn(t, n)
    BY <1>1 DEF PaidSince, LimitedIn
  <2> QED BY <1>1, <2>2, <2>3 DEF WindowKept, BurstBound
<1>2. ASSUME NEW c \in ClaimIds, payoutClaim(c) PROVE WindowKept'
  BY <1>2, WindowPay
<1>3. ASSUME NEW l \in LimitSettings, updateRateLimits(l) PROVE WindowKept'
  BY <1>3, WindowLimits
<1>4. CASE \/ \E a \in Accounts, p \in PolicyIds, n \in Amounts :
                submitClaim(a, p, n)
           \/ \E c \in ClaimIds, s \in ClaimStatus : setClaimStatus(c, s)
           \/ \E c \in ClaimIds, r \in RequestIds, ok \in BOOLEAN :
                recordOracleVerification(c, r, ok)
           \/ \E c \in ClaimIds : releaseStuckPayout(c)
  BY <1>1, <1>4
  DEF submitClaim, setClaimStatus, recordOracleVerification,
      releaseStuckPayout, histVars
<1>5. CASE \/ pause \/ unpause
           \/ \E r \in Registries \cup {ZeroAddress} : setPolicyRegistry(r)
           \/ \E t \in Tokens, n \in Transfers : rescueForeignToken(t, n)
           \/ \E t \in Tokens, n \in Transfers : Deposit(t, n)
           \/ PolicyStep \/ Tick \/ UNCHANGED vars
  BY <1>1, <1>5
  DEF pause, unpause, setPolicyRegistry, rescueForeignToken, Deposit,
      PolicyStep, Tick, vars, codeVars, histVars
<1> QED BY <1>2, <1>3, <1>4, <1>5 DEF Next

\* No interval as long as the shortest window ever sees more than twice the
\* largest cap, for any sequence of payments and changes of the limits.
THEOREM BurstsAreBounded == Spec => []BurstBound
<1>1. WindowKept => BurstBound
  BY DEF WindowKept
<1> QED
  BY <1>1, WindowInit, WindowNext, RegistryInvariant, PTL DEF Spec

-----------------------------------------------------------------------------
(* The adapter *)

ReplayInv ==
  /\ UsedMeansDecided
  /\ usedOracleRequestIds \cap relayedElsewhere = {}
  /\ verdicts \in [RequestIds -> Nat]
  /\ \A r \in RequestIds :
       verdicts[r] = IF r \in usedOracleRequestIds THEN 1 ELSE 0

\* What the invariant is about.
idVars == <<usedRequestIds, usedOracleRequestIds, relayedElsewhere, verdicts>>

\* No id is used at first.
LEMMA ReplayInit == AdapterInit => ReplayInv
  BY DEF AdapterInit, Init, ReplayInv, UsedMeansDecided

\* Steps of the registry other than a verdict use no request id.
LEMMA RegistryStepsUseNoId == RegistryStep => UNCHANGED idVars
  <1> SUFFICES ASSUME RegistryStep PROVE UNCHANGED idVars
    OBVIOUS
  <1> USE DEF idVars, adapterVars
  <1>0. UNCHANGED <<usedRequestIds, relayedElsewhere>>
    BY DEF RegistryStep
  <1>1. CASE \E a \in Accounts, p \in PolicyIds, n \in Amounts :
               submitClaim(a, p, n)
    BY <1>0, <1>1 DEF submitClaim, histVars
  <1>2. CASE \E c \in ClaimIds, s \in ClaimStatus : setClaimStatus(c, s)
    BY <1>0, <1>2 DEF setClaimStatus, setStatus
  <1>3. CASE \E c \in ClaimIds : payoutClaim(c)
    BY <1>0, <1>3 DEF payoutClaim
  <1>4. CASE \E c \in ClaimIds : releaseStuckPayout(c)
    BY <1>0, <1>4 DEF releaseStuckPayout
  <1>5. CASE pause \/ unpause
    BY <1>0, <1>5 DEF pause, unpause, histVars
  <1>6. CASE \/ \E l \in LimitSettings : updateRateLimits(l)
             \/ \E r \in Registries \cup {ZeroAddress} : setPolicyRegistry(r)
    BY <1>0, <1>6 DEF updateRateLimits, setPolicyRegistry
  <1>7. CASE \E t \in Tokens, n \in Transfers :
               rescueForeignToken(t, n) \/ Deposit(t, n)
    BY <1>0, <1>7 DEF rescueForeignToken, Deposit, histVars
  <1>8. CASE PolicyStep \/ Tick
    BY <1>0, <1>8 DEF PolicyStep, Tick, codeVars
  <1> QED
    BY <1>1, <1>2, <1>3, <1>4, <1>5, <1>6, <1>7, <1>8 DEF RegistryStep

\* A step that uses no id keeps the invariant.
LEMMA NoIdUsed == ReplayInv /\ UNCHANGED idVars => ReplayInv'
  BY DEF ReplayInv, UsedMeansDecided, idVars

\* submitVerification consumes an id that is new to both layers.
LEMMA RelayStep ==
  ASSUME ReplayInv, NEW response \in OracleResponse, submitVerification(response)
  PROVE  ReplayInv'
  <1> DEFINE r == response.requestId
  <1>1. r \in RequestIds
    BY DEF OracleResponse
  <1>2. /\ r \notin usedRequestIds
        /\ usedRequestIds' = usedRequestIds \cup {r}
    BY DEF submitVerification, Unused
  <1>3. r \notin usedOracleRequestIds /\ r \notin relayedElsewhere
    BY <1>2 DEF ReplayInv, UsedMeansDecided
  <1>4. CASE claimRegistry = ThisRegistry
    <2>1. /\ usedOracleRequestIds' = usedOracleRequestIds \cup {r}
          /\ verdicts' = [verdicts EXCEPT ![r] = @ + 1]
          /\ UNCHANGED relayedElsewhere
      BY <1>4 DEF submitVerification, Relay, recordOracleVerification,
                  MarkUsed
    <2>2. verdicts \in [RequestIds -> Nat] /\ verdicts[r] = 0
      BY <1>1, <1>3 DEF ReplayInv
    <2>3. /\ verdicts' \in [RequestIds -> Nat] /\ verdicts'[r] = 1
          /\ \A q \in RequestIds \ {r} : verdicts'[q] = verdicts[q]
      BY <1>1, <2>1, <2>2
    <2>4. \A q \in RequestIds :
            verdicts'[q] = IF q \in usedOracleRequestIds' THEN 1 ELSE 0
      BY <2>1, <2>3 DEF ReplayInv
    <2> QED
      BY <1>2, <1>3, <2>1, <2>3, <2>4 DEF ReplayInv, UsedMeansDecided
  <1>5. CASE claimRegistry # ThisRegistry
    <2>1. /\ relayedElsewhere' = relayedElsewhere \cup {r}
          /\ UNCHANGED <<usedOracleRequestIds, verdicts>>
      BY <1>5 DEF submitVerification, vars, codeVars, histVars
    <2> QED
      BY <1>2, <1>3, <2>1 DEF ReplayInv, UsedMeansDecided
  <1> QED
    BY <1>4, <1>5

\* Administration of the adapter touches no id.
AdminStep ==
  \/ \E sink \in {ThisRegistry, OtherSink} : setClaimRegistry(sink)
  \/ \E w \in ValidityWindows : setResponseValidityWindow(w)
  \/ \E b \in BOOLEAN : setAdapterPaused(b)
  \/ \E k \in Keys, b \in BOOLEAN : setSigner(k, b)

\* It changes nothing in the registry either.
LEMMA AdminStepsUseNoId ==
  AdminStep => UNCHANGED vars /\ UNCHANGED idVars
  BY DEF AdminStep, setClaimRegistry, setResponseValidityWindow,
         setAdapterPaused, setSigner, vars, codeVars, histVars, idVars

\* The invariant is inductive.
LEMMA ReplayNext == ReplayInv /\ [AdapterNext]_allVars => ReplayInv'
  <1> SUFFICES ASSUME ReplayInv, [AdapterNext]_allVars PROVE ReplayInv'
    OBVIOUS
  <1>1. CASE \E response \in OracleResponse : submitVerification(response)
    BY <1>1, RelayStep
  <1>2. CASE AdminStep
    BY <1>2, AdminStepsUseNoId, NoIdUsed
  <1>3. CASE RegistryStep
    BY <1>3, RegistryStepsUseNoId, NoIdUsed
  <1>4. CASE UNCHANGED allVars
    BY <1>4, NoIdUsed DEF allVars, vars, codeVars, histVars, adapterVars, idVars
  <1> QED
    BY <1>1, <1>2, <1>3, <1>4 DEF AdapterNext, AdminStep

\* The adapter's own variables keep their types: no id or signer that is not one
\* is ever recorded, and the sink is one of the two.
THEOREM AdapterTypeCorrect == AdapterSpec => []AdapterTypeOK
  <1>1. AdapterInit => AdapterTypeOK
    BY DEF AdapterInit, AdapterTypeOK
  <1>2. AdapterTypeOK /\ [AdapterNext]_allVars => AdapterTypeOK'
    <2> SUFFICES ASSUME AdapterTypeOK, [AdapterNext]_allVars PROVE AdapterTypeOK'
      OBVIOUS
    <2>1. CASE \E response \in OracleResponse : submitVerification(response)
      BY <2>1 DEF submitVerification, OracleResponse, AdapterTypeOK
    <2>2. CASE AdminStep
      BY <2>2 DEF AdminStep, setClaimRegistry, setResponseValidityWindow,
                  setAdapterPaused, setSigner, AdapterTypeOK
    <2>3. CASE RegistryStep \/ UNCHANGED allVars
      BY <2>3 DEF RegistryStep, allVars, adapterVars, AdapterTypeOK
    <2> QED
      BY <2>1, <2>2, <2>3 DEF AdapterNext, AdminStep
  <1> QED
    BY <1>1, <1>2, PTL DEF AdapterSpec

\* The ids the adapter has consumed are those that decided a claim: a relay
\* that the registry reverts never burns a signed response.
THEOREM NoResponseIsBurnt == AdapterSpec => []UsedMeansDecided
  <1>1. ReplayInv => UsedMeansDecided
    BY DEF ReplayInv
  <1> QED
    BY <1>1, ReplayInit, ReplayNext, PTL DEF AdapterSpec

\* A signed response decides at most one claim, in one registry, once, however
\* the sink, the signers and the validity window change between replays.
THEOREM ResponsesDecideOnce == AdapterSpec => []DecidesOneClaim
  <1>1. ReplayInv => DecidesOneClaim
    BY DEF ReplayInv, DecidesOneClaim
  <1> QED
    BY <1>1, ReplayInit, ReplayNext, PTL DEF AdapterSpec

\* Every step of the composition is a step of ClaimRegistry or leaves the
\* registry alone.
LEMMA StepsImplementRegistry == [AdapterNext]_allVars => [Next]_vars
  <1> SUFFICES ASSUME [AdapterNext]_allVars PROVE [Next]_vars
    OBVIOUS
  <1>1. ASSUME NEW response \in OracleResponse, submitVerification(response)
        PROVE  [Next]_vars
    <2>1. /\ response.claimId \in ClaimIds
          /\ response.requestId \in RequestIds
          /\ response.approved \in BOOLEAN
      BY DEF OracleResponse
    <2>2. CASE claimRegistry = ThisRegistry
      <3>1. recordOracleVerification(response.claimId, response.requestId,
                                     response.approved)
        BY <1>1, <2>2 DEF submitVerification, Relay
      <3> QED
        BY <2>1, <3>1 DEF Next
    <2>3. CASE claimRegistry # ThisRegistry
      BY <1>1, <2>3 DEF submitVerification
    <2> QED
      BY <2>2, <2>3
  <1>2. CASE AdminStep
    BY <1>2, AdminStepsUseNoId
  <1>3. CASE RegistryStep
    BY <1>3 DEF RegistryStep, Next
  <1>4. CASE UNCHANGED allVars
    BY <1>4 DEF allVars
  <1> QED
    BY <1>1, <1>2, <1>3, <1>4 DEF AdapterNext, AdminStep

\* The registry's part of a behaviour with the adapter is one of ClaimRegistry.
LEMMA RegistryPart == AdapterSpec => Spec
  <1>1. AdapterInit => Init
    BY DEF AdapterInit
  <1> QED
    BY <1>1, StepsImplementRegistry, PTL DEF AdapterSpec, Spec

\* Whatever is relayed, replayed or refused by the adapter, the registry behind
\* it keeps the money properties proved of ClaimRegistry above.
COROLLARY SafeBehindTheAdapter ==
  AdapterSpec => []( /\ OnePaymentPerApproval /\ PoolConserved
                     /\ PaidWithinCoverage /\ BurstBound )
  BY RegistryPart, PaymentsNeedApprovals, PoolIsConserved,
     PaymentsWithinCoverage, BurstsAreBounded, PTL
=============================================================================
