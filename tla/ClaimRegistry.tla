--------------------------- MODULE ClaimRegistry ---------------------------
(***************************************************************************)
(* ClaimRegistry.sol: the claim lifecycle and the payout pool.             *)
(*                                                                         *)
(* A transaction either commits or reverts as a whole, so each external    *)
(* function is one action whose guard is the negation of every revert,     *)
(* the revert of a token transfer the pool cannot cover included.  The     *)
(* block timestamp is the variable now.  Role checks are left implicit:    *)
(* an action gated by onlyRole is taken by some holder of that role.       *)
(* Merkle roots, the submittedAt and processedAt stamps and the events are *)
(* data that no guard of the contract reads.                               *)
(*                                                                         *)
(* The policy registry is seen through getPolicy and isPremiumCurrent      *)
(* only: policyOf[r][p] is what registry r answers about policy p, and     *)
(* PolicyStep lets the answers change between any two transactions.        *)
(* Module ClaimsPlatform puts InsurancePolicy in its place.                *)
(***************************************************************************)
EXTENDS Naturals, FiniteSets, Functions

CONSTANTS Accounts, ZeroAddress,   \* callers, and address(0)
          Registries,              \* InsurancePolicy deployments
          PolicyIds, PolicyViews,  \* policies, and what getPolicy can answer
          Amounts,                 \* requested claim amounts (uint256)
          AmountModulus,           \* 2^96: Claim.amount is a uint96
          RequestIds,              \* oracle request ids
          Tokens, PayoutToken,     \* ERC-20 contracts, the payout token
          Transfers,               \* amounts in deposits and rescues
          LimitSettings,           \* arguments of updateRateLimits
          StartTime,               \* timestamp of the deployment
          MaxClaims, MaxTime,      \* bounds on claims and on block time
          MaxDeposit,              \* bound on what is ever sent to the pool
          MaxApprovals             \* bound on approvals of one claim

ASSUME BoundsAssumption ==
  /\ MaxClaims \in Nat /\ MaxTime \in Nat /\ MaxDeposit \in Nat
  /\ MaxApprovals \in Nat
  /\ StartTime \in Nat /\ StartTime <= MaxTime
  /\ AmountModulus \in Nat \ {0}
  /\ Amounts \subseteq Nat /\ Transfers \subseteq Nat
ASSUME AddressAssumption ==
  /\ ZeroAddress \notin Accounts /\ ZeroAddress \notin Registries
  /\ PayoutToken \in Tokens
ASSUME ViewsAssumption == \A view \in PolicyViews : view.coverage \in Nat
ASSUME LimitsAssumption ==
  LimitSettings \subseteq [perClaim : Nat, perWindow : Nat, seconds : Nat]

ClaimIds == 1..MaxClaims
Time == StartTime..MaxTime
ClaimStatus == {"Submitted", "UnderReview", "Approved", "Paid", "Rejected"}
Limits == [perClaim : Nat, perWindow : Nat, seconds : Nat]

Claim == [policyId : PolicyIds \cup {ZeroAddress},
          claimant : Accounts \cup {ZeroAddress},
          amount : 0..(AmountModulus - 1),
          status : ClaimStatus]

\* An unwritten slot of the claims mapping reads as all zeroes.
EmptyClaim == [policyId |-> ZeroAddress, claimant |-> ZeroAddress,
               amount |-> 0, status |-> "Submitted"]

VARIABLES
  now,                   \* block.timestamp
  paused,                \* PausableUpgradeable
  nextClaimId, claims,   \* the claims mapping; policyClaims is derived
  usedOracleRequestIds,  \* set of consumed request ids
  policyRegistry,        \* address, ZeroAddress when unset
  limits,                \* maxPayoutPerClaim/PerWindow, rateLimitWindowSeconds
  windowStart, windowTotalPaid,
  balance,               \* token balances held by this contract
  policyOf               \* environment: the answers of each policy registry

\* History variables: no guard reads them.
VARIABLES
  timesApproved, timesPaid,  \* per claim: entries into Approved, transfers
  verdicts,                  \* per request id: oracle verdicts applied
  deposited, disbursed,      \* payout tokens received by and sent from the pool
  limitedAt,                 \* per second: amount sent through payoutClaim
  capMax, secondsMin,        \* largest window cap, shortest window so far
  overridden                 \* policies whose coverage accounting was overridden

codeVars == <<paused, nextClaimId, claims, usedOracleRequestIds,
              policyRegistry, limits, windowStart, windowTotalPaid, balance>>
histVars == <<timesApproved, timesPaid, verdicts, deposited, disbursed,
              limitedAt, capMax, secondsMin, overridden>>
vars == <<now, codeVars, policyOf, histVars>>
-----------------------------------------------------------------------------
TypeOK ==
  /\ now \in Time /\ windowStart \in Time
  /\ paused \in BOOLEAN
  /\ nextClaimId \in 1..(MaxClaims + 1)
  /\ claims \in [ClaimIds -> Claim]
  /\ usedOracleRequestIds \subseteq RequestIds
  /\ policyRegistry \in Registries \cup {ZeroAddress}
  /\ limits \in Limits
  /\ windowTotalPaid \in Nat
  /\ balance \in [Tokens -> Nat]
  /\ policyOf \in [Registries -> [PolicyIds -> PolicyViews]]
  /\ timesApproved \in [ClaimIds -> Nat] /\ timesPaid \in [ClaimIds -> Nat]
  /\ verdicts \in [RequestIds -> Nat]
  /\ deposited \in Nat /\ disbursed \in Nat
  /\ limitedAt \in [Time -> Nat]
  /\ capMax \in Nat /\ secondsMin \in Nat
  /\ overridden \subseteq PolicyIds

\* initialize: the first window starts at deployment; the pool is empty.
Init ==
  /\ now = StartTime /\ windowStart = StartTime /\ windowTotalPaid = 0
  /\ paused = FALSE
  /\ nextClaimId = 1
  /\ claims = [c \in ClaimIds |-> EmptyClaim]
  /\ usedOracleRequestIds = {}
  /\ policyRegistry \in Registries \cup {ZeroAddress}
  /\ limits \in LimitSettings
  /\ balance = [t \in Tokens |-> 0]
  /\ policyOf \in [Registries -> [PolicyIds -> PolicyViews]]
  /\ timesApproved = [c \in ClaimIds |-> 0]
  /\ timesPaid = [c \in ClaimIds |-> 0]
  /\ verdicts = [r \in RequestIds |-> 0]
  /\ deposited = 0 /\ disbursed = 0
  /\ limitedAt = [t \in Time |-> 0]
  /\ capMax = limits.perWindow /\ secondsMin = limits.seconds
  /\ overridden = {}
-----------------------------------------------------------------------------
(* Reading the claims mapping *)

Exists(c) == claims[c].claimant # ZeroAddress

policyClaims(p) == {c \in ClaimIds : Exists(c) /\ claims[c].policyId = p}

AmountOf == [c \in ClaimIds |-> claims[c].amount]

\* A mutated form: only money already paid counts as consumed.
ConsumedPaidOnly(p) ==
  SumFunctionOnSet(AmountOf,
                   {c \in policyClaims(p) : claims[c].status = "Paid"})

\* _consumedCoverage: every claim on the policy that is not Rejected.
consumedCoverage(p) ==
  SumFunctionOnSet(AmountOf,
                   {c \in policyClaims(p) : claims[c].status # "Rejected"})
-----------------------------------------------------------------------------
(* Submitting a claim *)

\* A mutated form: the validity interval is not looked at.
PolicyAcceptsExpired(view, sender) ==
  /\ view.exists /\ ~view.revoked
  /\ view.holder = sender
  /\ view.premiumCurrent

\* What submitClaim asks of the policy: not revoked, inside its validity
\* interval (both ends included), held by the caller, premium current.
PolicyAccepts(view, sender) ==
  /\ view.exists
  /\ ~view.revoked /\ view.validFrom <= now /\ now <= view.validUntil
  /\ view.holder = sender
  /\ view.premiumCurrent

\* nextClaimId++
NextId(id) == id + 1

uint96(amount) == amount % AmountModulus

submitClaim(sender, p, amount) ==
  LET c == nextClaimId
      view == policyOf[policyRegistry][p]
  IN  /\ c <= MaxClaims
      /\ ~paused
      /\ amount <= limits.perClaim
      /\ policyRegistry # ZeroAddress
      /\ PolicyAccepts(view, sender)
      /\ consumedCoverage(p) + amount <= view.coverage
      /\ nextClaimId' = NextId(c)
      /\ claims' = [claims EXCEPT ![c] =
           [policyId |-> p, claimant |-> sender,
            amount |-> uint96(amount), status |-> "Submitted"]]
      /\ UNCHANGED <<now, paused, usedOracleRequestIds, policyRegistry,
                     limits, windowStart, windowTotalPaid, balance, policyOf,
                     histVars>>
-----------------------------------------------------------------------------
(* Status transitions by the underwriter and by the oracle *)

\* History: entering Approved is counted, and a policy is marked when a
\* Rejected claim comes back to life or a Paid claim leaves Paid.
EntersApproved(c, status) == status = "Approved" /\ claims[c].status # "Approved"

RecordStatus(c, status) ==
  /\ EntersApproved(c, status) => timesApproved[c] < MaxApprovals
  /\ timesApproved' = IF EntersApproved(c, status)
                      THEN [timesApproved EXCEPT ![c] = @ + 1]
                      ELSE timesApproved
  /\ overridden' = IF \/ claims[c].status = "Rejected" /\ status # "Rejected"
                      \/ claims[c].status = "Paid" /\ status # "Paid"
                   THEN overridden \cup {claims[c].policyId}
                   ELSE overridden

setStatus(c, status) ==
  /\ claims' = [claims EXCEPT ![c].status = status]
  /\ RecordStatus(c, status)

\* No transition table: an underwriter may set any status from any other.
setClaimStatus(c, status) ==
  /\ ~paused
  /\ Exists(c)
  /\ setStatus(c, status)
  /\ UNCHANGED <<now, paused, nextClaimId, usedOracleRequestIds,
                 policyRegistry, limits, windowStart, windowTotalPaid, balance,
                 policyOf, timesPaid, verdicts, deposited, disbursed,
                 limitedAt, capMax, secondsMin>>

\* usedOracleRequestIds[requestId] = true
MarkUsed(used, r) == used \cup {r}

recordOracleVerification(c, r, approved) ==
  /\ ~paused
  /\ r \notin usedOracleRequestIds
  /\ Exists(c)
  /\ usedOracleRequestIds' = MarkUsed(usedOracleRequestIds, r)
  /\ setStatus(c, IF approved THEN "Approved" ELSE "Rejected")
  /\ verdicts' = [verdicts EXCEPT ![r] = @ + 1]
  /\ UNCHANGED <<now, paused, nextClaimId, policyRegistry, limits,
                 windowStart, windowTotalPaid, balance, policyOf, timesPaid,
                 deposited, disbursed, limitedAt, capMax, secondsMin>>
-----------------------------------------------------------------------------
(* Paying a claim *)

\* A mutated form: any claim that was not turned down can be paid.
PayableLoose(c) == Exists(c) /\ claims[c].status # "Rejected"

Payable(c) == Exists(c) /\ claims[c].status = "Approved"

\* c.status = Paid; payoutToken.safeTransfer(c.claimant, c.amount).
settle(c) ==
  LET amount == claims[c].amount
  IN  /\ balance[PayoutToken] >= amount
      /\ claims' = [claims EXCEPT ![c].status = "Paid"]
      /\ balance' = [balance EXCEPT ![PayoutToken] = @ - amount]
      /\ timesPaid' = [timesPaid EXCEPT ![c] = @ + 1]
      /\ disbursed' = disbursed + amount

\* A mutated form: the running total of the window is never read.
WindowUsedForgotten == 0

\* _enforceRateLimit, first half: an expired window starts again at zero.
WindowExpired == now >= windowStart + limits.seconds
WindowUsed == IF WindowExpired THEN 0 ELSE windowTotalPaid

enforceRateLimit(amount) ==
  /\ WindowUsed + amount <= limits.perWindow
  /\ windowStart' = IF WindowExpired THEN now ELSE windowStart
  /\ windowTotalPaid' = WindowUsed + amount

payoutClaim(c) ==
  /\ ~paused
  /\ Payable(c)
  /\ enforceRateLimit(claims[c].amount)
  /\ settle(c)
  /\ limitedAt' = [limitedAt EXCEPT ![now] = @ + claims[c].amount]
  /\ UNCHANGED <<now, paused, nextClaimId, usedOracleRequestIds,
                 policyRegistry, limits, policyOf, timesApproved, verdicts,
                 deposited, capMax, secondsMin, overridden>>

\* Neither paused nor the rate limit stands in the way of a release.
releaseStuckPayout(c) ==
  /\ Payable(c)
  /\ settle(c)
  /\ UNCHANGED <<now, paused, nextClaimId, usedOracleRequestIds,
                 policyRegistry, limits, windowStart, windowTotalPaid,
                 policyOf, timesApproved, verdicts, deposited, limitedAt,
                 capMax, secondsMin, overridden>>
-----------------------------------------------------------------------------
(* Administration *)

pause ==
  /\ ~paused /\ paused' = TRUE
  /\ UNCHANGED <<now, nextClaimId, claims, usedOracleRequestIds,
                 policyRegistry, limits, windowStart, windowTotalPaid, balance,
                 policyOf, histVars>>

unpause ==
  /\ paused /\ paused' = FALSE
  /\ UNCHANGED <<now, nextClaimId, claims, usedOracleRequestIds,
                 policyRegistry, limits, windowStart, windowTotalPaid, balance,
                 policyOf, histVars>>

\* The window in progress keeps its start and its total.
updateRateLimits(new) ==
  /\ limits' = new
  /\ capMax' = IF new.perWindow > capMax THEN new.perWindow ELSE capMax
  /\ secondsMin' = IF new.seconds < secondsMin THEN new.seconds ELSE secondsMin
  /\ UNCHANGED <<now, paused, nextClaimId, claims, usedOracleRequestIds,
                 policyRegistry, windowStart, windowTotalPaid, balance,
                 policyOf, timesApproved, timesPaid, verdicts, deposited,
                 disbursed, limitedAt, overridden>>

setPolicyRegistry(r) ==
  /\ policyRegistry' = r
  /\ overridden' = PolicyIds
  /\ UNCHANGED <<now, paused, nextClaimId, claims, usedOracleRequestIds,
                 limits, windowStart, windowTotalPaid, balance, policyOf,
                 timesApproved, timesPaid, verdicts, deposited, disbursed,
                 limitedAt, capMax, secondsMin>>

\* A mutated form: the payout token is not excluded.
RescuableAny(token) == TRUE

Rescuable(token) == token # PayoutToken

rescueForeignToken(token, amount) ==
  /\ Rescuable(token)
  /\ balance[token] >= amount
  /\ balance' = [balance EXCEPT ![token] = @ - amount]
  /\ UNCHANGED <<now, paused, nextClaimId, claims, usedOracleRequestIds,
                 policyRegistry, limits, windowStart, windowTotalPaid,
                 policyOf, histVars>>
-----------------------------------------------------------------------------
(* The environment *)

\* Anyone may send tokens to the contract; this is also how the pool of
\* payout tokens is filled.
Deposit(token, amount) ==
  /\ balance[token] + amount <= MaxDeposit
  /\ token = PayoutToken => deposited + amount <= MaxDeposit
  /\ balance' = [balance EXCEPT ![token] = @ + amount]
  /\ deposited' = IF token = PayoutToken THEN deposited + amount ELSE deposited
  /\ UNCHANGED <<now, paused, nextClaimId, claims, usedOracleRequestIds,
                 policyRegistry, limits, windowStart, windowTotalPaid,
                 policyOf, timesApproved, timesPaid, verdicts, disbursed,
                 limitedAt, capMax, secondsMin, overridden>>

\* Policy registries change what they answer; lowered coverage is recorded.
AnswersChange ==
  /\ policyOf' \in [Registries -> [PolicyIds -> PolicyViews]]
  /\ overridden' = overridden \cup
       {p \in PolicyIds : \E r \in Registries :
          policyOf'[r][p].coverage < policyOf[r][p].coverage}

PolicyStep ==
  /\ AnswersChange
  /\ UNCHANGED <<now, codeVars, timesApproved, timesPaid, verdicts, deposited,
                 disbursed, limitedAt, capMax, secondsMin>>

\* Time passes, and with it premiums and policies may run out.
Tick ==
  /\ now < MaxTime
  /\ now' = now + 1
  /\ AnswersChange
  /\ UNCHANGED <<codeVars, timesApproved, timesPaid, verdicts, deposited,
                 disbursed, limitedAt, capMax, secondsMin>>
-----------------------------------------------------------------------------
Next ==
  \/ \E a \in Accounts, p \in PolicyIds, n \in Amounts : submitClaim(a, p, n)
  \/ \E c \in ClaimIds, s \in ClaimStatus : setClaimStatus(c, s)
  \/ \E c \in ClaimIds, r \in RequestIds, ok \in BOOLEAN :
       recordOracleVerification(c, r, ok)
  \/ \E c \in ClaimIds : payoutClaim(c)
  \/ \E c \in ClaimIds : releaseStuckPayout(c)
  \/ pause
  \/ unpause
  \/ \E l \in LimitSettings : updateRateLimits(l)
  \/ \E r \in Registries \cup {ZeroAddress} : setPolicyRegistry(r)
  \/ \E t \in Tokens, n \in Transfers : rescueForeignToken(t, n)
  \/ \E t \in Tokens, n \in Transfers : Deposit(t, n)
  \/ PolicyStep
  \/ Tick

Spec == Init /\ [][Next]_vars
-----------------------------------------------------------------------------
(* Properties *)

\* Every transfer to a claimant answers an approval of that claim: however
\* payoutClaim, releaseStuckPayout, the underwriter and the oracle interleave,
\* a claim is paid at most as often as it entered Approved.
OnePaymentPerApproval == \A c \in ClaimIds : timesPaid[c] <= timesApproved[c]

\* The pool is only ever spent on claims: what it holds and what claimants
\* received add up to what was sent to it, rescueForeignToken notwithstanding.
PoolConserved == balance[PayoutToken] + disbursed = deposited

\* An oracle request id decides a claim at most once over the life of the
\* contract, whichever claims it is presented for.
RequestDecidesOnce == \A r \in RequestIds : verdicts[r] <= 1

\* The inductive invariant behind the safety theorems.  Slots below the counter
\* hold claims and the others are empty; an Approved claim has an approval that
\* no payment has used yet; a request id decided exactly when it is marked used.
SlotsInOrder ==
  \A c \in ClaimIds :
    /\ c < nextClaimId => /\ claims[c].claimant \in Accounts
                         /\ claims[c].policyId \in PolicyIds
    /\ c >= nextClaimId => claims[c] = EmptyClaim
ApprovalCredit ==
  \A c \in ClaimIds :
    /\ timesPaid[c] <= timesApproved[c]
    /\ claims[c].status = "Approved" => timesPaid[c] < timesApproved[c]
UsedIffDecided ==
  \A r \in RequestIds :
    verdicts[r] = IF r \in usedOracleRequestIds THEN 1 ELSE 0
RegistryInv ==
  TypeOK /\ SlotsInOrder /\ ApprovalCredit /\ PoolConserved /\ UsedIffDecided

\* Total sent to claimants on one policy.
PaidOn(p) ==
  SumFunctionOnSet([c \in ClaimIds |-> timesPaid[c] * claims[c].amount],
                   policyClaims(p))

\* Claimants on a policy never receive more than its coverage, unless the
\* accounting of submitClaim was overridden: a Rejected claim was revived, a
\* Paid claim was reopened, the coverage was lowered or the registry replaced.
PaidWithinCoverage ==
  \A p \in PolicyIds \ overridden :
    PaidOn(p) > 0 => PaidOn(p) <= policyOf[policyRegistry][p].coverage

\* The inductive invariant behind it.  On a policy whose accounting stands, only
\* a Paid claim was paid, once, and what its claims hold is within the coverage
\* of the registry they were accepted under.  A slot not yet used was not paid.
AccountingStands(p) ==
  /\ \A c \in policyClaims(p) :
       timesPaid[c] <= IF claims[c].status = "Paid" THEN 1 ELSE 0
  /\ consumedCoverage(p) > 0 =>
       /\ policyRegistry \in Registries
       /\ consumedCoverage(p) <= policyOf[policyRegistry][p].coverage
CoverageKept ==
  /\ \A c \in ClaimIds : ~Exists(c) => timesPaid[c] = 0
  /\ \A p \in PolicyIds \ overridden : AccountingStands(p)

\* Amount sent through payoutClaim in the interval t .. t + n - 1.
LimitedIn(t, n) ==
  SumFunctionOnSet(limitedAt, {s \in Time : t <= s /\ s < t + n})

\* The fixed windows of _enforceRateLimit let through at most twice the cap in
\* any interval as long as a window, even when updateRateLimits runs midway.
BurstBound == \A t \in Time : LimitedIn(t, secondsMin) <= 2 * capMax

\* The inductive invariant behind it.  The window's total covers everything paid
\* after its first second, and every interval that reaches into the window holds
\* at most one full window besides it.
PaidSince(t) == SumFunctionOnSet(limitedAt, {s \in Time : t <= s})
WindowKept ==
  /\ windowStart <= now
  /\ limits.perWindow <= capMax /\ secondsMin <= limits.seconds
  /\ windowTotalPaid <= capMax
  /\ \A s \in Time : s > now => limitedAt[s] = 0
  /\ PaidSince(windowStart + 1) <= windowTotalPaid
  /\ \A t \in Time : t + secondsMin > windowStart =>
       PaidSince(t) <= capMax + windowTotalPaid
  /\ BurstBound

\* What submitClaim wrote stays: a claim never disappears and its policy,
\* claimant and amount never change, whoever submits what afterwards.
ClaimTermsFixed ==
  [][\A c \in ClaimIds : Exists(c) =>
       /\ claims'[c].policyId = claims[c].policyId
       /\ claims'[c].claimant = claims[c].claimant
       /\ claims'[c].amount = claims[c].amount]_claims

\* Documented: "Paid (terminal -- cannot be paid again)".  It is not so: an
\* oracle verdict or setClaimStatus takes a Paid claim back to Approved.
PaidAtMostOnce == \A c \in ClaimIds : timesPaid[c] <= 1
=============================================================================
