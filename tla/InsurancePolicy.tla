-------------------------- MODULE InsurancePolicy ---------------------------
(***************************************************************************)
(* InsurancePolicy.sol: issued policies, the plan catalogue and premium    *)
(* billing.                                                                *)
(*                                                                         *)
(* One external function is one action; its guard is the negation of every *)
(* revert, including the revert of a premium transfer that exceeds the     *)
(* payer's balance or allowance, which undoes the whole transaction.  Role *)
(* checks are implicit and metadata hashes, which nothing reads, are left  *)
(* out.  The premium token is an external ERC-20 seen through              *)
(* safeTransferFrom: wallet and allowance hold what payers own and let     *)
(* this contract pull.                                                     *)
(***************************************************************************)
EXTENDS Naturals, FiniteSets, FiniteSetsExt

CONSTANTS Accounts, ZeroAddress,     \* callers and holders, and address(0)
          Treasuries,                \* addresses premiums may be sent to
          TemplateIds,
          Coverages, Prices,         \* requested amounts (uint256)
          Spans, GracePeriods,       \* requested durations (uint256)
          AmountModulus,             \* 2^128: amounts are stored as uint128
          TimeModulus,               \* 2^40: times are stored as uint40
          MaxAttempts,               \* 1000: id probes of subscribeToPolicy
          StartTime,                 \* timestamp of the deployment
          MaxPolicies, MaxTime,      \* bounds on policy ids and block time
          MaxSpend                   \* wallet of each account

ASSUME PolicyBounds ==
  /\ MaxPolicies \in Nat /\ MaxTime \in Nat /\ MaxAttempts \in Nat
  /\ MaxSpend \in Nat /\ StartTime \in Nat
  /\ AmountModulus \in Nat \ {0} /\ TimeModulus \in Nat \ {0}
  /\ Coverages \subseteq Nat /\ Prices \subseteq Nat
  /\ Spans \subseteq Nat /\ GracePeriods \subseteq Nat
ASSUME PolicyAddresses == ZeroAddress \notin Accounts \cup Treasuries

PolicyIds == 1..MaxPolicies

Uint128 == 0..(AmountModulus - 1)
Uint40 == 0..(TimeModulus - 1)

Policy == [exists : BOOLEAN, coverage : Uint128,
           holder : Accounts \cup {ZeroAddress},
           validFrom : Uint40, validUntil : Uint40, revoked : BOOLEAN]
Terms == [amount : Uint128, period : Uint40]
Template == [coverage : Uint128, amount : Uint128, period : Uint40,
             term : Uint40, active : BOOLEAN]

EmptyPolicy == [exists |-> FALSE, coverage |-> 0, holder |-> ZeroAddress,
                validFrom |-> 0, validUntil |-> 0, revoked |-> FALSE]
EmptyTemplate == [coverage |-> 0, amount |-> 0, period |-> 0, term |-> 0,
                  active |-> FALSE]

\* The casts truncate without a revert.
uint128(n) == n % AmountModulus
uint40(n) == n % TimeModulus

VARIABLES
  now,               \* block.timestamp
  paused,
  policies,          \* _policies and _exists
  nextPolicyId,
  premiumTreasury,   \* ZeroAddress until setPremiumConfig ran; the premium
                     \* token is set by the same call
  gracePeriod,       \* premiumGracePeriodSeconds
  premiumTerms, premiumPaidUntil,
  policyTemplates,
  wallet, allowance  \* environment: the premium token

\* History variables: no guard reads them.
VARIABLES
  bought, used,      \* per policy: seconds paid for, paid seconds elapsed
  subscribed,        \* policies issued by subscribeToPolicy
  received           \* per policy: premium that reached a treasury

policyVars == <<paused, policies, nextPolicyId, premiumTreasury, gracePeriod,
                premiumTerms, premiumPaidUntil, policyTemplates>>
tokenVars == <<wallet, allowance>>
premiumHist == <<bought, used, subscribed, received>>
vars == <<now, policyVars, tokenVars, premiumHist>>
-----------------------------------------------------------------------------
TypeOK ==
  /\ now \in Nat /\ gracePeriod \in Nat
  /\ paused \in BOOLEAN
  /\ policies \in [PolicyIds -> Policy]
  /\ nextPolicyId \in Nat
  /\ premiumTreasury \in Treasuries \cup {ZeroAddress}
  /\ premiumTerms \in [PolicyIds -> Terms]
  /\ premiumPaidUntil \in [PolicyIds -> Nat]
  /\ policyTemplates \in [TemplateIds -> Template]
  /\ wallet \in [Accounts -> Nat] /\ allowance \in [Accounts -> Nat]
  /\ bought \in [PolicyIds -> Nat] /\ used \in [PolicyIds -> Nat]
  /\ subscribed \subseteq PolicyIds
  /\ received \in [PolicyIds -> Nat]

Init ==
  /\ now = StartTime /\ gracePeriod = 0 /\ paused = FALSE
  /\ policies = [p \in PolicyIds |-> EmptyPolicy]
  /\ nextPolicyId = 1
  /\ premiumTreasury = ZeroAddress
  /\ premiumTerms = [p \in PolicyIds |-> [amount |-> 0, period |-> 0]]
  /\ premiumPaidUntil = [p \in PolicyIds |-> 0]
  /\ policyTemplates = [t \in TemplateIds |-> EmptyTemplate]
  /\ wallet = [a \in Accounts |-> MaxSpend]
  /\ allowance = [a \in Accounts |-> 0]
  /\ bought = [p \in PolicyIds |-> 0] /\ used = [p \in PolicyIds |-> 0]
  /\ subscribed = {}
  /\ received = [p \in PolicyIds |-> 0]
-----------------------------------------------------------------------------
(* Premium billing *)

setPremiumConfig(treasury, grace) ==
  /\ premiumTreasury' = treasury
  /\ gracePeriod' = grace
  /\ UNCHANGED <<now, paused, policies, nextPolicyId, premiumTerms,
                 premiumPaidUntil, policyTemplates, tokenVars, premiumHist>>

setPremiumTerms(p, amount, period) ==
  /\ policies[p].exists
  /\ premiumTerms' = [premiumTerms EXCEPT ![p] =
                        [amount |-> uint128(amount), period |-> uint40(period)]]
  /\ UNCHANGED <<now, paused, policies, nextPolicyId, premiumTreasury,
                 gracePeriod, premiumPaidUntil, policyTemplates, tokenVars,
                 premiumHist>>

\* A mutated form: a late payment is backdated to the lapse.
PaymentBaseBackdated(p) == premiumPaidUntil[p]

\* The later of what is paid for already and now.
PaymentBase(p) ==
  IF premiumPaidUntil[p] > now THEN premiumPaidUntil[p] ELSE now

\* safeTransferFrom succeeds.
CanPull(payer, amount) == amount <= allowance[payer] /\ amount <= wallet[payer]

\* A mutated form: before setPremiumConfig nothing is collected, quietly.
CollectNothing(p, payer, terms) ==
  /\ premiumTreasury = ZeroAddress
  /\ UNCHANGED <<premiumPaidUntil, wallet, allowance, bought, received>>

\* _collectPremium, for the terms in force and the premium token's balances.
collectPremium(p, payer, terms) ==
  /\ premiumTreasury # ZeroAddress
  /\ terms.amount # 0
  /\ CanPull(payer, terms.amount)
  /\ premiumPaidUntil' = [premiumPaidUntil EXCEPT ![p] =
                            PaymentBase(p) + terms.period]
  /\ wallet' = [wallet EXCEPT ![payer] = @ - terms.amount]
  /\ allowance' = [allowance EXCEPT ![payer] = @ - terms.amount]
  /\ bought' = [bought EXCEPT ![p] = @ + terms.period]
  /\ received' = [received EXCEPT ![p] = @ + terms.amount]

payPremium(sender, p) ==
  /\ ~paused
  /\ policies[p].exists
  /\ policies[p].holder = sender
  /\ collectPremium(p, sender, premiumTerms[p])
  /\ UNCHANGED <<now, paused, policies, nextPolicyId, premiumTreasury,
                 gracePeriod, premiumTerms, policyTemplates, used, subscribed>>

\* A mutated form: a policy whose first premium is still open counts as current.
isPremiumCurrentUnbilled(p) ==
  \/ premiumTerms[p].amount = 0 \/ premiumPaidUntil[p] = 0
  \/ now <= premiumPaidUntil[p] + gracePeriod

isPremiumCurrent(p) ==
  \/ premiumTerms[p].amount = 0
  \/ now <= premiumPaidUntil[p] + gracePeriod
-----------------------------------------------------------------------------
(* The plan catalogue *)

\* An existing template is overwritten, and is active again.
addPolicyTemplate(t, coverage, amount, period, term) ==
  /\ ~paused
  /\ policyTemplates' = [policyTemplates EXCEPT ![t] =
       [coverage |-> uint128(coverage), amount |-> uint128(amount),
        period |-> uint40(period), term |-> uint40(term), active |-> TRUE]]
  /\ UNCHANGED <<now, paused, policies, nextPolicyId, premiumTreasury,
                 gracePeriod, premiumTerms, premiumPaidUntil, tokenVars,
                 premiumHist>>

setPolicyTemplateActive(t, active) ==
  /\ policyTemplates[t].amount # 0
  /\ policyTemplates' = [policyTemplates EXCEPT ![t].active = active]
  /\ UNCHANGED <<now, paused, policies, nextPolicyId, premiumTreasury,
                 gracePeriod, premiumTerms, premiumPaidUntil, tokenVars,
                 premiumHist>>

\* A mutated form: the counter is trusted, ids taken by registerPolicy are not
\* skipped.
FreeIdUnchecked(id) == id = nextPolicyId

\* The probe loop: the first id from the counter on that is not taken.
FreeId(id) ==
  /\ nextPolicyId <= id /\ id - nextPolicyId < MaxAttempts
  /\ ~policies[id].exists
  /\ \A i \in PolicyIds : nextPolicyId <= i /\ i < id => policies[i].exists

subscribeToPolicy(sender, t, id) ==
  LET template == policyTemplates[t]
      terms == [amount |-> template.amount, period |-> template.period]
  IN  /\ ~paused
      /\ template.amount # 0
      /\ template.active
      /\ FreeId(id)
      /\ nextPolicyId' = id + 1
      /\ policies' = [policies EXCEPT ![id] =
           [exists |-> TRUE, coverage |-> template.coverage, holder |-> sender,
            validFrom |-> uint40(now), validUntil |-> uint40(now + template.term),
            revoked |-> FALSE]]
      /\ premiumTerms' = [premiumTerms EXCEPT ![id] = terms]
      /\ collectPremium(id, sender, terms)
      /\ subscribed' = subscribed \cup {id}
      /\ UNCHANGED <<now, paused, premiumTreasury, gracePeriod,
                     policyTemplates, used>>
-----------------------------------------------------------------------------
(* Policy management *)

registerPolicy(id, holder, from, until, coverage) ==
  /\ ~paused
  /\ ~policies[id].exists
  /\ holder # ZeroAddress
  /\ until > from
  /\ policies' = [policies EXCEPT ![id] =
       [exists |-> TRUE, coverage |-> uint128(coverage), holder |-> holder,
        validFrom |-> uint40(from), validUntil |-> uint40(until),
        revoked |-> FALSE]]
  /\ UNCHANGED <<now, paused, nextPolicyId, premiumTreasury, gracePeriod,
                 premiumTerms, premiumPaidUntil, policyTemplates, tokenVars,
                 premiumHist>>

revokePolicy(id) ==
  /\ ~paused
  /\ policies[id].exists
  /\ policies' = [policies EXCEPT ![id].revoked = TRUE]
  /\ UNCHANGED <<now, paused, nextPolicyId, premiumTreasury, gracePeriod,
                 premiumTerms, premiumPaidUntil, policyTemplates, tokenVars,
                 premiumHist>>

updateCoverage(id, coverage) ==
  /\ ~paused
  /\ policies[id].exists
  /\ policies' = [policies EXCEPT ![id].coverage = uint128(coverage)]
  /\ UNCHANGED <<now, paused, nextPolicyId, premiumTreasury, gracePeriod,
                 premiumTerms, premiumPaidUntil, policyTemplates, tokenVars,
                 premiumHist>>

pause ==
  /\ ~paused /\ paused' = TRUE
  /\ UNCHANGED <<now, policies, nextPolicyId, premiumTreasury, gracePeriod,
                 premiumTerms, premiumPaidUntil, policyTemplates, tokenVars,
                 premiumHist>>

unpause ==
  /\ paused /\ paused' = FALSE
  /\ UNCHANGED <<now, policies, nextPolicyId, premiumTreasury, gracePeriod,
                 premiumTerms, premiumPaidUntil, policyTemplates, tokenVars,
                 premiumHist>>
-----------------------------------------------------------------------------
(* Views *)

isPolicyActive(id, t) ==
  /\ policies[id].exists /\ ~policies[id].revoked
  /\ policies[id].validFrom <= t /\ t <= policies[id].validUntil

isClaimEligible(id, claimant, amount, t) ==
  /\ isPolicyActive(id, t)
  /\ policies[id].holder = claimant
  /\ amount <= policies[id].coverage
  /\ isPremiumCurrent(id)
-----------------------------------------------------------------------------
(* The environment *)

\* ERC-20 approve, called by the payer on the premium token.
Approve(a, amount) ==
  /\ allowance' = [allowance EXCEPT ![a] = amount]
  /\ UNCHANGED <<now, policyVars, wallet, premiumHist>>

\* A second passes; it is a paid one for every policy paid beyond now.
Tick ==
  /\ now < MaxTime
  /\ now' = now + 1
  /\ used' = [p \in PolicyIds |->
                IF premiumPaidUntil[p] > now THEN used[p] + 1 ELSE used[p]]
  /\ UNCHANGED <<policyVars, tokenVars, bought, subscribed, received>>
-----------------------------------------------------------------------------
Next ==
  \/ \E t \in Treasuries, g \in GracePeriods : setPremiumConfig(t, g)
  \/ \E p \in PolicyIds, n \in Prices, d \in Spans : setPremiumTerms(p, n, d)
  \/ \E a \in Accounts, p \in PolicyIds : payPremium(a, p)
  \/ \E t \in TemplateIds, c \in Coverages, n \in Prices, d, e \in Spans :
       addPolicyTemplate(t, c, n, d, e)
  \/ \E t \in TemplateIds, b \in BOOLEAN : setPolicyTemplateActive(t, b)
  \/ \E a \in Accounts, t \in TemplateIds, p \in PolicyIds :
       subscribeToPolicy(a, t, p)
  \/ \E p \in PolicyIds, a \in Accounts \cup {ZeroAddress}, f, u \in Spans,
        c \in Coverages : registerPolicy(p, a, f, u, c)
  \/ \E p \in PolicyIds : revokePolicy(p)
  \/ \E p \in PolicyIds, c \in Coverages : updateCoverage(p, c)
  \/ pause
  \/ unpause
  \/ \E a \in Accounts, n \in Prices : Approve(a, n)
  \/ Tick

Spec == Init /\ [][Next]_vars
-----------------------------------------------------------------------------
(* Properties *)

\* Paid time of policy p that still lies ahead.
Remaining(p) ==
  IF premiumPaidUntil[p] > now THEN premiumPaidUntil[p] - now ELSE 0

\* Every second bought is either still ahead or was lived through while paid:
\* _collectPremium neither wastes the rest of a period that is paid for
\* already nor backdates a payment made after a lapse, in any order of early
\* payments, late payments, changes of terms and passing time.
PremiumTimeConserved ==
  \A p \in PolicyIds : used[p] + Remaining(p) = bought[p]

\* subscribeToPolicy never leaves a policy half issued: every policy it issued
\* exists and its first premium has reached the treasury.
SubscribedIsPaid ==
  \A p \in subscribed : policies[p].exists /\ received[p] > 0

\* An issued policy keeps its holder and its validity interval, and stays
\* revoked once revoked, no matter which ids registerPolicy and the counter of
\* subscribeToPolicy hand out later.
IssuedTermsFixed ==
  [][\A p \in PolicyIds : policies[p].exists =>
       /\ policies'[p].exists
       /\ policies'[p].holder = policies[p].holder
       /\ policies'[p].validFrom = policies[p].validFrom
       /\ policies'[p].validUntil = policies[p].validUntil
       /\ policies[p].revoked => policies'[p].revoked]_policies
=============================================================================
