----------------------- MODULE InsurancePolicyProofs ------------------------
(***************************************************************************)
(* Theorems about the policy contract, and about the registry in front of  *)
(* it, for every value of the constants.                                   *)
(*                                                                         *)
(* Of the policy contract alone, the inductive invariant is PremiumInv.    *)
(* Of the two contracts together: each of them behaves as its own          *)
(* specification says (PlatformImplementsBoth), so PremiumInv carries      *)
(* over; CoverIsPaid and RegistryStands relate the one to the other.       *)
(***************************************************************************)
EXTENDS ClaimsPlatform, Sums, TLAPS

PremiumInv == TypeOK /\ PremiumTimeConserved /\ SubscribedIsPaid

\* The casts of the contract yield values of the narrow types.
LEMMA Casts == \A n \in Nat : uint128(n) \in Uint128 /\ uint40(n) \in Uint40
  BY PolicyBounds DEF uint128, uint40, Uint128, Uint40

\* The narrow integer types hold natural numbers.
LEMMA NarrowIsNatural == Uint128 \subseteq Nat /\ Uint40 \subseteq Nat
  BY PolicyBounds DEF Uint128, Uint40

\* What a premium payment does to the accounts of one policy, whether it is a
\* renewal or the first payment of a subscription.
LEMMA CollectPreserves ==
  ASSUME PremiumInv, NEW p \in PolicyIds, NEW payer \in Accounts,
         NEW terms \in Terms, collectPremium(p, payer, terms),
         now' = now, used' = used
  PROVE  /\ premiumPaidUntil' \in [PolicyIds -> Nat]
         /\ wallet' \in [Accounts -> Nat] /\ allowance' \in [Accounts -> Nat]
         /\ bought' \in [PolicyIds -> Nat] /\ received' \in [PolicyIds -> Nat]
         /\ received'[p] > 0
         /\ \A q \in PolicyIds : received'[q] >= received[q]
         /\ PremiumTimeConserved'
<1> USE DEF PremiumInv
<1>1. /\ now \in Nat /\ terms.amount \in Nat /\ terms.period \in Nat
      /\ premiumPaidUntil \in [PolicyIds -> Nat]
      /\ wallet \in [Accounts -> Nat] /\ allowance \in [Accounts -> Nat]
      /\ bought \in [PolicyIds -> Nat] /\ used \in [PolicyIds -> Nat]
      /\ received \in [PolicyIds -> Nat]
  BY NarrowIsNatural DEF TypeOK, Terms
<1>2. /\ terms.amount # 0
      /\ terms.amount <= allowance[payer] /\ terms.amount <= wallet[payer]
      /\ premiumPaidUntil' = [premiumPaidUntil EXCEPT ![p] =
                                PaymentBase(p) + terms.period]
      /\ wallet' = [wallet EXCEPT ![payer] = @ - terms.amount]
      /\ allowance' = [allowance EXCEPT ![payer] = @ - terms.amount]
      /\ bought' = [bought EXCEPT ![p] = @ + terms.period]
      /\ received' = [received EXCEPT ![p] = @ + terms.amount]
  BY DEF collectPremium, CanPull
<1>3. PaymentBase(p) \in Nat
  BY <1>1 DEF PaymentBase
<1>4. /\ premiumPaidUntil' \in [PolicyIds -> Nat]
      /\ bought' \in [PolicyIds -> Nat] /\ received' \in [PolicyIds -> Nat]
  BY <1>1, <1>2, <1>3
<1>5. wallet' \in [Accounts -> Nat] /\ allowance' \in [Accounts -> Nat]
  BY <1>1, <1>2
<1>6. received'[p] > 0 /\ \A q \in PolicyIds : received'[q] >= received[q]
  BY <1>1, <1>2
<1>7. PremiumTimeConserved'
  <2> SUFFICES ASSUME NEW q \in PolicyIds
               PROVE  used[q] + Remaining(q)' = bought'[q]
    BY DEF PremiumTimeConserved
  <2>1. used[q] + Remaining(q) = bought[q]
    BY DEF PremiumTimeConserved
  <2>2. CASE q = p
    BY <1>1, <1>2, <2>1, <2>2 DEF Remaining, PaymentBase
  <2>3. CASE q # p
    BY <1>1, <1>2, <2>1, <2>3 DEF Remaining
  <2>4. QED
    BY <2>2, <2>3
<1>8. QED
  BY <1>4, <1>5, <1>6, <1>7

\* A step that leaves the premium accounts alone keeps the invariant if it keeps
\* the types of the rest and every issued policy.
LEMMA AccountsUntouched ==
  ASSUME PremiumInv, UNCHANGED <<now, premiumPaidUntil, premiumHist>>,
         TypeOK', \A p \in PolicyIds : policies[p].exists => policies'[p].exists
  PROVE  PremiumInv'
<1>1. PremiumTimeConserved'
  BY DEF PremiumInv, PremiumTimeConserved, Remaining, premiumHist
<1>2. SubscribedIsPaid'
  BY DEF PremiumInv, SubscribedIsPaid, premiumHist, TypeOK
<1>3. QED
  BY <1>1, <1>2 DEF PremiumInv

\* A newly issued policy record has the type of a policy.
LEMMA IssueTyped ==
  ASSUME TypeOK, NEW id \in PolicyIds, NEW holder \in Accounts,
         NEW c \in Uint128, NEW f \in Uint40, NEW u \in Uint40,
         policies' = [policies EXCEPT ![id] =
           [exists |-> TRUE, coverage |-> c, holder |-> holder,
            validFrom |-> f, validUntil |-> u, revoked |-> FALSE]]
  PROVE  /\ policies' \in [PolicyIds -> Policy]
         /\ \A p \in PolicyIds : policies[p].exists => policies'[p].exists
         /\ policies'[id].exists
<1>1. [exists |-> TRUE, coverage |-> c, holder |-> holder,
       validFrom |-> f, validUntil |-> u, revoked |-> FALSE] \in Policy
  BY DEF Policy
<1>2. policies \in [PolicyIds -> Policy]
  BY DEF TypeOK
<1>3. QED
  BY <1>1, <1>2

\* The contract as deployed, with nothing issued and nothing paid.
LEMMA PremiumInit == Init => PremiumInv
<1> SUFFICES ASSUME Init PROVE PremiumInv
  OBVIOUS
<1> USE PolicyBounds DEF Init
<1>1. EmptyPolicy \in Policy /\ EmptyTemplate \in Template
  BY DEF EmptyPolicy, Policy, EmptyTemplate, Template, Uint128, Uint40
<1>2. policies \in [PolicyIds -> Policy]
      /\ policyTemplates \in [TemplateIds -> Template]
  BY <1>1
<1>3. premiumTerms \in [PolicyIds -> Terms]
  BY DEF Terms, Uint128, Uint40
<1>4. paused \in BOOLEAN
  OBVIOUS
<1>5. TypeOK
  BY <1>2, <1>3, <1>4 DEF TypeOK
<1>6. PremiumTimeConserved
  BY DEF PremiumTimeConserved, Remaining
<1>7. SubscribedIsPaid
  BY DEF SubscribedIsPaid
<1>8. QED
  BY <1>5, <1>6, <1>7 DEF PremiumInv

\* Every action of the contract and its environment preserves the invariant.
LEMMA PremiumStep == PremiumInv /\ [Next]_vars => PremiumInv'
<1> SUFFICES ASSUME PremiumInv, [Next]_vars PROVE PremiumInv'
  OBVIOUS
<1> USE PolicyBounds
<1>0. TypeOK
  BY DEF PremiumInv
<1>1. ASSUME NEW t \in Treasuries, NEW g \in GracePeriods,
             setPremiumConfig(t, g)
      PROVE  PremiumInv'
  <2>1. TypeOK'
    BY <1>0, <1>1 DEF setPremiumConfig, TypeOK, tokenVars, premiumHist
  <2>2. QED
    BY <1>1, <2>1, AccountsUntouched DEF setPremiumConfig
<1>2. ASSUME NEW p \in PolicyIds, NEW n \in Prices, NEW d \in Spans,
             setPremiumTerms(p, n, d)
      PROVE  PremiumInv'
  <2>1. [amount |-> uint128(n), period |-> uint40(d)] \in Terms
    BY Casts DEF Terms
  <2>2. TypeOK'
    BY <1>0, <1>2, <2>1 DEF setPremiumTerms, TypeOK, tokenVars, premiumHist
  <2>3. QED
    BY <1>2, <2>2, AccountsUntouched DEF setPremiumTerms
<1>3. ASSUME NEW a \in Accounts, NEW p \in PolicyIds, payPremium(a, p)
      PROVE  PremiumInv'
  <2>1. premiumTerms[p] \in Terms
    BY <1>0 DEF TypeOK
  <2>2. /\ collectPremium(p, a, premiumTerms[p])
        /\ UNCHANGED <<now, paused, policies, nextPolicyId, premiumTreasury,
                       gracePeriod, premiumTerms, policyTemplates, used,
                       subscribed>>
    BY <1>3 DEF payPremium
  <2>3. /\ premiumPaidUntil' \in [PolicyIds -> Nat]
        /\ wallet' \in [Accounts -> Nat] /\ allowance' \in [Accounts -> Nat]
        /\ bought' \in [PolicyIds -> Nat] /\ received' \in [PolicyIds -> Nat]
        /\ \A q \in PolicyIds : received'[q] >= received[q]
        /\ PremiumTimeConserved'
    BY <2>1, <2>2, CollectPreserves
  <2>4. TypeOK'
    BY <1>0, <2>2, <2>3 DEF TypeOK
  <2>5. SubscribedIsPaid'
    BY <1>0, <2>2, <2>3 DEF PremiumInv, SubscribedIsPaid, TypeOK
  <2>6. QED
    BY <2>3, <2>4, <2>5 DEF PremiumInv
<1>4. ASSUME NEW t \in TemplateIds, NEW c \in Coverages, NEW n \in Prices,
             NEW d \in Spans, NEW e \in Spans, addPolicyTemplate(t, c, n, d, e)
      PROVE  PremiumInv'
  <2>1. [coverage |-> uint128(c), amount |-> uint128(n), period |-> uint40(d),
         term |-> uint40(e), active |-> TRUE] \in Template
    BY Casts DEF Template
  <2>2. TypeOK'
    BY <1>0, <1>4, <2>1 DEF addPolicyTemplate, TypeOK, tokenVars, premiumHist
  <2>3. QED
    BY <1>4, <2>2, AccountsUntouched DEF addPolicyTemplate
<1>5. ASSUME NEW t \in TemplateIds, NEW b \in BOOLEAN,
             setPolicyTemplateActive(t, b)
      PROVE  PremiumInv'
  <2>1. policyTemplates' \in [TemplateIds -> Template]
    BY <1>0, <1>5 DEF setPolicyTemplateActive, TypeOK, Template
  <2>2. TypeOK'
    BY <1>0, <1>5, <2>1
    DEF setPolicyTemplateActive, TypeOK, tokenVars, premiumHist
  <2>3. QED
    BY <1>5, <2>2, AccountsUntouched DEF setPolicyTemplateActive
<1>6. ASSUME NEW a \in Accounts, NEW t \in TemplateIds, NEW p \in PolicyIds,
             subscribeToPolicy(a, t, p)
      PROVE  PremiumInv'
  <2> DEFINE template == policyTemplates[t]
             terms == [amount |-> template.amount, period |-> template.period]
  <2>1. /\ template.coverage \in Uint128 /\ template.term \in Nat
        /\ terms \in Terms /\ now \in Nat /\ p \in Nat
    <3>1. template \in Template /\ now \in Nat /\ p \in Nat
      BY <1>0 DEF TypeOK, PolicyIds
    <3>2. /\ template.coverage \in Uint128 /\ template.amount \in Uint128
          /\ template.period \in Uint40 /\ template.term \in Uint40
      BY <3>1 DEF Template
    <3>3. QED
      BY <3>1, <3>2, NarrowIsNatural DEF Terms
  <2>2. /\ nextPolicyId' = p + 1
        /\ policies' = [policies EXCEPT ![p] =
             [exists |-> TRUE, coverage |-> template.coverage, holder |-> a,
              validFrom |-> uint40(now),
              validUntil |-> uint40(now + template.term), revoked |-> FALSE]]
        /\ premiumTerms' = [premiumTerms EXCEPT ![p] = terms]
        /\ collectPremium(p, a, terms)
        /\ subscribed' = subscribed \cup {p}
        /\ UNCHANGED <<now, paused, premiumTreasury, gracePeriod,
                       policyTemplates, used>>
    BY <1>6 DEF subscribeToPolicy
  <2>3. /\ premiumPaidUntil' \in [PolicyIds -> Nat]
        /\ wallet' \in [Accounts -> Nat] /\ allowance' \in [Accounts -> Nat]
        /\ bought' \in [PolicyIds -> Nat] /\ received' \in [PolicyIds -> Nat]
        /\ received'[p] > 0
        /\ \A q \in PolicyIds : received'[q] >= received[q]
        /\ PremiumTimeConserved'
    BY <2>1, <2>2, CollectPreserves
  <2>4. uint40(now) \in Uint40 /\ uint40(now + template.term) \in Uint40
    BY <2>1, Casts
  <2>5. /\ policies' \in [PolicyIds -> Policy]
        /\ \A q \in PolicyIds : policies[q].exists => policies'[q].exists
        /\ policies'[p].exists
    BY <1>0, <2>1, <2>2, <2>4, IssueTyped
  <2>6. TypeOK'
    <3>1. nextPolicyId' \in Nat
      BY <2>1, <2>2
    <3>2. premiumTerms' \in [PolicyIds -> Terms]
      BY <1>0, <2>1, <2>2 DEF TypeOK
    <3>3. subscribed' \subseteq PolicyIds
      BY <1>0, <2>2 DEF TypeOK
    <3>4. /\ now' = now /\ gracePeriod' = gracePeriod /\ paused' = paused /\ used' = used
          /\ premiumTreasury' = premiumTreasury /\ policyTemplates' = policyTemplates
      BY <2>2
    <3>5. QED
      BY <1>0, <2>3, <2>5, <3>1, <3>2, <3>3, <3>4 DEF TypeOK
  <2>7. SubscribedIsPaid'
    BY <1>0, <2>2, <2>3, <2>5 DEF PremiumInv, SubscribedIsPaid, TypeOK
  <2>8. QED
    BY <2>3, <2>6, <2>7 DEF PremiumInv
<1>7. ASSUME NEW p \in PolicyIds, NEW a \in Accounts \cup {ZeroAddress},
             NEW f \in Spans, NEW u \in Spans, NEW c \in Coverages,
             registerPolicy(p, a, f, u, c)
      PROVE  PremiumInv'
  <2>1. a \in Accounts /\ uint128(c) \in Uint128 /\ uint40(f) \in Uint40
        /\ uint40(u) \in Uint40
    BY <1>7, Casts DEF registerPolicy
  <2>2. /\ policies' \in [PolicyIds -> Policy]
        /\ \A q \in PolicyIds : policies[q].exists => policies'[q].exists
    BY <1>0, <1>7, <2>1, IssueTyped DEF registerPolicy
  <2>3. TypeOK'
    BY <1>0, <1>7, <2>2 DEF registerPolicy, TypeOK, tokenVars, premiumHist
  <2>4. QED
    BY <1>7, <2>2, <2>3, AccountsUntouched DEF registerPolicy
<1>8. ASSUME NEW p \in PolicyIds, NEW c \in Coverages,
             updateCoverage(p, c)
      PROVE  PremiumInv'
  <2>1. uint128(c) \in Uint128 /\ policies \in [PolicyIds -> Policy]
    BY <1>0, Casts DEF TypeOK
  <2>2. /\ policies' \in [PolicyIds -> Policy]
        /\ \A q \in PolicyIds : policies[q].exists => policies'[q].exists
    BY <1>8, <2>1 DEF updateCoverage, Policy
  <2>3. TypeOK'
    BY <1>0, <1>8, <2>2
    DEF updateCoverage, TypeOK, tokenVars, premiumHist
  <2>4. QED
    BY <1>8, <2>2, <2>3, AccountsUntouched DEF updateCoverage
<1>9. CASE pause \/ unpause
  <2>1. paused' \in BOOLEAN
    BY <1>9 DEF pause, unpause
  <2>2. UNCHANGED <<now, policies, nextPolicyId, premiumTreasury, gracePeriod,
                    premiumTerms, premiumPaidUntil, policyTemplates, tokenVars,
                    premiumHist>>
    BY <1>9 DEF pause, unpause
  <2>3. TypeOK'
    BY <1>0, <2>1, <2>2 DEF TypeOK, tokenVars, premiumHist
  <2>4. QED
    BY <2>2, <2>3, AccountsUntouched
<1>10. ASSUME NEW a \in Accounts, NEW n \in Prices, Approve(a, n)
       PROVE  PremiumInv'
  <2>1. TypeOK'
    BY <1>0, <1>10 DEF Approve, TypeOK, policyVars, premiumHist
  <2>2. QED
    BY <1>10, <2>1, AccountsUntouched DEF Approve, policyVars
<1>11. CASE Tick
  <2>1. /\ now \in Nat /\ now' = now + 1
        /\ premiumPaidUntil \in [PolicyIds -> Nat]
        /\ used \in [PolicyIds -> Nat] /\ bought \in [PolicyIds -> Nat]
        /\ used' = [p \in PolicyIds |->
                      IF premiumPaidUntil[p] > now THEN used[p] + 1 ELSE used[p]]
        /\ UNCHANGED <<policyVars, tokenVars, bought, subscribed, received>>
    BY <1>0, <1>11 DEF Tick, TypeOK
  <2>2. used' \in [PolicyIds -> Nat]
    BY <2>1
  <2>3. TypeOK'
    BY <1>0, <2>1, <2>2 DEF TypeOK, policyVars, tokenVars
  <2>4. PremiumTimeConserved'
    BY <2>1 DEF PremiumInv, PremiumTimeConserved, Remaining, policyVars
  <2>5. SubscribedIsPaid'
    BY <2>1 DEF PremiumInv, SubscribedIsPaid, policyVars
  <2>6. QED
    BY <2>3, <2>4, <2>5 DEF PremiumInv
<1>12. CASE UNCHANGED vars
  BY <1>12 DEF vars, policyVars, tokenVars, premiumHist, PremiumInv, TypeOK,
               PremiumTimeConserved, Remaining, SubscribedIsPaid
<1>13. ASSUME NEW p \in PolicyIds, revokePolicy(p)
       PROVE  PremiumInv'
  <2>1. policies \in [PolicyIds -> Policy]
    BY <1>0 DEF TypeOK
  <2>2. /\ policies' \in [PolicyIds -> Policy]
        /\ \A q \in PolicyIds : policies[q].exists => policies'[q].exists
    BY <1>13, <2>1 DEF revokePolicy, Policy
  <2>3. TypeOK'
    BY <1>0, <1>13, <2>2 DEF revokePolicy, TypeOK, tokenVars, premiumHist
  <2>4. QED
    BY <1>13, <2>2, <2>3, AccountsUntouched DEF revokePolicy
<1>14. QED
  BY <1>1, <1>2, <1>3, <1>4, <1>5, <1>6, <1>7, <1>8, <1>9, <1>10, <1>11,
     <1>12, <1>13
  DEF Next

\* The inductive invariant holds in every reachable state.
THEOREM PremiumInvariant == Spec => []PremiumInv
<1>1. QED
  BY PremiumInit, PremiumStep, PTL DEF Spec

\* Every variable of the contract's model keeps its type.
THEOREM PolicyTypeCorrect == Spec => []TypeOK
<1>1. PremiumInv => TypeOK
  BY DEF PremiumInv
<1>2. QED
  BY <1>1, PremiumInvariant, PTL

\* No payment of a premium is wasted or backdated.
THEOREM PremiumTimeIsConserved == Spec => []PremiumTimeConserved
<1>1. PremiumInv => PremiumTimeConserved
  BY DEF PremiumInv
<1>2. QED
  BY <1>1, PremiumInvariant, PTL

\* A subscription is issued and paid in one step or not at all.
THEOREM SubscriptionsArePaid == Spec => []SubscribedIsPaid
<1>1. PremiumInv => SubscribedIsPaid
  BY DEF PremiumInv
<1>2. QED
  BY <1>1, PremiumInvariant, PTL

\* What an issued policy keeps over a step.
Keeps(p) ==
  /\ policies'[p].exists
  /\ policies'[p].holder = policies[p].holder
  /\ policies'[p].validFrom = policies[p].validFrom
  /\ policies'[p].validUntil = policies[p].validUntil
  /\ policies[p].revoked => policies'[p].revoked

\* A record written under a free id leaves the issued policies as they are.
LEMMA FreshIdKeeps ==
  ASSUME TypeOK, NEW id \in PolicyIds, ~policies[id].exists, NEW new,
         policies' = [policies EXCEPT ![id] = new],
         NEW p \in PolicyIds, policies[p].exists
  PROVE  Keeps(p)
<1>1. p # id
  OBVIOUS
<1>2. policies'[p] = policies[p]
  BY <1>1 DEF TypeOK
<1>3. QED
  BY <1>2 DEF Keeps

\* Every step keeps every issued policy.
LEMMA StepKeeps ==
  ASSUME TypeOK, [Next]_vars, NEW p \in PolicyIds, policies[p].exists
  PROVE  Keeps(p)
<1>1. CASE UNCHANGED policies
  BY <1>1 DEF Keeps
<1>2. ASSUME NEW a \in Accounts, NEW t \in TemplateIds, NEW id \in PolicyIds,
             subscribeToPolicy(a, t, id)
      PROVE  Keeps(p)
  <2>1. /\ ~policies[id].exists
        /\ \E new : policies' = [policies EXCEPT ![id] = new]
    BY <1>2 DEF subscribeToPolicy, FreeId
  <2>2. QED
    BY <2>1, FreshIdKeeps
<1>3. ASSUME NEW id \in PolicyIds, NEW a \in Accounts \cup {ZeroAddress},
             NEW f \in Spans, NEW u \in Spans, NEW c \in Coverages,
             registerPolicy(id, a, f, u, c)
      PROVE  Keeps(p)
  <2>1. /\ ~policies[id].exists
        /\ \E new : policies' = [policies EXCEPT ![id] = new]
    BY <1>3 DEF registerPolicy
  <2>2. QED
    BY <2>1, FreshIdKeeps
<1>4. ASSUME NEW id \in PolicyIds, revokePolicy(id)
      PROVE  Keeps(p)
  <2>1. policies \in [PolicyIds -> Policy]
    BY DEF TypeOK
  <2>2. QED
    BY <1>4, <2>1 DEF revokePolicy, Keeps, Policy
<1>5. ASSUME NEW id \in PolicyIds, NEW c \in Coverages, updateCoverage(id, c)
      PROVE  Keeps(p)
  <2>1. policies \in [PolicyIds -> Policy]
    BY DEF TypeOK
  <2>2. QED
    BY <1>5, <2>1 DEF updateCoverage, Keeps, Policy
<1>6. \/ UNCHANGED policies
      \/ \E a \in Accounts, t \in TemplateIds, id \in PolicyIds :
           subscribeToPolicy(a, t, id)
      \/ \E id \in PolicyIds, a \in Accounts \cup {ZeroAddress},
           f \in Spans, u \in Spans, c \in Coverages :
           registerPolicy(id, a, f, u, c)
      \/ \E id \in PolicyIds : revokePolicy(id)
      \/ \E id \in PolicyIds, c \in Coverages : updateCoverage(id, c)
  BY DEF Next, vars, policyVars, setPremiumConfig, setPremiumTerms, payPremium,
         addPolicyTemplate, setPolicyTemplateActive, pause, unpause, Approve,
         Tick
<1>7. QED
  BY <1>1, <1>2, <1>3, <1>4, <1>5, <1>6

\* Neither a subscription nor a registration ever takes over an issued policy,
\* whichever ids the manager and the counter choose.
THEOREM IssuedPoliciesStay == Spec => IssuedTermsFixed
<1>1. TypeOK /\ [Next]_vars =>
        [\A p \in PolicyIds : policies[p].exists => Keeps(p)]_policies
  BY StepKeeps
<1>2. [\A p \in PolicyIds : policies[p].exists => Keeps(p)]_policies =>
        [\A p \in PolicyIds : policies[p].exists =>
           /\ policies'[p].exists
           /\ policies'[p].holder = policies[p].holder
           /\ policies'[p].validFrom = policies[p].validFrom
           /\ policies'[p].validUntil = policies[p].validUntil
           /\ policies[p].revoked => policies'[p].revoked]_policies
  BY DEF Keeps
<1>3. QED
  BY <1>1, <1>2, PolicyTypeCorrect, PTL DEF Spec, IssuedTermsFixed
-----------------------------------------------------------------------------
(* The platform: the policy contract with the registry that consults it *)

\* Whatever happens on the platform happens within the rules of either contract.
LEMMA StepsImplementBoth ==
  /\ PlatformInit => Init /\ Registry!Init
  /\ [PlatformNext]_platformVars => [Next]_vars /\ [Registry!Next]_Registry!vars
<1>1. PlatformInit => Init /\ Registry!Init
  BY DEF PlatformInit
<1>2. ASSUME PolicySide, Registry!PolicyStep
      PROVE  Next /\ Registry!Next
  <2>1. Registry!Next
    BY <1>2 DEF Registry!Next
  <2>2. ASSUME NEW t \in TemplateIds, NEW plan \in Plans,
               addPolicyTemplate(t, plan.coverage, plan.amount, plan.period, plan.term)
        PROVE  Next
    <3>1. /\ plan.coverage \in Coverages /\ plan.amount \in Prices
          /\ plan.period \in Spans /\ plan.term \in Spans
      BY PlansAreArguments
    <3> QED BY <2>2, <3>1 DEF Next
  <2>3. PolicySide => Next
    BY <2>2 DEF PolicySide, Next
  <2> QED BY <1>2, <2>1, <2>3
<1>3. ASSUME UNCHANGED vars, RegistrySide
      PROVE  Registry!Next
  BY <1>3 DEF RegistrySide, Registry!Next
<1>4. ASSUME Tick, Registry!Tick
      PROVE  Next /\ Registry!Next
  BY <1>4 DEF Next, Registry!Next
<1>5. ASSUME UNCHANGED platformVars
      PROVE  UNCHANGED vars /\ UNCHANGED Registry!vars
  <2>1. UNCHANGED vars /\ UNCHANGED registrySide
    BY <1>5 DEF platformVars
  <2>2. UNCHANGED <<now, policies, premiumTerms, premiumPaidUntil, gracePeriod>>
    BY <2>1 DEF vars, policyVars
  <2>3. \A p : PolicyView(p)' = PolicyView(p)
    BY <2>2 DEF PolicyView, isPremiumCurrent
  <2> QED BY <2>1, <2>2, <2>3
          DEF registrySide, Registry!vars, Registry!codeVars, Registry!histVars
<1> QED BY <1>1, <1>2, <1>3, <1>4, <1>5 DEF PlatformNext

\* The composition is faithful to its parts: each contract, seen alone, behaves as
\* its own module says, the registry with the policy contract's answers for those it
\* was allowed to get from any policy registry.
THEOREM PlatformImplementsBoth == PlatformSpec => Spec /\ Registry!Spec
BY StepsImplementBoth, PTL DEF PlatformSpec, Spec, Registry!Spec

\* A sum in the registry's module is a sum.
LEMMA RegistrySums ==
  \A f, S : Registry!SumFunctionOnSet(f, S) = SumFunctionOnSet(f, S)
  BY DEF Registry!SumFunctionOnSet, SumFunctionOnSet, Registry!FoldFunctionOnSet,
         FoldFunctionOnSet, Registry!MapThenFoldSet, MapThenFoldSet

\* The policy contract counts no policy as paid that was not: the deployment is
\* later than any grace period, and cover only ever comes from a payment.
CoverIsPaid ==
  /\ now >= StartTime /\ gracePeriod < StartTime
  /\ \A p \in PolicyIds : premiumPaidUntil[p] # 0 => received[p] > 0

\* The registry keeps its policy contract and holds claims.
RegistryStands ==
  /\ policyRegistry = PolicyContract
  /\ nextClaimId \in Nat \ {0}
  /\ claims \in [Registry!ClaimIds -> Registry!Claim]

\* Nothing is covered at first.
LEMMA CoverInit == Init => CoverIsPaid
  BY PolicyBounds, GraceIsShort DEF Init, CoverIsPaid

\* A payment is received with the cover it buys, and time only passes.
LEMMA CoverStep == PremiumInv /\ CoverIsPaid /\ [Next]_vars => CoverIsPaid'
<1> SUFFICES ASSUME PremiumInv, CoverIsPaid, [Next]_vars PROVE CoverIsPaid'
  OBVIOUS
<1>1. /\ now \in Nat /\ premiumPaidUntil \in [PolicyIds -> Nat]
      /\ received \in [PolicyIds -> Nat] /\ policyTemplates \in [TemplateIds -> Template]
      /\ premiumTerms \in [PolicyIds -> Terms]
  BY DEF PremiumInv, TypeOK
<1>2. ASSUME NEW p \in PolicyIds, NEW payer, NEW terms, terms.amount \in Nat,
             collectPremium(p, payer, terms), UNCHANGED <<now, gracePeriod>>
      PROVE  CoverIsPaid'
  <2>1. /\ terms.amount # 0 /\ received' = [received EXCEPT ![p] = @ + terms.amount]
        /\ premiumPaidUntil' = [premiumPaidUntil EXCEPT ![p] = PaymentBase(p) + terms.period]
    BY <1>2 DEF collectPremium
  <2>2. ASSUME NEW q \in PolicyIds, premiumPaidUntil'[q] # 0
        PROVE  received'[q] > 0
    <3>1. CASE q = p
      BY <1>1, <1>2, <2>1, <3>1
    <3>2. CASE q # p
      BY <1>1, <2>1, <2>2, <3>2 DEF CoverIsPaid
    <3> QED BY <3>1, <3>2
  <2> QED BY <1>2, <2>2 DEF CoverIsPaid
<1>3. ASSUME NEW a \in Accounts, NEW p \in PolicyIds, payPremium(a, p)
      PROVE  CoverIsPaid'
  <2>1. premiumTerms[p].amount \in Nat
    BY <1>1, NarrowIsNatural DEF Terms
  <2> QED BY <1>2, <1>3, <2>1 DEF payPremium
<1>4. ASSUME NEW a \in Accounts, NEW t \in TemplateIds, NEW p \in PolicyIds,
             subscribeToPolicy(a, t, p)
      PROVE  CoverIsPaid'
  <2> DEFINE terms == [amount |-> policyTemplates[t].amount, period |-> policyTemplates[t].period]
  <2>1. collectPremium(p, a, terms) /\ UNCHANGED <<now, gracePeriod>>
    BY <1>4 DEF subscribeToPolicy
  <2>2. policyTemplates[t].amount \in Nat
    BY <1>1, NarrowIsNatural DEF Template
  <2>3. terms.amount \in Nat
    BY <2>2
  <2> HIDE DEF terms
  <2> QED BY <1>2, <2>1, <2>3
<1>5. ASSUME NEW t \in Treasuries, NEW g \in GracePeriods, setPremiumConfig(t, g)
      PROVE  CoverIsPaid'
  BY <1>5, GraceIsShort DEF setPremiumConfig, CoverIsPaid, premiumHist
<1>6. CASE Tick
  BY <1>1, <1>6, PolicyBounds DEF Tick, CoverIsPaid, policyVars
<1>7. CASE UNCHANGED <<now, gracePeriod, premiumPaidUntil, received>>
  BY <1>7 DEF CoverIsPaid
<1>8. \/ UNCHANGED <<now, gracePeriod, premiumPaidUntil, received>>
      \/ \E a \in Accounts, p \in PolicyIds : payPremium(a, p)
      \/ \E a \in Accounts, t \in TemplateIds, p \in PolicyIds : subscribeToPolicy(a, t, p)
      \/ \E t \in Treasuries, g \in GracePeriods : setPremiumConfig(t, g)
      \/ Tick
  BY DEF Next, vars, policyVars, premiumHist, setPremiumTerms, addPolicyTemplate,
         setPolicyTemplateActive, registerPolicy, revokePolicy, updateCoverage, pause,
         unpause, Approve
<1> QED BY <1>3, <1>4, <1>5, <1>6, <1>7, <1>8

\* The registry as deployed with the policy contract.
LEMMA RegistryInit == PlatformInit => RegistryStands
<1>1. Registry!EmptyClaim \in Registry!Claim
  BY PlatformBounds DEF Registry!EmptyClaim, Registry!Claim, Registry!ClaimStatus
<1> QED BY <1>1 DEF PlatformInit, Registry!Init, RegistryStands

\* A change of status leaves a claim a claim.
LEMMA StatusKeepsClaims ==
  ASSUME RegistryStands, NEW c \in Registry!ClaimIds, NEW s \in Registry!ClaimStatus,
         claims' = [claims EXCEPT ![c].status = s]
  PROVE  claims' \in [Registry!ClaimIds -> Registry!Claim]
<1>1. claims \in [Registry!ClaimIds -> Registry!Claim]
  BY DEF RegistryStands
<1>2. [claims[c] EXCEPT !.status = s] \in Registry!Claim
  BY <1>1 DEF Registry!Claim
<1> QED BY <1>1, <1>2

\* What a step that files a claim has checked.
Files(a, p, n) ==
  /\ Registry!PolicyAccepts(PolicyView(p), a)
  /\ Registry!consumedCoverage(p) + n <= PolicyView(p).coverage
  /\ nextClaimId' = nextClaimId + 1
  /\ claims' = [claims EXCEPT ![nextClaimId] =
       [policyId |-> p, claimant |-> a, amount |-> n % ClaimAmountModulus,
        status |-> "Submitted"]]

\* Only submitClaim files claims, and nothing replaces the policy contract.
LEMMA RegistryStep ==
  ASSUME RegistryStands, [PlatformNext]_platformVars
  PROVE  /\ RegistryStands'
         /\ \/ nextClaimId' = nextClaimId
            \/ /\ nextClaimId \in Registry!ClaimIds
               /\ \E a \in Accounts, p \in PolicyIds, n \in Amounts : Files(a, p, n)
<1>1. CASE UNCHANGED <<policyRegistry, nextClaimId, claims>>
  BY <1>1 DEF RegistryStands
<1>2. ASSUME NEW a \in Accounts, NEW p \in PolicyIds, NEW n \in Amounts,
             Registry!submitClaim(a, p, n)
      PROVE  /\ RegistryStands' /\ nextClaimId \in Registry!ClaimIds
             /\ Files(a, p, n)
  <2>1. PolicyView(p) = [r \in {PolicyContract} |-> [q \in PolicyIds |-> PolicyView(q)]][policyRegistry][p]
    BY DEF RegistryStands
  <2>2. /\ Files(a, p, n) /\ UNCHANGED policyRegistry /\ nextClaimId <= MaxClaims
    BY <1>2, <2>1 DEF Registry!submitClaim, Files, Registry!NextId, Registry!uint96
  <2>3. nextClaimId \in Nat \ {0} /\ n \in Nat /\ claims \in [Registry!ClaimIds -> Registry!Claim]
    BY PlatformBounds DEF RegistryStands
  <2>4. n % ClaimAmountModulus \in 0..(ClaimAmountModulus - 1)
    BY <2>3, PlatformBounds
  <2>5. [policyId |-> p, claimant |-> a, amount |-> n % ClaimAmountModulus, status |-> "Submitted"]
          \in Registry!Claim
    BY <2>4 DEF Registry!Claim, Registry!ClaimStatus
  <2>6. claims' \in [Registry!ClaimIds -> Registry!Claim]
    BY <2>2, <2>3, <2>5 DEF Files
  <2> QED BY <2>2, <2>3, <2>6 DEF RegistryStands, Files, Registry!ClaimIds
<1>3. ASSUME NEW c \in Registry!ClaimIds, NEW st \in Registry!ClaimStatus,
             claims' = [claims EXCEPT ![c].status = st],
             UNCHANGED <<policyRegistry, nextClaimId>>
      PROVE  RegistryStands' /\ nextClaimId' = nextClaimId
  BY <1>3, StatusKeepsClaims DEF RegistryStands
<1>4. ASSUME NEW c \in Registry!ClaimIds, NEW st \in Registry!ClaimStatus,
             Registry!setClaimStatus(c, st)
      PROVE  RegistryStands' /\ nextClaimId' = nextClaimId
  BY <1>3, <1>4 DEF Registry!setClaimStatus, Registry!setStatus
<1>5. ASSUME NEW c \in Registry!ClaimIds, NEW r \in RequestIds, NEW ok \in BOOLEAN,
             Registry!recordOracleVerification(c, r, ok)
      PROVE  RegistryStands' /\ nextClaimId' = nextClaimId
  <2>1. PICK st \in Registry!ClaimStatus : claims' = [claims EXCEPT ![c].status = st]
    BY <1>5 DEF Registry!recordOracleVerification, Registry!setStatus, Registry!ClaimStatus
  <2> QED BY <1>3, <1>5, <2>1 DEF Registry!recordOracleVerification
<1>6. ASSUME NEW c \in Registry!ClaimIds, Registry!payoutClaim(c) \/ Registry!releaseStuckPayout(c)
      PROVE  RegistryStands' /\ nextClaimId' = nextClaimId
  <2>1. "Paid" \in Registry!ClaimStatus /\ Registry!settle(c)
    BY <1>6 DEF Registry!ClaimStatus, Registry!payoutClaim, Registry!releaseStuckPayout
  <2>2. claims' = [claims EXCEPT ![c].status = "Paid"]
    BY <2>1 DEF Registry!settle
  <2> QED BY <1>3, <1>6, <2>1, <2>2 DEF Registry!payoutClaim, Registry!releaseStuckPayout
<1>7. ASSUME \/ Registry!PolicyStep \/ Registry!Tick \/ UNCHANGED platformVars
             \/ \E t \in Tokens, n \in Transfers : Registry!Deposit(t, n)
      PROVE  UNCHANGED <<policyRegistry, nextClaimId, claims>>
  BY <1>7 DEF Registry!PolicyStep, Registry!Tick, Registry!codeVars, Registry!Deposit,
              platformVars, registrySide
<1>8. CASE RegistrySide
  BY <1>1, <1>2, <1>4, <1>5, <1>6, <1>7, <1>8 DEF RegistrySide
<1> QED BY <1>1, <1>7, <1>8 DEF PlatformNext

\* The coverage used up on a policy is a number.
LEMMA ConsumedIsNumber ==
  ASSUME RegistryStands, NEW p \in PolicyIds
  PROVE  Registry!consumedCoverage(p) \in Nat
<1> DEFINE S == {c \in Registry!policyClaims(p) : claims[c].status # "Rejected"}
<1>1. IsFiniteSet(Registry!ClaimIds) /\ S \subseteq Registry!ClaimIds
  BY FS_Interval, PlatformBounds DEF Registry!ClaimIds, Registry!policyClaims
<1>2. IsFiniteSet(S)
  BY <1>1, FS_Subset
<1>3. \A c \in S : Registry!AmountOf[c] \in Nat
  BY <1>1, PlatformBounds DEF Registry!AmountOf, RegistryStands, Registry!Claim
<1>4. Registry!consumedCoverage(p) = SumFunctionOnSet(Registry!AmountOf, S)
  BY RegistrySums DEF Registry!consumedCoverage
<1> HIDE DEF S
<1> QED BY <1>2, <1>3, <1>4, SumAdd

\* What is true of a claim when it is filed.
LEMMA FiledClaim ==
  ASSUME PremiumInv, CoverIsPaid, RegistryStands, [PlatformNext]_platformVars,
         NEW c \in NewClaims
  PROVE  LET p == claims'[c].policyId
         IN  /\ isClaimEligible(p, claims'[c].claimant, claims'[c].amount, now)
             /\ premiumTerms[p].amount # 0 => received[p] > 0
<1>1. c \in Registry!ClaimIds /\ c >= nextClaimId /\ c < nextClaimId' /\ c \in Nat
  BY PlatformBounds DEF NewClaims, Registry!ClaimIds
<1>2. nextClaimId \in Nat /\ claims \in [Registry!ClaimIds -> Registry!Claim]
  BY DEF RegistryStands
<1>3. PICK a \in Accounts, p \in PolicyIds, n \in Amounts :
        nextClaimId \in Registry!ClaimIds /\ Files(a, p, n)
  BY <1>1, <1>2, RegistryStep
<1>4. c = nextClaimId
  BY <1>1, <1>2, <1>3 DEF Files
<1>5. claims'[c].policyId = p /\ claims'[c].claimant = a /\ claims'[c].amount = n % ClaimAmountModulus
  BY <1>2, <1>3, <1>4 DEF Files
<1>6. /\ policies[p].exists /\ ~policies[p].revoked
      /\ policies[p].validFrom <= now /\ now <= policies[p].validUntil
      /\ policies[p].holder = a /\ isPremiumCurrent(p)
      /\ Registry!consumedCoverage(p) + n <= policies[p].coverage
  BY <1>3 DEF Files, Registry!PolicyAccepts, PolicyView
<1>7. /\ policies \in [PolicyIds -> Policy] /\ premiumTerms \in [PolicyIds -> Terms]
      /\ premiumPaidUntil \in [PolicyIds -> Nat] /\ now \in Nat /\ gracePeriod \in Nat
  BY DEF PremiumInv, TypeOK
<1>8. policies[p].coverage \in Nat /\ n \in Nat /\ Registry!consumedCoverage(p) \in Nat
  BY <1>7, NarrowIsNatural, ConsumedIsNumber, PlatformBounds DEF Policy
<1>9. n % ClaimAmountModulus \in Nat /\ n % ClaimAmountModulus <= n
  BY <1>8, PlatformBounds
<1>10. n % ClaimAmountModulus <= policies[p].coverage
  BY <1>6, <1>8, <1>9
<1>11. isClaimEligible(p, a, n % ClaimAmountModulus, now)
  BY <1>6, <1>10 DEF isClaimEligible, isPolicyActive
<1>12. premiumTerms[p].amount # 0 => received[p] > 0
  <2>1. SUFFICES ASSUME premiumTerms[p].amount # 0 PROVE premiumPaidUntil[p] # 0
    BY DEF CoverIsPaid
  <2>2. now <= premiumPaidUntil[p] + gracePeriod
    BY <1>6, <2>1 DEF isPremiumCurrent
  <2> QED BY <1>7, <2>2, PolicyBounds DEF CoverIsPaid
<1> QED BY <1>5, <1>11, <1>12

\* The invariants of the platform hold throughout.
LEMMA PlatformInvariant ==
  PlatformSpec => [](PremiumInv /\ CoverIsPaid /\ RegistryStands)
<1>1. RegistryStands /\ [PlatformNext]_platformVars => RegistryStands'
  BY RegistryStep
<1>2. PlatformInit => Init
  BY StepsImplementBoth
<1>3. [PlatformNext]_platformVars => [Next]_vars
  BY StepsImplementBoth
<1> QED BY <1>1, <1>2, <1>3, RegistryInit, PremiumInit, PremiumStep, CoverInit, CoverStep, PTL
        DEF PlatformSpec

\* The two contracts never disagree about a claim: submitClaim accepts only what the
\* policy contract's isClaimEligible accepts at that moment.
THEOREM ContractsAgree == PlatformSpec => AcceptedIsEligible
<1> DEFINE A == \A c \in NewClaims :
                  isClaimEligible(claims'[c].policyId, claims'[c].claimant,
                                  claims'[c].amount, now)
<1>1. PremiumInv /\ CoverIsPaid /\ RegistryStands /\ [PlatformNext]_platformVars => [A]_nextClaimId
  BY FiledClaim
<1> HIDE DEF A
<1>2. PlatformSpec => [][A]_nextClaimId
  BY <1>1, PlatformInvariant, PTL DEF PlatformSpec
<1> QED BY <1>2 DEF A, AcceptedIsEligible

\* On a policy that is billed, submitClaim accepts a claim only after a premium for
\* it has reached the treasury.
THEOREM NoClaimWithoutPremium == PlatformSpec => ClaimsArePaidFor
<1> DEFINE A == \A c \in NewClaims :
                  LET p == claims'[c].policyId
                  IN  premiumTerms[p].amount # 0 => received[p] > 0
<1>1. PremiumInv /\ CoverIsPaid /\ RegistryStands /\ [PlatformNext]_platformVars => [A]_nextClaimId
  BY FiledClaim
<1> HIDE DEF A
<1>2. PlatformSpec => [][A]_nextClaimId
  BY <1>1, PlatformInvariant, PTL DEF PlatformSpec
<1> QED BY <1>2 DEF A, ClaimsArePaidFor
=============================================================================
