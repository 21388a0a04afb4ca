------------------------------ MODULE Frontend ------------------------------
(***************************************************************************)
(* The pages of the web application: FileClaim.jsx, ClaimStatus.jsx,       *)
(* BuyPolicy.jsx and Dashboard.jsx with its PremiumStatusBadge.jsx, over   *)
(* the sessions of WalletLogin.                                            *)
(*                                                                         *)
(* The pages followed are those of one tab.  A handler runs on after its   *)
(* page is left; what it then sets is the state of a component that is     *)
(* gone, so only its calls remain.  The variables that hold the state of   *)
(* a page are therefore reset when a page is opened, and a handler that    *)
(* belongs to the open page is named in form, trigger or paying.           *)
(*                                                                         *)
(* The backend is seen as the rows it keeps, the chain as the claims       *)
(* submitted to it and the stablecoin account of the user.                 *)
(***************************************************************************)
EXTENDS WalletLogin, Sequences, SequencesExt

CONSTANTS PageTab,           \* the tab whose pages are followed
          Texts,             \* claim descriptions
          Attempts,          \* submissions of the claim form, each used once
          Claims,            \* backend claim ids that are looked up
          Payments,          \* clicks on Subscribe or Pay Premium, each used once
          Prices,            \* premiumAmountPerPeriod of the plan
          MaxKeys, MaxEffects  \* bounds on lookups and on effect runs

ASSUME PageBounds ==
  /\ PageTab \in Tabs
  /\ None \notin Attempts \cup Claims \cup Payments
  /\ IsFiniteSet(Payments)
  /\ Prices \subseteq Nat
  /\ MaxKeys \in Nat /\ MaxEffects \in Nat

VARIABLES
  page,       \* the page the tab shows
  \* FileClaim
  attempts, form, rows, chain,
  \* ClaimStatus
  claim, key, searches, trigger, madeFor, sent,
  \* BuyPolicy and PremiumStatusBadge.  price is what the next payment would
  \* take: the plan's premium for a subscription, the policy's for a renewal.
  payments, paying, templates, status, loadError, effect, asked, answers,
  price, due, allowance, charged, agreed, paid

claimVars == <<attempts, form, rows, chain>>
statusVars == <<claim, key, searches, trigger, madeFor, sent>>
\* The badge's own state, and the user's account on the chain.
badgeVars == <<status, loadError, effect, asked, answers>>
moneyVars == <<payments, paying, templates, price, due, allowance, charged, agreed, paid>>
pageVars == <<page, claimVars, statusVars, badgeVars, moneyVars>>
vars == <<loginVars, pageVars>>

Root == [salt : Attempts \cup {None}, text : Texts]
Attempt == [pc : {"new", "creating", "submitting-onchain", "done", "failed"},
            root : Root \cup {None}]
Payment == [pc : {"new", "approving", "approved", "done", "failed"},
            kind : {"subscribe", "renew"}, amount : Prices \cup {None}]
\* GET /policies/{id}/status: the premium, whether it has lapsed, and (to
\* compare statuses by age) how many renewals the chain had seen.
PolicyStatus == [amount : Prices, lapsed : BOOLEAN, paid : 0..Cardinality(Payments)]

TypeOK ==
  /\ LoginTypeOK
  /\ page \in {"none", "dashboard", "buy-policy", "file-claim", "claim-status"}
  /\ attempts \in [Attempts -> Attempt] /\ form \in Attempts \cup {None}
  /\ rows \in Seq(Root) /\ chain \in Seq(Root)
  /\ claim \in [id : Claims, submitted : BOOLEAN] \cup {None}
  /\ key \in 0..MaxKeys /\ searches \subseteq Claims
  /\ trigger \in [id : Claims, key : 1..MaxKeys] \cup {None}
  /\ madeFor \in Seq(Claims) /\ Len(madeFor) <= MaxKeys
  /\ sent \subseteq [id : Claims, key : 1..MaxKeys]
  /\ payments \in [Payments -> Payment] /\ paying \in Payments \cup {None}
  /\ templates \in Prices \cup {None}
  /\ status \in PolicyStatus \cup {None} /\ loadError \in BOOLEAN
  /\ effect \in 0..MaxEffects /\ asked \subseteq 1..MaxEffects
  /\ answers \subseteq [effect : 1..MaxEffects, status : PolicyStatus]
  /\ price \in Prices /\ due \in BOOLEAN
  /\ allowance \in Nat /\ charged \in Nat /\ agreed \in Nat
  /\ paid \in 0..Cardinality(Payments)

Init ==
  /\ LoginInit
  /\ page = "none"
  /\ attempts = [j \in Attempts |-> [pc |-> "new", root |-> None]] /\ form = None
  /\ rows = << >> /\ chain = << >>
  /\ claim = None /\ key = 0 /\ searches = {} /\ trigger = None
  /\ madeFor = << >> /\ sent = {}
  /\ payments = [p \in Payments |-> [pc |-> "new", kind |-> "renew", amount |-> None]]
  /\ paying = None /\ templates = None
  /\ status = None /\ loadError = FALSE /\ effect = 0 /\ asked = {} /\ answers = {}
  /\ price \in Prices /\ due \in BOOLEAN
  /\ allowance = 0 /\ charged = 0 /\ agreed = 0 /\ paid = 0
-----------------------------------------------------------------------------
(* Opening a page *)

isAuthenticated == tabs[PageTab].token # None

\* What useState starts with when a page is mounted: nothing is left of the
\* page before, and its requests no longer set anything.
Mount(p) ==
  /\ page' = p
  /\ form' = None
  /\ claim' = None /\ key' = 0 /\ searches' = {} /\ trigger' = None
  /\ paying' = None /\ templates' = None
  /\ status' = None /\ loadError' = FALSE /\ answers' = {}

\* RequireAuth guards every page but BuyPolicy.  The dashboard lists the
\* claims and mounts a badge for each, whose effect asks for the status.
openPage(p) ==
  /\ p \in {"dashboard", "file-claim", "claim-status"} => isAuthenticated
  /\ page # p
  /\ Mount(p)
  /\ IF p = "dashboard"
     THEN effect < MaxEffects /\ effect' = effect + 1 /\ asked' = {effect'}
     ELSE asked' = {} /\ UNCHANGED effect
  /\ UNCHANGED <<loginVars, attempts, rows, chain, madeFor, sent, payments, price,
                 due, allowance, charged, agreed, paid>>

\* Logging out takes the guarded page away.
LogoutOfPage ==
  /\ logout(PageTab)
  /\ Mount(IF page = "buy-policy" THEN page ELSE "none")
  /\ asked' = {}
  /\ UNCHANGED <<attempts, rows, chain, madeFor, sent, payments, effect, price, due,
                 allowance, charged, agreed, paid>>
-----------------------------------------------------------------------------
(* FileClaim.jsx *)

\* 32 random bytes, which no other attempt gets.
generateClaimSalt(j) == j

\* A mutated form: the hash of the description alone.
placeholderMerkleRootUnsalted(text, salt) == [salt |-> None, text |-> text]
\* keccak256(salt, description): equal only if both are.
placeholderMerkleRoot(text, salt) == [salt |-> salt, text |-> text]

handleSubmit(j, text) ==
  /\ page = "file-claim"
  /\ form # None => attempts[form].pc \in {"done", "failed"}
  /\ attempts[j].pc = "new"
  /\ attempts' = [attempts EXCEPT ![j] =
       [pc |-> "creating", root |-> placeholderMerkleRoot(text, generateClaimSalt(j))]]
  /\ form' = j
  /\ UNCHANGED <<loginVars, page, rows, chain, statusVars, badgeVars, moneyVars>>

\* POST /claims, and its answer, which may be lost.
createClaim(j, delivered) ==
  /\ attempts[j].pc = "creating"
  /\ rows' = Append(rows, attempts[j].root)
  /\ attempts' = [attempts EXCEPT ![j].pc =
                    IF delivered THEN "submitting-onchain" ELSE "failed"]
  /\ UNCHANGED <<loginVars, page, form, chain, statusVars, badgeVars, moneyVars>>

\* The transaction is mined; the wait for its receipt may fail all the same.
submitClaimOnChain(j, confirmed) ==
  /\ attempts[j].pc = "submitting-onchain"
  /\ chain' = Append(chain, attempts[j].root)
  /\ attempts' = [attempts EXCEPT ![j].pc = IF confirmed THEN "done" ELSE "failed"]
  /\ UNCHANGED <<loginVars, page, form, rows, statusVars, badgeVars, moneyVars>>

\* The request is refused or lost, the wallet rejects, or the call reverts.
AttemptFails(j) ==
  /\ attempts[j].pc \in {"creating", "submitting-onchain"}
  /\ attempts' = [attempts EXCEPT ![j].pc = "failed"]
  /\ UNCHANGED <<loginVars, page, form, rows, chain, statusVars, badgeVars, moneyVars>>
-----------------------------------------------------------------------------
(* ClaimStatus.jsx *)

\* The Search button is never disabled: several lookups may be under way.
handleSearch(id) ==
  /\ page = "claim-status"
  /\ claim' = None
  /\ searches' = searches \cup {id}
  /\ UNCHANGED <<loginVars, page, claimVars, key, trigger, madeFor, sent, badgeVars,
                 moneyVars>>

\* A mutated form: a key that is there is kept.
NextKeyKept == IF key = 0 THEN Len(madeFor) + 1 ELSE key
\* crypto.randomUUID()
NextKey == Len(madeFor) + 1

\* The answer to a lookup shows the claim and makes a key, in one rendering.
\* submitted is what the row's status is by then.
SearchAnswered(id, submitted) ==
  /\ id \in searches
  /\ Len(madeFor) < MaxKeys
  /\ searches' = searches \ {id}
  /\ claim' = [id |-> id, submitted |-> submitted]
  /\ key' = NextKey
  /\ madeFor' = Append(madeFor, id)
  /\ UNCHANGED <<loginVars, page, claimVars, trigger, sent, badgeVars, moneyVars>>

SearchFails(id) ==
  /\ id \in searches
  /\ searches' = searches \ {id}
  /\ UNCHANGED <<loginVars, page, claimVars, claim, key, trigger, madeFor, sent,
                 badgeVars, moneyVars>>

\* The button is there for a submitted claim, and disabled while verifying.
handleTriggerVerification ==
  /\ claim # None /\ claim.submitted
  /\ trigger = None
  /\ trigger' = [id |-> claim.id, key |-> key]
  /\ sent' = sent \cup {trigger'}
  /\ UNCHANGED <<loginVars, page, claimVars, claim, key, searches, madeFor, badgeVars,
                 moneyVars>>

\* After the answer the claim is fetched again and shown, whatever was looked
\* up meanwhile; the key stays.
Refreshed(submitted) ==
  /\ trigger # None
  /\ claim' = [id |-> trigger.id, submitted |-> submitted]
  /\ trigger' = None
  /\ UNCHANGED <<loginVars, page, claimVars, key, searches, madeFor, sent, badgeVars,
                 moneyVars>>

TriggerFails ==
  /\ trigger # None
  /\ trigger' = None
  /\ UNCHANGED <<loginVars, page, claimVars, claim, key, searches, madeFor, sent,
                 badgeVars, moneyVars>>
-----------------------------------------------------------------------------
(* PremiumStatusBadge.jsx: the status *)

\* The backend reads the chain for a request of the badge.
ReadStatus(e) ==
  /\ e \in asked
  /\ asked' = asked \ {e}
  /\ answers' = answers \cup
       {[effect |-> e, status |-> [amount |-> price, lapsed |-> due, paid |-> paid]]}
  /\ UNCHANGED <<loginVars, page, claimVars, statusVars, status, loadError, effect,
                 moneyVars>>

\* A mutated form: an answer is taken whenever it comes.
LatestAny(e) == TRUE
\* if (!cancelled): the cleanup of an effect runs before the next one.
Latest(e) == e = effect

StatusArrives(a) ==
  /\ a \in answers
  /\ answers' = answers \ {a}
  /\ status' = IF Latest(a.effect) THEN a.status ELSE status
  /\ UNCHANGED <<loginVars, page, claimVars, statusVars, loadError, effect, asked,
                 moneyVars>>

\* The error replaces the badge, and nothing clears it.
StatusFails(e) ==
  /\ e \in asked
  /\ asked' = asked \ {e}
  /\ loadError' = (loadError \/ Latest(e))
  /\ UNCHANGED <<loginVars, page, claimVars, statusVars, status, effect, answers,
                 moneyVars>>
-----------------------------------------------------------------------------
(* Paying: BuyPolicy.jsx, PremiumStatusBadge.jsx and contract.js *)

\* GET /policies/catalog, once per visit of the page; the backend reads the
\* price from the chain.  When the request fails nothing is shown.
getPolicyCatalog ==
  /\ page = "buy-policy" /\ templates = None
  /\ templates' = price
  /\ UNCHANGED <<loginVars, page, claimVars, statusVars, badgeVars, payments, paying,
                 price, due, allowance, charged, agreed, paid>>

Begin(p, kind, amount) ==
  /\ paying = None
  /\ payments[p].pc = "new"
  /\ payments' = [payments EXCEPT ![p] =
                    [pc |-> "approving", kind |-> kind, amount |-> amount]]
  /\ paying' = p
  /\ UNCHANGED <<loginVars, page, claimVars, statusVars, badgeVars, templates, price,
                 due, allowance, charged, agreed, paid>>

\* The Subscribe button of a plan, at the price that is shown.
handleSubscribe(p) == templates # None /\ Begin(p, "subscribe", templates)

\* The Pay Premium button, which a lapsed status shows with its amount.
handlePay(p) ==
  /\ status # None /\ status.lapsed /\ ~loadError
  /\ Begin(p, "renew", status.amount)

\* The handler ends: the page's button is enabled again, if it is still there.
Settle(p) == paying' = IF paying = p THEN None ELSE paying

\* A mutated form: the largest price there is.
approvedAmountAny(p) == CHOOSE n \in Prices : \A m \in Prices : m <= n
\* parseEther(formatEther(wei)): the amount that was shown, in wei.
approvedAmount(p) == payments[p].amount

\* approve replaces the allowance; the wait for the receipt may fail.
approve(p, confirmed) ==
  /\ payments[p].pc = "approving"
  /\ allowance' = approvedAmount(p)
  /\ agreed' = agreed + payments[p].amount
  /\ payments' = [payments EXCEPT ![p].pc = IF confirmed THEN "approved" ELSE "failed"]
  /\ IF confirmed THEN UNCHANGED paying ELSE Settle(p)
  /\ UNCHANGED <<loginVars, page, claimVars, statusVars, badgeVars, templates, price,
                 due, charged, paid>>

\* subscribeToPolicy or payPremium takes the price of the plan as it is by
\* now.  The hash of a confirmed renewal makes the badge's effect run again.
pay(p, confirmed) ==
  LET renewal == payments[p].kind = "renew"
      again == renewal /\ confirmed /\ paying = p
  IN  /\ payments[p].pc = "approved"
      /\ allowance >= price
      /\ again => effect < MaxEffects
      /\ allowance' = allowance - price
      /\ charged' = charged + price
      /\ due' = (due /\ ~renewal)
      /\ paid' = IF renewal THEN paid + 1 ELSE paid
      /\ payments' = [payments EXCEPT ![p].pc = IF confirmed THEN "done" ELSE "failed"]
      /\ Settle(p)
      /\ effect' = IF again THEN effect + 1 ELSE effect
      /\ asked' = IF again THEN asked \cup {effect'} ELSE asked
      /\ UNCHANGED <<loginVars, page, claimVars, statusVars, status, loadError,
                     answers, templates, price, agreed>>

\* A rejection in the wallet, a lost request, or a call that reverts.
PaymentFails(p) ==
  /\ payments[p].pc \in {"approving", "approved"}
  /\ payments' = [payments EXCEPT ![p].pc = "failed"]
  /\ Settle(p)
  /\ UNCHANGED <<loginVars, page, claimVars, statusVars, badgeVars, templates, price,
                 due, allowance, charged, agreed, paid>>

\* Others: an administrator changes the plan, the paid period ends.
ChangePrice(n) ==
  /\ price # n
  /\ price' = n
  /\ UNCHANGED <<loginVars, page, claimVars, statusVars, badgeVars, payments, paying,
                 templates, due, allowance, charged, agreed, paid>>

PremiumLapses ==
  /\ ~due
  /\ due' = TRUE
  /\ UNCHANGED <<loginVars, page, claimVars, statusVars, badgeVars, payments, paying,
                 templates, price, allowance, charged, agreed, paid>>
-----------------------------------------------------------------------------
Next ==
  \/ \E t \in Tabs : LoginStep(t) /\ UNCHANGED pageVars
  \/ \E t \in Tabs \ {PageTab} : logout(t) /\ UNCHANGED pageVars
  \/ \E a \in Accounts : SwitchAccount(a) /\ UNCHANGED pageVars
  \/ \E a \in Accounts : Expire(a) /\ UNCHANGED pageVars
  \/ \E p \in {"dashboard", "buy-policy", "file-claim", "claim-status"} : openPage(p)
  \/ LogoutOfPage
  \/ \E j \in Attempts, text \in Texts : handleSubmit(j, text)
  \/ \E j \in Attempts, delivered \in BOOLEAN : createClaim(j, delivered)
  \/ \E j \in Attempts, confirmed \in BOOLEAN : submitClaimOnChain(j, confirmed)
  \/ \E j \in Attempts : AttemptFails(j)
  \/ \E id \in Claims : handleSearch(id)
  \/ \E id \in Claims, submitted \in BOOLEAN : SearchAnswered(id, submitted)
  \/ \E id \in Claims : SearchFails(id)
  \/ handleTriggerVerification
  \/ \E submitted \in BOOLEAN : Refreshed(submitted)
  \/ TriggerFails
  \/ \E e \in asked : ReadStatus(e)
  \/ \E a \in answers : StatusArrives(a)
  \/ \E e \in asked : StatusFails(e)
  \/ getPolicyCatalog
  \/ \E p \in Payments : handleSubscribe(p)
  \/ \E p \in Payments : handlePay(p)
  \/ \E p \in Payments, confirmed \in BOOLEAN : approve(p, confirmed)
  \/ \E p \in Payments, confirmed \in BOOLEAN : pay(p, confirmed)
  \/ \E p \in Payments : PaymentFails(p)
  \/ \E n \in Prices : ChangePrice(n)
  \/ PremiumLapses

Spec == Init /\ [][Next]_vars
-----------------------------------------------------------------------------
(* Properties *)

\* The merkle root correlates a backend row with a claim on the chain, however
\* often a form is sent again after a failure or sent beside a handler that is
\* still running: no two rows and no two claims have the same root, and every
\* claim on the chain has its row, which was there before it.
RootsCorrelate ==
  /\ IsInjective(rows) /\ IsInjective(chain)
  /\ ToSet(chain) \subseteq ToSet(rows)

\* A claim's verification is asked for under the key that its own lookup made
\* before it is ever asked for under another: lookups that overtake each other
\* cannot put a claim's first request under the key of some other claim, whose
\* stored response it would get.
OwnKeyFirst ==
  \A s \in sent : \E r \in sent : r.id = s.id /\ madeFor[r.key] = s.id

\* The user is never charged more than the amounts the buttons showed, counting
\* what the policy contract may still take, though the price may change between
\* the page's reading, the approval and the payment, and payments may overlap.
SpendIsShown == charged + allowance <= agreed

\* While a badge is on the screen its status never goes back to one read before
\* a renewal it already showed, in whatever order the answers arrive.
BadgeNeverGoesBack ==
  [][status # None /\ status' # None => status'.paid >= status.paid]_status
=============================================================================
