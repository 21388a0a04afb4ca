# DICS v2: a TLA+ verification project

DICS v2 is an insurance-claims platform. Policies, claims, oracle verdicts and
payouts live in Solidity contracts; services around them index the chain, keep
claim records, ask an oracle for verdicts and store documents. This directory
models the parts that decide about money and about what the rest of the platform
believes, checks them with TLC on small instances and proves with TLAPS, for every
value of the constants, every property that the passing runs check, two excepted (section 4.4).

Every definition is translated from the source; `PROJECT.json` maps each one to
its file and lines.

## 1. The system

### 1.1 Parts, state and operations

| Part | State | Operations | Modelled by |
|---|---|---|---|
| `ClaimRegistry.sol` | claims mapping and id counter, used oracle request ids, rate-limit window, pause flag, configuration, token balances | `submitClaim`, `setClaimStatus`, `recordOracleVerification`, `payoutClaim`, `releaseStuckPayout`, pause/unpause, `updateRateLimits`, `setPolicyRegistry`, `rescueForeignToken` | `ClaimRegistry` |
| `InsurancePolicy.sol` | policies, id counter, premium terms and paid-until times, plan templates, treasury and grace period | `registerPolicy`, `subscribeToPolicy`, `payPremium`, `setPremiumTerms`, `setPremiumConfig`, templates, `revokePolicy`, `updateCoverage`, pause/unpause; views `getPolicy`, `isPremiumCurrent`, `isClaimEligible` | `InsurancePolicy` |
| `OracleAdapter.sol` | used request ids, sink address, validity window, signers, pause flag | `submitVerification` and its administration | `OracleAdapter` (in front of `ClaimRegistry`) |
| registry and policy contract together | the above, one clock | a claim reads the policy at the moment of the transaction | `ClaimsPlatform` |
| `Vault.sol`, `StableCoin.sol`, `PriceOracle.sol` | positions, supply, balances, price, risk parameters | deposit, withdraw, mint, repay, liquidate, administration | `Vault` |
| indexer (Node.js) | Postgres: `onchain_events`, `onchain_claims`, `onchain_policies`, `indexer_checkpoints`; memory: the scan in progress | `scanContract`, the handlers, `reportClaimEvent`, checkpoints | `Indexer` |
| backend claim routes and webhook (FastAPI) | `claims`, `idempotency_keys` | `create_claim`, `trigger_verification`, `receive_onchain_event` | `ClaimVerification` |
| oracle service (Node.js) | none of its own | `POST /verify`: evaluate, sign, relay | `ClaimVerification`, `OracleAdapter` |
| wallet login (backend `auth.py`, frontend `AuthContext`) | `wallet_nonces`; per tab the account, the token and the login under way | nonce and token endpoints; `login`, `connect`, `signMessage`, `logout` | `WalletLogin` |
| frontend pages (React) | per page the form, the claim and key shown, the premium status; nothing outlives a page but its running handlers | file a claim, look a claim up and verify it, subscribe, pay a premium | `Frontend` |
| backend policy routes | none (reads of the chain) | catalogue, premium status | `Frontend`, as the pages receive them |
| Safe scripts and KMS signer (`safe-ops`) | `.env` of the operators, the Safe's owners, threshold and nonce; per run what it has read | six scripts: deploy, create, grant, propose, add and remove owner; KMS answers to signatures | `KmsSigner`, `SafeOps` |
| `ClaimGasPaymaster.sol` | sponsored gas per sender and day, the cap | validate, postOp, set the cap | `ClaimGasPaymaster` |
| notification service (Go) | last warning per policy, in memory | `checkOnce` | planned (section 9) |
| underwriter service (Java), document service (C#) | indexer tables, stored files | work list; Merkle root of documents | planned in part |
| governance wiring, Besu network, Terraform, Ansible | | | not modelled (section 8) |

### 1.2 How the parts interact

```
 frontend --- create_claim / trigger_verification ---> backend --- POST /verify ---> oracle service
    |                                                    ^                                |
    | submitClaim                                        | webhook                        | signed response
    v                                                    |                                v
 ClaimRegistry <---- recordOracleVerification ---- OracleAdapter <------------- submitVerification
    |     ^                                              |
    |     +-- setClaimStatus (underwriter)            indexer  <--- logs of both contracts
    v
 InsurancePolicy (getPolicy, isPremiumCurrent)
```

Contracts interact by synchronous calls inside one transaction. The indexer reads
logs and tells the backend over HTTP. The backend calls the oracle service, which
relays the verdict on the chain before it answers. Nothing else couples them: the
backend's row of a claim and the claim on the chain are connected only by the
merkle root and, from the first webhook on, by the on-chain id.

A tab of the frontend talks to the backend, to the wallet extension (one selected
account for all tabs) and, through it, to the contracts. A handler awaits several
of them in turn and runs on after its page is left. Operators reach the registry
through a Safe: a script reads the Safe, derives the owners' addresses from their KMS
keys, has the RPC endpoint sign for these addresses and executes, while other
operators run scripts of their own.

### 1.3 What is hard here

* **Sequences of legal transactions.** The registry has no transition table; an
  underwriter or the oracle may set any status at any time. What then limits what
  a claim can cost is a matter of several steps by several actors.
* **Time.** Fixed windows of a rate limit, premium periods, grace, validity
  windows of signatures and of policies.
* **Reverts half-way.** Contracts write state before an external call; the revert
  must undo it.
* **Awaits.** The indexer and the backend read, wait and write. Between the read
  and the write the chain grows or reorganises, another request runs, a webhook
  arrives, the process dies.
* **Delivery.** The webhook is at most once; the oracle call may have happened
  although the caller saw a time-out.
* **Handlers and scripts side by side.** Two tabs share an address and its nonce row;
  answers overtake each other; a page is left while its handler goes on; two
  operators change the owners of one Safe.
* **Encodings.** KMS answers in DER, with numbers shortened or sign-padded, and
  leaves out the parity that an Ethereum signature needs.
* **Integer edges.** Amounts narrowed to `uint96` and `uint128`, times to
  `uint40`, fixed-point ratios with truncating divisions.

`PROJECT.json` lists the hazards one by one with the properties that would catch
them.

## 2. Modules

| Module | Contents |
|---|---|
| `ClaimRegistry` | the claim contract; policies seen through the two views it calls |
| `OracleAdapter` | extends `ClaimRegistry` by the adapter in front of it |
| `ClaimRegistryProofs` | theorems about the registry, about the adapter and about both |
| `InsurancePolicy` | the policy contract |
| `ClaimsPlatform` | extends `InsurancePolicy` by an instance of `ClaimRegistry` on the same clock, whose `policyOf` is computed from the policy contract's state |
| `InsurancePolicyProofs` | theorems about the policy contract and about the two contracts together |
| `Vault`, `ClaimGasPaymaster` | vault, stable coin and price oracle; the paymaster behind an EntryPoint that handles bundles |
| `VaultProofs` | theorems about both |
| `Indexer`, `IndexerProofs` | the scan, one step per await; theorems |
| `ClaimVerification`, `VerificationProofs` | backend requests, oracle service and webhook, one step per await; theorems |
| `WalletLogin`, `Frontend`, `FrontendProofs` | signing in from several tabs; the pages of one tab on top of it; theorems |
| `KmsSigner` | derUtils.js and kmsSigner.js as operators on byte sequences |
| `SafeOps`, `SafeOpsProofs` | the scripts of several operators, over `KmsSigner`; theorems for any number of them |
| `Sums` | lemmas about sums over finite sets, which the theorems about money use |
| `MC*` | values of the constants for TLC |

Conventions. A transaction commits or reverts as a whole, so an external function is
one action and its guard is the negation of every revert, those of called
contracts and of token transfers included. Role checks are implicit: an action
behind `onlyRole` is taken by some holder of the role. Merkle roots (in the
contracts), time stamps that nothing reads, and events are left out of the
contract modules. History variables are declared apart and no guard reads them,
except that a bound may cap one (`MaxApprovals`, `MaxDeposit`). A definition
introduced as "a mutated form" is the plausible mistake against which a property
is tried; the specification never uses it.

### 2.1 ClaimRegistry

`claims` is a function over all slots `1..MaxClaims`; an empty slot reads as
zeroes, as a Solidity mapping does, so "claim not found" is
`claimant = ZeroAddress`, as in the code. `policyClaims` (an array per policy in
the code) is derived. `Claim.amount` is stored `% AmountModulus` (a `uint96`)
after the checks were made on the untruncated argument. `policyOf[r][p]` is what
the policy registry `r` would answer now; `PolicyStep` and `Tick` change the
answers arbitrarily within `PolicyViews`, which over-approximates every policy
contract; `ClaimsPlatform` removes the over-approximation.

`overridden` records the policies whose coverage accounting was set aside by an
administrator: a Rejected claim was revived, a Paid claim reopened, the coverage
lowered or the registry replaced. Coverage is consumed by every claim that is not
Rejected, and `setClaimStatus` does not look at it again; without the exception the
bound on payments is false, and the exception is exactly the set of acts that the
code leaves to people.

### 2.2 InsurancePolicy

Time and amounts are truncated (`uint40`, `uint128`) where the code casts.
`subscribeToPolicy` looks for a free id from its counter on (`FreeId`), past ids
that `registerPolicy` took. Premium payments start at the end of the paid period
or now, whichever is later (`PaymentBase`). The history variables `bought` and
`used` count seconds of premium paid for and lived through.

### 2.3 OracleAdapter

A response is a record whose `signer` is the address that `ECDSA.recover`
yields; any response may be submitted any number of times, so replay and late
relay are ordinary inputs. `claimRegistry` may point at the modelled registry or
elsewhere; a call of the modelled registry is a guard (a revert undoes the relay).
The registry's own operations are interleaved. The module extends `ClaimRegistry`, so
what is proved of the registry carries over (`SafeBehindTheAdapter`).

### 2.4 ClaimsPlatform

The module extends `InsurancePolicy` and has `Registry == INSTANCE ClaimRegistry WITH
policyOf <- (what the policy contract's views return in this state)`. A step is a step
of the policy contract, seen by the registry as `PolicyStep`, or one of the registry,
which leaves policies alone, or a tick of the common clock.

### 2.5 Vault

All three contracts in one module as their states are tied by invariants.
`PriceUnit` and `BpsUnit` are the fixed-point units (1e18 and 10 000), and the
divisions truncate as in Solidity.

### 2.6 Indexer

`pc` names the await the scan is at: `scan` (`getBlockNumber` and the checkpoint
query), `fetch` (`getLogs`), `log` (the insert into `onchain_events`), `mirror`
(the handler's write), `report` (the webhook). `Fail` strikes at any of them:
either an exception that ends the pass or a crash; in both cases Postgres keeps
what was committed and the next pass starts with the policy contract.
`AbortsScan` is the set of events on which decoding or storing throws every time; the
other events without a handler are passed over. Both configurations give it the value
`ThrowsAsCommitted`, which is what the committed code throws on: every event that is not
in the ABI fragments (`StuckPayoutReleased`, and those that change no status, `NoStatus`:
`RoleGranted`, `Initialized`, `Upgraded`, `Paused`, settings, premiums, plans), and
`ClaimStatusChanged` (section 7). `getLogs` is a
recursive function on block numbers; the expected row of an item (`StatusAfter`) is
read off the highest stored block that names it. The chain is the
environment: it grows, and it falls back by up to `MaxReorg` blocks.

### 2.7 ClaimVerification

A request is a slot with its own session; `loaded` is the status its session read,
because SQLAlchemy writes a column only if it differs from what was loaded. The
call to the oracle service outlives the request that made it. A call ends
`relayed`, `unconfirmed` (decided on the chain, but waiting for the receipt
failed) or `refused`. `store_response` looks the key up in one step and inserts in
another (`InsertResponse`), as idempotency.py:34-42 does: a response stored in between
makes the commit raise on the primary key and the request end with a 500 (`conflict`).
The webhook's select and its commit are two steps as well (`receive_onchain_event`,
`CommitEvent`), so a verdict can be committed between them. `Payloads` is the set of field names a webhook body may have:
those the endpoint requires and those the indexer's source sends.

### 2.8 WalletLogin and Frontend

`WalletLogin` takes one step per await: the wallet's answers, the load and the commit of
either endpoint. A commit writes the columns that differ from what the session
loaded, so `used = False` in `generate_nonce` is no write if the session saw False. A
nonce is its number; a signature is the pair of nonce and signer. The history
variables are `judged`, the nonces a login was verified against, and `disturbed`, the
tabs during whose login somebody else wrote the row or it expired.

`Frontend` follows the pages of one tab. The state of a page is reset when a page is
opened; a handler that outlives its page keeps its calls and loses its `set...`.
The backend's status answer is taken at one moment (`ReadStatus`) and arrives at
another. `price` stands for the plan's premium and for the policy's, as one payment
uses one of them. At most one lookup per claim is in flight. Field validation of the
forms is left out.

### 2.9 KmsSigner and SafeOps

A byte is a number below `Base`, a scalar has `Width` bytes; the code has 256 and 32.
The encoder is KMS's (external), the decoder is derUtils.js. An exception is the
empty sequence. Hashes are injective, so a digest is the data with the name of the
scheme, and `recoverAddress` returns the key's address for the two equivalent forms
of its signature.

A run of a script reads its `.env` once; each await is a step and may fail. The Safe
contract, protocol-kit and the RPC endpoint are external, modelled as the scripts rely
on them. protocol-kit's reads of owners (`addOwner`, `removeOwner`), threshold
(`checkThreshold`) and nonce (`getNonce`) are awaits of their own. signAndExecute.js hands
it an address and the RPC URL, so a signature comes from the endpoint, for the
`Accounts` it holds, and `signTransactionBy` fails for any other address. `execTransaction`
wants the Safe's nonce, a quorum of present owners, and what the Safe itself checks of a
change of owners (GS201, GS204, GS205). `KmsSigner` supplies the addresses; its signing
methods are operators, and no script reaches them (section 8).

### 2.10 ClaimGasPaymaster

`bundle` holds the operations that the EntryPoint has validated and not yet
executed, each with its context. Validation writes nothing; `postOp` records the
cost it is told. It runs under a gas limit chosen by the sender; when it reverts or
runs out of gas nothing of it stays, and it is not called again (`PostOpReverted`). The
state is what the contract records, not what the EntryPoint takes from its deposit
(section 7). `highestCap` is history of the current day.

## 3. Runs

Nine runs pass; three show a disagreement between the code and what the repository
says about it.

| Run | Question | Distinct states |
|---|---|---|
| `registry_life` | Can any order of submissions, verdicts, payouts, releases, deposits, rescues and policy changes pay a claim without an approval, overspend the coverage or lose money of the pool; how much can leave through `payoutClaim` in an interval as long as the window, while `updateRateLimits` runs midway? | 1.1 M |
| `policy` | Is premium time neither wasted nor backdated; is every subscription paid; is an issued policy ever overwritten? | 2.2 M |
| `oracle` | Do the two layers of replay protection agree under replay, revert and switching of the sink? | 0.15 M |
| `platform` | With the real policy contract: is everything accepted eligible and paid for? | 0.3 M |
| `indexer` | Across failures at each await and shallow reorganisations: is a log ever skipped, told twice or applied out of order; how far does the scan get? | 1.5 M |
| `verification` | With two concurrent requests, time-outs, lost answers and webhooks: what does the idempotency key give, and can a row show something that did not happen; what becomes of two that store their response at a time? | 6.7 M |
| `vault` | Do supply and debt, and held and recorded collateral, stay equal; does a rounding favour the borrower or the liquidator? Beside it the paymaster: by how much can the record of a day pass the cap? | 1.4 M |
| `safe` | Can concurrent scripts lock the underwriters out of their Safe or collect signatures that do not suffice; is every KMS answer translated? | 2.2 M |
| `frontend` | Do interleaved logins give back a spent nonce or a token for the wrong account; do rows and claims correlate after retries; can a payment take more than was shown? | 0.96 M |
| `registry_repaid` | (violation) "Paid (terminal - cannot be paid again)" | |
| `indexer_rescan` | (violation) "Re-scanning an already-processed block range (e.g. after a restart) is safe" | |
| `verification_claimid` | (violation) the oracle evaluates "this claim" | |

### 3.1 Bounds and why they suffice

* `registry_life`: two claims on one policy are what interference through coverage
  needs; amounts 2 and 5 with a modulus of 4 make one amount truncate; two
  approvals of a claim allow a second payment; two deposits allow a pool too small
  for the second. The two answers of the policy registry are valid now, and valid
  from the next second with less coverage; overdue premiums are left to `platform`.
  A behaviour is either such a life or one claim that is approved and paid three
  times over four seconds under three settings of cap and window, the zero-length
  window included (`EitherScenario`).
* `policy`: two ids, so that a registered policy lies in the way of the counter;
  free and priced plans; times wrap at 3, so that a cast truncates.
* `oracle`: two request ids and one claim; windows of 0 and 1 seconds over two
  seconds give fresh, expired and future responses.
* `platform`: one policy id and two claims of the full coverage each, with a pool that
  could pay both; spans of 0 and 2 seconds and a plan whose policies end with the
  second they were issued in, so that a claim can come too early, in time and too
  late.
* `indexer`: four blocks in chunks of two with three logs, two failures and one
  reorganisation; the safety margin equals the deepest reorganisation. A margin
  smaller than that is the mutant that breaks `StoredIsFinal`. As the committed code
  throws on every `ClaimStatusChanged`, the rows that the run sees are those of
  `ClaimSubmitted`, `PolicyRegistered` and `PolicyRevoked`; the theorems hold for every
  `AbortsScan`, the code with that mistake repaired included.
* `verification`: two requests, one key, two rows and two on-chain claims, so that
  ids can differ; three webhook calls. Requests and roots are symmetric (no
  property or action tells them apart, and all properties of the run are
  invariants).
* `vault`: two users, three units of collateral each, four prices with zero, two
  settings of the risk parameters. Both units are 2, so that the truncation of
  each division happens. The paymaster shares only the users, so one of the two
  contracts stays as deployed (`OneContract`); bundles of three operations over two
  days, with operations that cost almost as much as the cap and postOps that fail.
* `safe`: two operators (symmetric) and three keys. Base 8, width 2 and order 61 give
  numbers of one and two digits, with and without a sign byte, and an order around
  whose half `s` can lie; with 2 bytes per number the length of a whole signature
  takes the long form. `SignaturesAreCanonical` is evaluated for every `r`, `s` and parity
  and for all three methods of the signer. The endpoint holds every employee's account;
  with fewer, runs only fail earlier. The setup is done once (`SetupOnce`) and two Safe
  transactions are executed.
* `frontend`: two tabs, two accounts and three nonces for the logins; two submissions
  of the form, two claims under three keys, two payments at two prices, three runs
  of the badge's effect. The three groups of pages share only the session, so a
  behaviour uses one of them, or none and has both tabs sign in (`OnePart`).

Deadlock is checked except in the runs of `ClaimVerification` and in `frontend`, where
every slot of a request, a form or a payment is used once and the system may come to
rest.

What is proved for every instance is not always repeated by a run: the types of
`ClaimRegistry`, `InsurancePolicy`, `OracleAdapter` and `SafeOps`, `RequestDecidesOnce` and
`ClaimTermsFixed`.

### 3.2 Fairness

Only `indexer` uses fairness: weak fairness of the indexer's own steps. `mainLoop`
never ends, an exception is caught and the next pass starts, and every await
settles with a result or an exception. Neither the chain nor failures are fair;
failures are bounded, so a pass eventually runs undisturbed. `CatchesUp` says how far the
committed code gets: each contract is indexed to the safe head, or up to the chunk that
holds the first log its scan cannot read. Such a log of the claims contract never holds
up the policies; one of the policy contract, which is scanned first, holds up both.

## 4. What is proved

### 4.1 Theorems

Each line is a theorem that holds for every value of the constants: for any number of
claims, policies, users, logs, blocks, requests, tabs, operators and keys, and any
bound on time.

| Theorem | States |
|---|---|
| `ClaimRegistryProofs` | |
| `TypeCorrect` | the type invariant |
| `PaymentsNeedApprovals` | a claim is paid at most as often as it entered Approved |
| `PoolIsConserved` | pool and payments add up to deposits |
| `PaymentsWithinCoverage` | payments on a policy stay within its coverage, unless its accounting was overridden |
| `BurstsAreBounded` | an interval as long as the window sees at most twice the cap |
| `RequestsDecideOnce` | a request id decides at most once |
| `TermsAreFixed` | policy, claimant and amount of a claim never change (an action property) |
| `AdapterTypeCorrect` | the type invariant of the adapter's own variables |
| `NoResponseIsBurnt` | the adapter's used ids are those that decided a claim |
| `ResponsesDecideOnce` | a response decides at most one claim, at one sink |
| `SafeBehindTheAdapter` | the registry's four money properties hold behind the adapter |
| `InsurancePolicyProofs` | |
| `PolicyTypeCorrect` | the type invariant |
| `PremiumTimeIsConserved` | premium seconds bought are ahead or were lived through |
| `SubscriptionsArePaid` | a subscribed policy exists and its first premium arrived |
| `IssuedPoliciesStay` | an issued policy keeps holder, validity and revocation (an action property) |
| `PlatformImplementsBoth` | refinement: the composition implements `InsurancePolicy!Spec` and `ClaimRegistry!Spec` |
| `ContractsAgree` | what `submitClaim` accepts, `isClaimEligible` accepts (an action property) |
| `NoClaimWithoutPremium` | a claim on a billed policy comes after a premium was received (an action property) |
| `VaultProofs` | |
| `VaultTypeCorrect` | the type invariant: no subtraction in a liquidation goes below zero |
| `BooksAlwaysBalance` | supply, balances and debts agree; the vault holds what positions record |
| `BorrowingStaysCovered` | borrowing and withdrawing keep the exact minimum ratio, in spite of rounding (an action property) |
| `SeizureStaysBounded` | a liquidator gets at most debt and penalty (an action property) |
| `SponsorshipStaysBounded` | the gas recorded for a sender and a day passes the cap by less than one bundle, failing postOps included |
| `IndexerProofs` | |
| `IndexerTypeCorrect` | the type invariant |
| `ReportsAreUnique` | the backend hears of a log at most once |
| `CheckpointsCover` | no handled log below a checkpoint is missing |
| `StoredStaysFinal` | a stored log stays on the chain |
| `MirrorStaysFaithful` | the mirror shows what the last stored log of an item says |
| `VerificationProofs` | |
| `VerificationTypeCorrect` | the type invariant |
| `RetriesAreFree` | a key is relayed twice only after an overlap or an interruption |
| `RecordedVerdictsAreReal` | a recorded verdict was asked for and reached the chain |
| `AnswersAreStored` | whoever is answered with a verdict leaves a response under its key; only a request that overlapped another loses the insert |
| `PaidWasPaidOnChain` | a row shows "paid" only for a root that was Paid |
| `FrontendProofs` | |
| `FrontendTypeCorrect` | the type invariant |
| `SessionsAreProved` | a token belongs to the account that signed |
| `JudgedNoncesAreSpent` | a nonce once verified against is never open again |
| `LoneLoginsSucceed` | an undisturbed login is not refused |
| `RootsAlwaysCorrelate` | merkle roots are unique on either side, and each claim has its row |
| `OwnKeyAlwaysFirst` | a claim is first verified under a key of its own |
| `SpendIsAlwaysShown` | charges and allowance stay within what was shown |
| `BadgeNeverReturns` | the status never goes back behind a renewal it showed (an action property) |
| `SafeOpsProofs` | |
| `AddressIsExact` | the address read out of KMS's public key is the key's, when all DER lengths are short (256 and 32 included) |
| `SignerIsCanonical` | from decoded `r` and `s`, for every odd order: a recovery id is found, `s` is low, the signature recovers to the key |
| `TypeCorrect` | the type invariant |
| `OperatorsNeverLockedOut` | the Safe's owners are the employees' keys, and enough of them |
| `QuorumSuffices` | a run whose transaction is still the next one holds a quorum of the owners of now |

### 4.2 Assumptions and method

The assumptions are the named `ASSUME`s of the modules, which TLC evaluates on the
instances: bounds are naturals, moduli and units are positive, the zero address is
no account, a coverage is a natural number (`ViewsAssumption`), the sets of users and of
payments are finite (`VaultBounds`, `PageBounds`), and the values that stand for a missing
row or status are none of the present ones (`NoneIsNoRow`, `IndexerItems`). The
composition assumes in addition that the deployment is later than any grace period
after the epoch (`GraceIsShort`: a policy that was never paid has
`premiumPaidUntil = 0`, and block times are around 1.7e9 seconds).

Two groups of theorems have a hypothesis of their own. `CheckpointsCover`,
`StoredStaysFinal` and `MirrorStaysFaithful` say `MaxReorg <= ReorgSafety`: the chain falls
back by no more than `REORG_SAFETY_BLOCKS`, which is what that setting is for. The
theorems about the specification of `SafeOps` say `AddressIsPoint`: `getAddress` returns
the address of the key. For the code's 256 and 32, and whenever `2 * Width + 8` is below
`Base \div 2`, that is the theorem `AddressIsExact`; the instance of TLC (8 and 2) needs
the long form of lengths, and there `NoLockout` exercises it.

Sums, counted sets and the recursive function of `getLogs` need induction. The induction
theorems of the library take an operator as a parameter, which the provers cannot
instantiate; the same argument in the form "a nonempty set of counterexamples has a
smallest member" needs none (`SmallestSet` in `Sums`, `Smallest` in `IndexerProofs`). With
it, `Sums` proves that `SumFunctionOnSet` is independent of the order of its fold and is
additive, monotone and changes by what one summand changes; `CollectsExists` and
`GetLogs` prove that `getLogs` returns exactly the logs of the range, in order.

A caveat for those who extend the proofs: the SMT encoding of tlapm 1.4.5 takes the
index of an `EXCEPT` to be in the function's domain. In every step here the index is in
the domain by type.

The inductive invariants below were also given to TLC as invariants of the runs'
instances, where they hold.

### 4.3 The arguments

**Registry.** `RegistryInv` is `TypeOK` with four parts that need each other.
`SlotsInOrder`: slots below the counter are claims of real policies, the others
are empty; without it `submitClaim` could overwrite. `ApprovalCredit`: an Approved
claim has an approval that no payment used; `OnePaymentPerApproval` alone is not
inductive, as a payment needs to know that the counts differ.
`UsedIffDecided`: an id has decided once exactly if it is marked used. Two
lemmas carry the work for several actions: `StatusPreserves` (underwriter and
oracle) and `SettlePreserves` (both payouts).

**Coverage.** What was paid says nothing about what may still be paid, so
`PaidWithinCoverage` is not inductive. `CoverageKept` says of each policy whose accounting
was not overridden that a claim was paid at most once and only if it is Paid now,
and that what `_consumedCoverage` would return is within the coverage. A submission
adds one summand and checked the sum; a change of status can only drop summands, as
leaving Rejected or Paid overrides the policy.

**Rate limit.** `WindowKept` splits an interval at the start of the present window. What
was paid since the second after that start is within `windowTotalPaid`; any interval
that reaches into the window holds at most one further cap, which an earlier window
let through. When a new window starts, the old total becomes that further cap. The
bound is stated with the highest cap and the shortest window so far, so
`updateRateLimits` can only loosen it.

**Adapter.** `ReplayInv` adds to the two properties that an id's verdict count is one
exactly if the registry marked it. Only `submitVerification` writes ids, and its id
is unknown to the adapter, hence to both sinks. For `SafeBehindTheAdapter`, a step of
the adapter is a step of the registry or leaves the registry's variables alone.

**Policies.** `PremiumInv` says per policy that `bought` equals `used` plus
what remains of the paid period. A tick moves one second from the remainder to
`used`; a payment adds one period to both sides, because its base is never
before now and never before the paid end. `IssuedPoliciesStay` needs types only: the
two functions that write a whole record do so under a free id.

**Both contracts.** `PlatformImplementsBoth` makes every step of the composition one of
either contract or a stutter of it; in particular a step of the policy contract is a
`PolicyStep` of the registry's environment, for the views computed in the new state. So
`PremiumInv` carries over. `CoverIsPaid` says that cover comes from a received premium and
that no grace period reaches back to the epoch; `RegistryStands` that the registry still
consults this contract. `ContractsAgree` then compares the checks of `submitClaim` with
those of `isClaimEligible` field by field; the truncation of the amount only lowers it.

**Vault.** `VaultInv` is `TypeOK` and `BooksBalance`, which need each other: that `burn` and
the seizure do not go below zero follows from the sums. The two action properties are
facts about truncating division: `a \div b >= c` gives `a >= b * c`, so the quotient
that the code compares is the safe side of the exact one.

**Paymaster.** `PaymasterInv` says what a bundle that was validated can still add to the
record; an operation whose postOp fails adds nothing:
with `k` operations waiting, each was validated against what was recorded then, and of
the bundle at most `MaxOps - k` others were executed since, so each still fits under the
highest cap plus what its validation could not see (`WaitingFits`).

**Indexer.** `ReportInv`: a reported log is stored, and the log whose handler is under way
is stored but unreported; the insert with `ON CONFLICT DO NOTHING` starts a handler only
for a log not stored before. `BaseInv` adds to the types that the chain is never more
than `MaxReorg` behind its highest head and that transaction numbers grow along it.
`StoreInv` is about finality: a scanned range ends at a block that was `ReorgSafety` below
a head, so it stays (this is where `MaxReorg <= ReorgSafety` is used); what is stored came
from such a block; and each handled log of the chunk is stored or still queued, so the
checkpoint may move to its end. `MirrorInv` adds the order: logs of a contract are stored
without gaps, the log being applied is the latest one, and a row holds what the last
applied log says.

**Verification.** `RequestInv` ties the state of a request to its call, its row and its
key. `RetriesAreFree` rests on `NotedTwice`: of two requests under one key that both may
reach the oracle, the second was started while the first was under way or after it
failed; after an answer the stored response stops it. `KeyStands` says that a request
under way meets a stored response, or another request, under its key only if the overlap
was noted; with it, `AnswersAreStored` follows, since a request is done after its insert
or after it found the response of another. `PaidStands` follows a "paid" from
the chain through the webhooks on their way into the row.

**Login and pages.** `LoginInv` holds of each tab what its pc implies: which nonce it was
given, what its session read, and what may have changed since, unless somebody disturbed
it. The nonce that a check has loaded is at most the issued one, and a partial write can
reopen a row only together with a newer nonce. `FilingInv`: the salt of a root is the
attempt that made it, and an attempt writes one row and one claim, in this order.
`LookupInv`: the key shown was made for the claim shown or for a claim that was already
requested. `MoneyInv` bounds charges and allowance by what was agreed; `BadgeInv` says that an answer
to the current effect was read no earlier than what is shown.

**Safe.** The invariant `IInv` is `TypeOK` with `SafeExists` (a run that builds or
signs has a Safe), `SafeFits` (owners are addresses of keys, the threshold is at most
their number) and `RunFits`, which carries the argument: a run's nonce is at most the
Safe's, and while the two are equal nothing was executed since the run read its
nonce, so everything it read later (threshold, owners) still holds. The Safe
executes only at equal nonces. What protocol-kit checks *before* it has the nonce may
be stale when the transaction is executed, and the invariant says nothing of it: the
Safe's own check keeps the threshold within the owners. The scripts' part is that what
they add is the address of a key.

### 4.4 Only model-checked

`CatchesUp` (liveness under fairness), `SignaturesAreCanonical` (base 8, width 2: its
half after the decoding of `r` and `s` is the theorem `SignerIsCanonical`, the decoding
itself folds over bytes and is not proved), and the three violations. That
the assumptions can be met, and that actions happen, is what the runs show: each
fires every action of its module.

## 5. What the checks show

The money paths hold up. A claim is paid once per approval; the pool is spent on
claims only; request ids decide once even while the adapter is re-pointed; premium
time is conserved; supply equals debt under every liquidation; a range of blocks is
never skipped. The same goes for the people's side: no order of scripts locks the
underwriters out, a spent nonce never comes back, and the user is never charged more
than the buttons showed. The exceptions are in section 6 and 7.

## 6. Findings

1. **A paid claim can be paid again** (`registry_repaid`). `setClaimStatus` and
   `recordOracleVerification` overwrite any status, so Paid becomes Approved. The
   theorem `PaymentsNeedApprovals` is what holds instead.
2. **A re-scan is not safe** (`indexer_rescan`). The raw event is committed before the
   mirror row. A failure in between makes the re-scan skip the handler: the scan starts
   with a stored log that the mirror does not show, and the row and the webhook are lost
   for good. A row written ahead of the checkpoint is no violation: a re-scan is safe
   there.
3. **The verdict may decide another claim** (`verification_claimid`). The backend sends
   its row id as the on-chain claim id.

## 7. Further observations

Met while modelling, without a run of their own:

* Rejected is not terminal either (`ClaimRegistry.sol:320`, against
  `docs/dataflow/Scenario-7-Underwriter-Manual-Reject.md:32`).
* The rate limit is a fixed window and not a "rolling-window cap"
  (`smart-contracts/EXPLAINED.md:146`); `BurstBound` states the factor of two.
* `releaseStuckPayout` emits `StuckPayoutReleased` only, which the indexer does not
  handle: the mirror keeps such a claim approved (`indexer/README.md:32`).
* With ethers 6, `parseLog` returns `null` for an unknown event, so
  `listener.js:64` throws outside the `try` and every later pass ends at that log,
  where the comment at `listener.js:62` has such events ignored. With the default deploy
  block of 0 the logs of the deployment itself (`Initialized`, `RoleGranted`) stop it.
* `eventHandlers.js:60` puts the decoded status, a BigInt under ethers 6, into JSON: every
  `ClaimStatusChanged` throws before it is stored, so the committed code never indexes a
  claim past its submission. `CatchesUp` states what remains.
* The webhook body uses camelCase names (`eventHandlers.js:49-55`) while the
  endpoint requires snake_case ones (`internal_routes.py:15-20`); as committed
  every call is refused. The model delivers bodies of both kinds, so the
  properties hold with and without that mistake.
* A partial liquidation of a position worth less than its debt plus penalty leaves debt that
  no collateral backs (`Vault.sol:223` calls liquidation solvency-preserving).
* The response for an idempotency key is stored only after the relay
  (`claims_routes.py:98` against `:113`), so an overlapping request or a retry after a
  time-out fires again; `RetryAfterAnswerIsFree` states what the key gives. Of two that
  overlap, the one that loses the insert is answered with a 500 although its verdict is
  relayed and recorded (`AnswerIsStored`).
* The daily cap of the paymaster is called the most it sponsors "within a rolling
  24-hour bucket" (`ClaimGasPaymaster.sol:50`). Buckets are calendar days, and the
  operations of one bundle are validated against one record; `SponsorshipBounded` is
  what holds for the record of a day. What the paymaster *pays* is bounded by neither:
  the record lacks the gas of `postOp` itself and of operations whose `postOp` failed.
* `Vault` has no transfers of collateral to the contract from outside, so its invariant
  says "equal" where such a gift would make it "at least"; and no state of the model meets
  the checked subtraction of `Vault.sol:219`, as the type invariant shows.
* `ShouldNotify` returns early while the premium is current, grace included
  (`scheduler.go:24`), so the warning window never takes effect: nobody is warned of a
  premium that is "about to lapse" (`notification-service/README.md:3`).
* Two tabs that sign in on one address can use up each other's fresh nonce; the loser
  has to try again. The same signed request sent twice at once can yield two tokens.
* A tab keeps the account of its first connect (`AuthContext.jsx:25`): after a change
  of the selected account its logins fail until it is reloaded. A claim's row names
  the session's account, the transaction the account selected now.
* After a verification `ClaimStatus.jsx` may show claim A beside the key of claim B;
  the backend caches by key alone. `OwnKeyFirst` is what holds.
* `PremiumStatusBadge.jsx` never clears `loadError`, keeps its Pay button until the
  new status arrives, and stays stale after an unconfirmed payment.
* `signAndExecute.js:33` signs with the first keys of the `.env`, so a departing owner's
  key can sign its own removal (against `06-remove-owner.js:5`).
* 06 without an argument may set a threshold that another run has replaced
  meanwhile (`06-remove-owner.js:48` means to "keep the current one"); the Safe accepts
  it as long as the owners suffice. No property is stated of it.
* The signatures of the scripts come from the RPC endpoint, as nothing constructs
  `Eip1193FromKmsSigner`. A public endpoint holds no accounts, so there every run of 04, 05
  and 06 fails at its first signature; the model's theorems hold for any `Accounts`. The
  addresses that 01 prints are required by 02 but never passed on. 03 grants the role to
  the Safe; no script revokes the old holder's.
* The underwriter's work list asks for `Submitted` and `UnderReview`; the indexer
  writes lower-case names.

## 8. Not modelled

* Governance contracts: configuration of OpenZeppelin's governor and votes token.
* Underwriter, document and notification services: see the plan.
* Signing in the oracle service (`signer.js`): a signature is the address it recovers
  to, in `OracleAdapter`. Deposits, stakes and withdrawals of `BasePaymaster`: the
  library's.
* `Eip1193FromKmsSigner`: no committed path constructs it.
* Besu, Terraform, Ansible: configuration.
* Upgrades of the proxies: the new code is unknown.

## 9. Plan

Order of work, most important behaviour first; done: 1 to 8, and 10 for what they cover. To keep the number of
runs small, a new component joins the run of the part it works with where it can.

1. `ClaimRegistry` with its theorems. 2. `InsurancePolicy` with its theorems.
3. `OracleAdapter` with replay theorems. 4. `ClaimsPlatform`.
5. `Indexer`. 6. `ClaimVerification` and `Vault`. 7. `KmsSigner` and `SafeOps` with
   theorems; `ClaimGasPaymaster`. 8. `WalletLogin` and `Frontend`.
9. `Notifications`: one warning per paid-until value against failing webhooks and
   restarts; `Underwriter`: work list against the names in the mirror; `MerkleTree`:
   the root against a reference definition on small inputs.
10. Proofs: done for the invariants and action properties of all passing runs. Left
    is the decoding of `r` and `s`, which would make `SignaturesAreCanonical` a theorem for
    256 and 32 (bounds on the digits that the encoder of KMS
    produces, then the round trip through `readTlvHeader` and `toPadded32`, by the
    smallest-counterexample form of induction of section 4.2), and what the planned
    modules of item 9 bring.
