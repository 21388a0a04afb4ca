-------------------------- MODULE ClaimGasPaymaster --------------------------
(***************************************************************************)
(* ClaimGasPaymaster.sol, which pays the gas of user operations up to a    *)
(* cap per sender and day, behind the EntryPoint that calls it.            *)
(*                                                                         *)
(* The EntryPoint (external) handles a bundle in one transaction: it       *)
(* validates all operations, then executes them one by one and calls       *)
(* postOp after each with its cost so far.  A validation that reverts      *)
(* reverts the bundle, so a bundle is one whose validations succeed.  The  *)
(* clock stands still in a transaction.                                    *)
(*                                                                         *)
(* postOp runs under a gas limit that the sender chose.  When it reverts   *)
(* or runs out of gas its write is rolled back, it is not called again,    *)
(* and the paymaster pays all the same; nor does the cost it is told       *)
(* include its own gas.  The state is what the contract records, which is  *)
(* what the cap is compared with; what is paid can be more.                *)
(***************************************************************************)
EXTENDS Naturals, Sequences

CONSTANTS Senders,
          DailyCaps,     \* arguments of setDailySponsorshipCap
          MaxCost,       \* largest worst-case cost of an operation
          MaxOps,        \* operations that fit into one bundle
          MaxDay         \* bound: days 0 .. MaxDay

ASSUME PaymasterBounds ==
  /\ DailyCaps \subseteq Nat
  /\ MaxCost \in Nat /\ MaxOps \in Nat \ {0} /\ MaxDay \in Nat

VARIABLES
  dailySponsorshipCapWei,
  sponsoredToday,      \* sender -> day bucket -> wei recorded
  day,                 \* block.timestamp / 1 days
  bundle,              \* operations validated and not executed: context, maxCost
  executing            \* FALSE until the validations of the bundle are over

\* A history variable: no guard reads it.
VARIABLE
  highestCap           \* the highest cap in force today

paymasterVars == <<dailySponsorshipCapWei, sponsoredToday, day, bundle, executing,
                   highestCap>>

Days == 0..MaxDay
Operation == [sender : Senders, dayBucket : Days, maxCost : 0..MaxCost]

PaymasterInit ==
  /\ dailySponsorshipCapWei \in DailyCaps
  /\ sponsoredToday = [s \in Senders |-> [d \in Days |-> 0]]
  /\ day = 0 /\ bundle = << >> /\ executing = FALSE
  /\ highestCap = dailySponsorshipCapWei
-----------------------------------------------------------------------------
\* onlyOwner; between transactions.
setDailySponsorshipCap(newCapWei) ==
  /\ bundle = << >>
  /\ dailySponsorshipCapWei' = newCapWei
  /\ highestCap' = IF newCapWei > highestCap THEN newCapWei ELSE highestCap
  /\ UNCHANGED <<sponsoredToday, day, bundle, executing>>

\* A mutated form: the operation alone is held against the cap.
WithinCapAlone(sender, maxCost) == maxCost <= dailySponsorshipCapWei
\* alreadyUsed and the worst case of this operation fit into the cap.
WithinCap(sender, maxCost) ==
  sponsoredToday[sender][day] + maxCost <= dailySponsorshipCapWei

\* The validation phase; nothing is written.
validatePaymasterUserOp(sender, maxCost) ==
  /\ ~executing /\ Len(bundle) < MaxOps
  /\ WithinCap(sender, maxCost)
  /\ bundle' = Append(bundle, [sender |-> sender, dayBucket |-> day,
                               maxCost |-> maxCost])
  /\ UNCHANGED <<dailySponsorshipCapWei, sponsoredToday, day, executing,
                 highestCap>>

\* EntryPoint (external): all operations of the bundle are valid.
ExecuteBundle ==
  /\ ~executing /\ bundle # << >>
  /\ executing' = TRUE
  /\ UNCHANGED <<dailySponsorshipCapWei, sponsoredToday, day, bundle,
                 highestCap>>

\* The next operation of the bundle is over.
NextOperation ==
  /\ executing
  /\ bundle' = Tail(bundle)
  /\ executing' = (Len(bundle) > 1)
  /\ UNCHANGED <<dailySponsorshipCapWei, day, highestCap>>

\* Its cost, of which the validation knew the worst case, is recorded.
postOp(actualGasCost) ==
  LET context == Head(bundle)
  IN  /\ NextOperation
      /\ actualGasCost <= context.maxCost
      /\ sponsoredToday' = [sponsoredToday EXCEPT
                              ![context.sender][context.dayBucket] = @ + actualGasCost]

\* EntryPoint (external): postOp reverted or ran out of gas, and nothing of it stays.
PostOpReverted == NextOperation /\ UNCHANGED sponsoredToday

\* The clock passes midnight between transactions.
NextDay ==
  /\ bundle = << >> /\ day < MaxDay
  /\ day' = day + 1
  /\ highestCap' = dailySponsorshipCapWei
  /\ UNCHANGED <<dailySponsorshipCapWei, sponsoredToday, bundle, executing>>

PaymasterNext ==
  \/ \E n \in DailyCaps : setDailySponsorshipCap(n)
  \/ \E s \in Senders, n \in 0..MaxCost : validatePaymasterUserOp(s, n)
  \/ ExecuteBundle
  \/ \E n \in 0..MaxCost : postOp(n)
  \/ PostOpReverted
  \/ NextDay

PaymasterSpec == PaymasterInit /\ [][PaymasterNext]_paymasterVars
-----------------------------------------------------------------------------
PaymasterTypeOK ==
  /\ dailySponsorshipCapWei \in DailyCaps /\ highestCap \in Nat
  /\ sponsoredToday \in [Senders -> [Days -> Nat]]
  /\ day \in Days
  /\ bundle \in Seq(Operation) /\ Len(bundle) <= MaxOps
  /\ executing \in BOOLEAN

\* What the daily cap really limits.  The operations of one bundle are all
\* validated against the same record, so the gas recorded for a sender and a day
\* may pass the cap, but by less than one bundle: never by more than the other
\* operations of the bundle that passed it can cost, over any number of bundles,
\* failed postOps, changes of the cap and days.
SponsorshipBounded ==
  \A s \in Senders : sponsoredToday[s][day] <= highestCap + (MaxOps - 1) * MaxCost
=============================================================================
