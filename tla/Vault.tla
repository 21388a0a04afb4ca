-------------------------------- MODULE Vault --------------------------------
(***************************************************************************)
(* Vault.sol with the two contracts it owns the rules of: StableCoin.sol   *)
(* (dUSD, minted and burnt by the vault only) and PriceOracle.sol.         *)
(*                                                                         *)
(* One external function is one action and its guard is the negation of    *)
(* every revert, the reverts of the token calls and the division by a zero *)
(* price included.  Fixed-point arithmetic keeps its floors: PriceUnit is  *)
(* 1e18 and BpsUnit is 10_000 in the code.  The collateral token is an     *)
(* external ERC-20; an approval precedes every deposit.                    *)
(***************************************************************************)
EXTENDS Naturals, FiniteSets, Functions

CONSTANTS Users,
          Units,                 \* amounts callers pass
          Prices,                \* values of setPrice
          PriceUnit, BpsUnit,    \* the fixed-point units
          RiskParams,            \* arguments of updateRiskParams
          InitialCollateral      \* collateral tokens of each user

ASSUME VaultBounds ==
  /\ IsFiniteSet(Users)
  /\ Units \subseteq Nat /\ Prices \subseteq Nat
  /\ PriceUnit \in Nat \ {0} /\ BpsUnit \in Nat \ {0}
  /\ RiskParams \subseteq [minRatio : Nat, penalty : Nat]
  /\ InitialCollateral \in Nat

VARIABLES
  positions,         \* per user [collateral, debt]
  stableCoinSet,     \* Vault._stableCoinSet
  vaultSet,          \* StableCoin.vault # 0
  risk,              \* minCollateralRatioBps, liquidationPenaltyBps
  priceScaled,       \* PriceOracle
  paused,
  dusd,              \* StableCoin balances
  totalSupply,       \* StableCoin supply
  collateralOf,      \* collateral token balances of the users
  vaultCollateral    \* and of the vault

vars == <<positions, stableCoinSet, vaultSet, risk, priceScaled, paused, dusd,
          totalSupply, collateralOf, vaultCollateral>>
adminVars == <<stableCoinSet, vaultSet, risk, priceScaled, paused>>

TypeOK ==
  /\ positions \in [Users -> [collateral : Nat, debt : Nat]]
  /\ stableCoinSet \in BOOLEAN /\ vaultSet \in BOOLEAN /\ paused \in BOOLEAN
  /\ risk \in RiskParams
  /\ priceScaled \in Prices
  /\ dusd \in [Users -> Nat] /\ totalSupply \in Nat
  /\ collateralOf \in [Users -> Nat] /\ vaultCollateral \in Nat

Init ==
  /\ positions = [u \in Users |-> [collateral |-> 0, debt |-> 0]]
  /\ stableCoinSet = FALSE /\ vaultSet = FALSE /\ paused = FALSE
  /\ risk \in RiskParams
  /\ priceScaled \in Prices
  /\ dusd = [u \in Users |-> 0] /\ totalSupply = 0
  /\ collateralOf = [u \in Users |-> InitialCollateral]
  /\ vaultCollateral = 0
-----------------------------------------------------------------------------
(* StableCoin *)

mint(to, amount) ==
  /\ vaultSet
  /\ dusd' = [dusd EXCEPT ![to] = @ + amount]
  /\ totalSupply' = totalSupply + amount

\* A mutated form: no more is burnt than there is, and the rest is forgiven.
BurnUpTo(from, amount) ==
  LET n == IF dusd[from] >= amount THEN amount ELSE dusd[from]
  IN  /\ vaultSet
      /\ dusd' = [dusd EXCEPT ![from] = @ - n]
      /\ totalSupply' = totalSupply - n

burn(from, amount) ==
  /\ vaultSet
  /\ dusd[from] >= amount
  /\ dusd' = [dusd EXCEPT ![from] = @ - amount]
  /\ totalSupply' = totalSupply - amount

setVault ==
  /\ ~vaultSet /\ vaultSet' = TRUE
  /\ UNCHANGED <<positions, stableCoinSet, risk, priceScaled, paused, dusd,
                 totalSupply, collateralOf, vaultCollateral>>

\* ERC-20 transfer of dUSD between users.
Transfer(from, to, amount) ==
  /\ from # to /\ dusd[from] >= amount
  /\ dusd' = [dusd EXCEPT ![from] = @ - amount, ![to] = @ + amount]
  /\ UNCHANGED <<positions, adminVars, totalSupply, collateralOf, vaultCollateral>>
-----------------------------------------------------------------------------
(* Ratio and seizure *)

\* A mutated form: the ratio is rounded up.
meetsMinRatioUp(collateral, debt) ==
  debt # 0 => LET valueUsd == (collateral * priceScaled) \div PriceUnit
              IN  (valueUsd * BpsUnit + debt - 1) \div debt >= risk.minRatio

meetsMinRatio(collateral, debt) ==
  debt # 0 => LET valueUsd == (collateral * priceScaled) \div PriceUnit
              IN  (valueUsd * BpsUnit) \div debt >= risk.minRatio

\* A mutated form: the debt is converted with the quotient rounded up.
SeizedUp(user, covered) ==
  LET value == (covered * PriceUnit + priceScaled - 1) \div priceScaled
      seized == value + (value * risk.penalty) \div BpsUnit
  IN  IF seized > positions[user].collateral
      THEN positions[user].collateral ELSE seized

\* Another: the cap at what the position holds is missing.
SeizedUncapped(user, covered) ==
  LET value == (covered * PriceUnit) \div priceScaled
  IN  value + (value * risk.penalty) \div BpsUnit

\* The covered debt and the penalty in collateral units, at most all there is.
collateralSeized(user, covered) ==
  LET value == (covered * PriceUnit) \div priceScaled
      seized == value + (value * risk.penalty) \div BpsUnit
  IN  IF seized > positions[user].collateral
      THEN positions[user].collateral ELSE seized
-----------------------------------------------------------------------------
(* Vault *)

setStableCoin ==
  /\ ~stableCoinSet /\ stableCoinSet' = TRUE
  /\ UNCHANGED <<positions, vaultSet, risk, priceScaled, paused, dusd,
                 totalSupply, collateralOf, vaultCollateral>>

depositCollateral(u, amount) ==
  /\ ~paused /\ amount # 0
  /\ collateralOf[u] >= amount
  /\ collateralOf' = [collateralOf EXCEPT ![u] = @ - amount]
  /\ vaultCollateral' = vaultCollateral + amount
  /\ positions' = [positions EXCEPT ![u].collateral = @ + amount]
  /\ UNCHANGED <<adminVars, dusd, totalSupply>>

withdrawCollateral(u, amount) ==
  LET p == positions[u]
  IN  /\ ~paused /\ amount # 0
      /\ p.collateral >= amount
      /\ meetsMinRatio(p.collateral - amount, p.debt)
      /\ vaultCollateral >= amount
      /\ positions' = [positions EXCEPT ![u].collateral = @ - amount]
      /\ vaultCollateral' = vaultCollateral - amount
      /\ collateralOf' = [collateralOf EXCEPT ![u] = @ + amount]
      /\ UNCHANGED <<adminVars, dusd, totalSupply>>

mintStableCoin(u, amount) ==
  LET newDebt == positions[u].debt + amount
  IN  /\ ~paused /\ stableCoinSet /\ amount # 0
      /\ meetsMinRatio(positions[u].collateral, newDebt)
      /\ positions' = [positions EXCEPT ![u].debt = newDebt]
      /\ mint(u, amount)
      /\ UNCHANGED <<adminVars, collateralOf, vaultCollateral>>

repayDebt(u, amount) ==
  /\ ~paused /\ stableCoinSet /\ amount # 0
  /\ positions[u].debt >= amount
  /\ positions' = [positions EXCEPT ![u].debt = @ - amount]
  /\ burn(u, amount)
  /\ UNCHANGED <<adminVars, collateralOf, vaultCollateral>>

\* Anyone may liquidate, the owner included, and any part of the debt, none
\* included.  The code's subtractions revert below zero; that they never have to
\* is what TypeOK says, so they are not guards here.
liquidate(liquidator, user, covered) ==
  LET p == positions[user]
      seized == collateralSeized(user, covered)
  IN  /\ ~paused /\ stableCoinSet
      /\ ~meetsMinRatio(p.collateral, p.debt)
      /\ covered <= p.debt
      /\ priceScaled # 0
      /\ vaultCollateral >= seized
      /\ positions' = [positions EXCEPT ![user].debt = @ - covered,
                                        ![user].collateral = @ - seized]
      /\ burn(liquidator, covered)
      /\ collateralOf' = [collateralOf EXCEPT ![liquidator] = @ + seized]
      /\ vaultCollateral' = vaultCollateral - seized
      /\ UNCHANGED adminVars

updateRiskParams(new) ==
  /\ risk' = new
  /\ UNCHANGED <<positions, stableCoinSet, vaultSet, priceScaled, paused, dusd,
                 totalSupply, collateralOf, vaultCollateral>>

setPrice(new) ==
  /\ priceScaled' = new
  /\ UNCHANGED <<positions, stableCoinSet, vaultSet, risk, paused, dusd,
                 totalSupply, collateralOf, vaultCollateral>>

setPaused(b) ==
  /\ paused # b /\ paused' = b
  /\ UNCHANGED <<positions, stableCoinSet, vaultSet, risk, priceScaled, dusd,
                 totalSupply, collateralOf, vaultCollateral>>
-----------------------------------------------------------------------------
Next ==
  \/ setVault
  \/ setStableCoin
  \/ \E u \in Users, n \in Units : depositCollateral(u, n)
  \/ \E u \in Users, n \in Units : withdrawCollateral(u, n)
  \/ \E u \in Users, n \in Units : mintStableCoin(u, n)
  \/ \E u \in Users, n \in Units : repayDebt(u, n)
  \/ \E l, u \in Users, n \in Units \cup {0} : liquidate(l, u, n)
  \/ \E u, v \in Users, n \in Units : Transfer(u, v, n)
  \/ \E r \in RiskParams : updateRiskParams(r)
  \/ \E p \in Prices : setPrice(p)
  \/ \E b \in BOOLEAN : setPaused(b)

Spec == Init /\ [][Next]_vars
-----------------------------------------------------------------------------
(* Properties *)

Total(f) == SumFunctionOnSet(f, Users)
DebtOf == [u \in Users |-> positions[u].debt]
LockedOf == [u \in Users |-> positions[u].collateral]

\* The books balance.  Every dUSD in circulation is somebody's debt: minting,
\* repaying and any liquidation, partial or by the owner, keep supply and debt
\* equal.  The vault holds exactly the collateral that positions record, so
\* every withdrawal and seizure that is due can be paid.
BooksBalance ==
  /\ Total(DebtOf) = totalSupply
  /\ Total(dusd) = totalSupply
  /\ Total(LockedOf) = vaultCollateral

\* Rounding never helps the borrower: when a step raises a debt or its owner
\* takes collateral out, the exact ratio of the position is at least the
\* minimum afterwards, although the code compares rounded-down quotients.
ExactlyCovered(p) ==
  p.collateral * priceScaled * BpsUnit >= p.debt * risk.minRatio * PriceUnit
BorrowingIsCovered ==
  [][\A u \in Users :
       \/ positions'[u].debt > positions[u].debt
       \/ positions'[u].debt = positions[u].debt
          /\ positions'[u].collateral < positions[u].collateral
          /\ collateralOf'[u] > collateralOf[u]
          /\ positions[u].debt > 0
       => ExactlyCovered(positions'[u])]_positions

\* A liquidator never receives more than the debt paid off and the penalty are
\* worth at the oracle's price, roundings included.
SeizureIsBounded ==
  [][\A u \in Users :
       LET covered == positions[u].debt - positions'[u].debt
           seized == positions[u].collateral - positions'[u].collateral
       IN  positions'[u].debt < positions[u].debt /\ seized > 0 =>
             seized * priceScaled * BpsUnit
               <= covered * (BpsUnit + risk.penalty) * PriceUnit]_positions
=============================================================================
