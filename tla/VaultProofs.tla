----------------------------- MODULE VaultProofs -----------------------------
(***************************************************************************)
(* Theorems about the contracts that touch neither claims nor policies.    *)
(*                                                                         *)
(* The vault: VaultInv, the types and the balance of the books together,   *)
(* is inductive; the books are needed for the types (a supply that burn    *)
(* lowers stays a natural number because debts and balances add up to it). *)
(* The two action properties follow from it and from what the code's       *)
(* rounded-down divisions imply in exact arithmetic.                       *)
(*                                                                         *)
(* The paymaster: PaymasterInv relates every operation that waits in a     *)
(* bundle to the gas recorded for its sender and to the operations before. *)
(***************************************************************************)
EXTENDS Vault, ClaimGasPaymaster, Sums, SequenceTheorems, TLAPS

\* A total over the users is a natural number that no share exceeds.
LEMMA Totals ==
  ASSUME NEW f \in [Users -> Nat]
  PROVE  /\ Total(f) \in Nat
         /\ \A u \in Users : f[u] <= Total(f)
<1>1. IsFiniteSet(Users) /\ \A u \in Users : f[u] \in Nat
  BY VaultBounds
<1>2. /\ SumFunctionOnSet(f, Users) \in Nat
      /\ \A u \in Users : SumFunctionOnSet(f, Users)
                            = f[u] + SumFunctionOnSet(f, Users \ {u})
  BY <1>1, SumAdd
<1>3. ASSUME NEW u \in Users PROVE f[u] <= Total(f)
  <2>1. SumFunctionOnSet(f, Users \ {u}) \in Nat
    <3>1. Users \ {u} \in SUBSET Users
      OBVIOUS
    <3>2. IsFiniteSet(Users \ {u}) /\ \A v \in Users \ {u} : f[v] \in Nat
      BY <1>1, <3>1, FS_Subset
    <3> QED BY <3>2, SumAdd
  <2>2. Total(f) = f[u] + SumFunctionOnSet(f, Users \ {u}) /\ f[u] \in Nat
    BY <1>1, <1>2 DEF Total
  <2> QED BY <2>1, <2>2
<1> QED BY <1>2, <1>3 DEF Total

\* A change of one share changes the total by the difference.
LEMMA TotalChange ==
  ASSUME NEW f \in [Users -> Nat], NEW g \in [Users -> Nat], NEW u \in Users,
         \A v \in Users : v # u => g[v] = f[v]
  PROVE  Total(g) + f[u] = Total(f) + g[u]
<1>1. /\ IsFiniteSet(Users)
      /\ \A v \in Users : f[v] \in Nat /\ g[v] \in Nat
      /\ \A v \in Users \ {u} : g[v] = f[v]
  BY VaultBounds
<1> QED BY <1>1, SumUpdate DEF Total

\* The invariant that every action preserves.
VaultInv == TypeOK /\ BooksBalance

\* What TypeOK says, in the form the steps below use it.
LEMMA VaultTypes ==
  ASSUME TypeOK
  PROVE  /\ \A u \in Users : positions[u].debt \in Nat /\ positions[u].collateral \in Nat
         /\ DebtOf \in [Users -> Nat] /\ LockedOf \in [Users -> Nat]
         /\ dusd \in [Users -> Nat] /\ collateralOf \in [Users -> Nat]
         /\ totalSupply \in Nat /\ vaultCollateral \in Nat
         /\ risk.minRatio \in Nat /\ risk.penalty \in Nat
         /\ priceScaled \in Nat
         /\ PriceUnit \in Nat \ {0} /\ BpsUnit \in Nat \ {0}
  BY VaultBounds DEF TypeOK, DebtOf, LockedOf

\* Integer division rounds down.
LEMMA Floor ==
  ASSUME NEW a \in Nat, NEW b \in Nat \ {0}
  PROVE  a \div b \in Nat /\ (a \div b) * b <= a
  OBVIOUS

\* Products of natural numbers grow with their factors.
LEMMA Grows ==
  ASSUME NEW a \in Nat, NEW b \in Nat, NEW c \in Nat, a <= b
  PROVE  a * c <= b * c
  OBVIOUS

\* What a liquidation seizes is a natural number and no more than there is.
LEMMA SeizedType ==
  ASSUME TypeOK, NEW u \in Users, NEW n \in Nat, priceScaled # 0
  PROVE  /\ collateralSeized(u, n) \in Nat
         /\ collateralSeized(u, n) <= positions[u].collateral
<1> DEFINE value == (n * PriceUnit) \div priceScaled
           fee == (value * risk.penalty) \div BpsUnit
<1>1. /\ priceScaled \in Nat \ {0} /\ PriceUnit \in Nat
      /\ BpsUnit \in Nat \ {0} /\ risk.penalty \in Nat
      /\ positions[u].collateral \in Nat
  BY VaultTypes
<1>2. n * PriceUnit \in Nat
  BY <1>1
<1>3. value \in Nat
  BY <1>1, <1>2, Floor
<1>4. value * risk.penalty \in Nat
  BY <1>1, <1>3
<1>5. fee \in Nat
  BY <1>1, <1>4, Floor
<1>6. collateralSeized(u, n) = IF value + fee > positions[u].collateral
                               THEN positions[u].collateral ELSE value + fee
  BY DEF collateralSeized
<1> HIDE DEF value, fee
<1> QED BY <1>1, <1>3, <1>5, <1>6

\* An empty vault balances.
LEMMA VaultInit == Init => VaultInv
<1> SUFFICES ASSUME Init PROVE VaultInv
  OBVIOUS
<1>1. TypeOK
  BY VaultBounds DEF Init, TypeOK
<1>2. ASSUME NEW f \in [Users -> Nat], \A u \in Users : f[u] = 0
      PROVE  Total(f) = 0
  <2>1. /\ IsFiniteSet(Users)
        /\ \A u \in Users : f[u] \in Nat /\ f[u] = 0
    BY <1>2, VaultBounds
  <2>2. SumFunctionOnSet(f, Users) <= SumFunctionOnSet(f, {})
    BY <2>1, SumMonotone, FS_EmptySet
  <2> QED BY <2>2, SumEmpty, Totals DEF Total
<1>3. /\ DebtOf \in [Users -> Nat] /\ \A u \in Users : DebtOf[u] = 0
      /\ LockedOf \in [Users -> Nat] /\ \A u \in Users : LockedOf[u] = 0
      /\ dusd \in [Users -> Nat] /\ \A u \in Users : dusd[u] = 0
      /\ totalSupply = 0 /\ vaultCollateral = 0
  BY DEF Init, DebtOf, LockedOf
<1> QED BY <1>1, <1>2, <1>3 DEF VaultInv, BooksBalance

\* A position changes by what its owner's books say.
LEMMA PositionChange ==
  ASSUME TypeOK, NEW u \in Users,
         positions' \in [Users -> [collateral : Nat, debt : Nat]],
         \A v \in Users : v # u => positions'[v] = positions[v]
  PROVE  /\ Total(DebtOf)' \in Nat /\ Total(LockedOf)' \in Nat
         /\ Total(DebtOf)' + positions[u].debt
              = Total(DebtOf) + positions'[u].debt
         /\ Total(LockedOf)' + positions[u].collateral
              = Total(LockedOf) + positions'[u].collateral
<1>1. /\ DebtOf \in [Users -> Nat] /\ DebtOf' \in [Users -> Nat]
      /\ LockedOf \in [Users -> Nat] /\ LockedOf' \in [Users -> Nat]
      /\ \A v \in Users : v # u => /\ DebtOf'[v] = DebtOf[v]
                                   /\ LockedOf'[v] = LockedOf[v]
      /\ DebtOf[u] = positions[u].debt /\ DebtOf'[u] = positions'[u].debt
      /\ LockedOf[u] = positions[u].collateral
      /\ LockedOf'[u] = positions'[u].collateral
  BY DEF DebtOf, LockedOf, TypeOK
<1>2. Total(DebtOf)' = Total(DebtOf') /\ Total(LockedOf)' = Total(LockedOf')
  BY DEF Total, DebtOf, LockedOf
<1> QED BY <1>1, <1>2, Totals, TotalChange

\* One position and one balance of dUSD move together with the supply, and the
\* collateral of the position with the vault's.
LEMMA BooksMove ==
  ASSUME VaultInv, NEW u \in Users, NEW l \in Users,
         positions' \in [Users -> [collateral : Nat, debt : Nat]],
         \A v \in Users : v # u => positions'[v] = positions[v],
         dusd' \in [Users -> Nat],
         \A v \in Users : v # l => dusd'[v] = dusd[v],
         totalSupply' \in Int, vaultCollateral' \in Int,
         totalSupply' + positions[u].debt = totalSupply + positions'[u].debt,
         totalSupply' + dusd[l] = totalSupply + dusd'[l],
         vaultCollateral' + positions[u].collateral
           = vaultCollateral + positions'[u].collateral
  PROVE  totalSupply' \in Nat /\ vaultCollateral' \in Nat /\ BooksBalance'
<1>1. TypeOK /\ BooksBalance
  BY DEF VaultInv
<1>2. /\ positions[u].debt \in Nat /\ positions[u].collateral \in Nat
      /\ positions'[u].debt \in Nat /\ positions'[u].collateral \in Nat
      /\ dusd \in [Users -> Nat] /\ dusd[l] \in Nat /\ dusd'[l] \in Nat
      /\ totalSupply \in Nat /\ vaultCollateral \in Nat
  BY <1>1, VaultTypes
<1>3. /\ Total(DebtOf)' \in Nat /\ Total(LockedOf)' \in Nat
      /\ Total(DebtOf)' + positions[u].debt = Total(DebtOf) + positions'[u].debt
      /\ Total(LockedOf)' + positions[u].collateral
           = Total(LockedOf) + positions'[u].collateral
  BY <1>1, PositionChange
<1>4. /\ Total(dusd') + dusd[l] = Total(dusd) + dusd'[l]
      /\ Total(dusd') \in Nat
  BY <1>2, TotalChange, Totals
<1>5. /\ Total(DebtOf) = totalSupply /\ Total(dusd) = totalSupply
      /\ Total(LockedOf) = vaultCollateral
  BY <1>1 DEF BooksBalance
<1>6. /\ Total(DebtOf)' = totalSupply' /\ Total(dusd') = totalSupply'
      /\ Total(LockedOf)' = vaultCollateral'
  <2>1. ASSUME NEW a \in Nat, NEW b \in Int, NEW x \in Nat, NEW y \in Nat,
               NEW z \in Nat, a + x = z + y, b + x = z + y
        PROVE  a = b
    BY <2>1
  <2>2. Total(DebtOf)' = totalSupply'
    BY <1>2, <1>3, <1>5, <2>1, SMTT(30)
  <2>3. Total(dusd') = totalSupply'
    BY <1>2, <1>4, <1>5, <2>1, SMTT(30)
  <2>4. Total(LockedOf)' = vaultCollateral'
    BY <1>2, <1>3, <1>5, <2>1, SMTT(30)
  <2> QED BY <2>2, <2>3, <2>4
<1>7. Total(dusd)' = Total(dusd')
  BY DEF Total
<1> QED BY <1>3, <1>4, <1>6, <1>7 DEF BooksBalance

\* Every action preserves the types and the balance of the books.
LEMMA VaultNext == VaultInv /\ [Next]_vars => VaultInv'
<1> SUFFICES ASSUME VaultInv, [Next]_vars PROVE VaultInv'
  OBVIOUS
<1>0. /\ TypeOK /\ BooksBalance
      /\ positions \in [Users -> [collateral : Nat, debt : Nat]]
      /\ \A u \in Users : positions[u].debt \in Nat /\ positions[u].collateral \in Nat
      /\ dusd \in [Users -> Nat] /\ collateralOf \in [Users -> Nat]
      /\ \A u \in Users : dusd[u] \in Nat /\ collateralOf[u] \in Nat
      /\ totalSupply \in Nat /\ vaultCollateral \in Nat
      /\ \A n \in Units : n \in Nat
  BY VaultTypes, VaultBounds DEF VaultInv, TypeOK
<1>1. ASSUME NEW u \in Users, NEW n \in Units, depositCollateral(u, n)
      PROVE  VaultInv'
  <2>1. /\ n \in Nat /\ collateralOf[u] >= n
        /\ positions' = [positions EXCEPT ![u].collateral = @ + n]
        /\ UNCHANGED <<dusd, totalSupply, adminVars>>
        /\ vaultCollateral' = vaultCollateral + n
        /\ collateralOf' = [collateralOf EXCEPT ![u] = @ - n]
    BY <1>0, <1>1 DEF depositCollateral
  <2>2. /\ positions' \in [Users -> [collateral : Nat, debt : Nat]]
        /\ positions'[u].collateral = positions[u].collateral + n
        /\ positions'[u].debt = positions[u].debt
        /\ \A v \in Users : v # u => positions'[v] = positions[v]
    BY <1>0, <2>1
  <2>3. collateralOf' \in [Users -> Nat]
    BY <1>0, <2>1
  <2>4. totalSupply' \in Nat /\ vaultCollateral' \in Nat /\ BooksBalance'
    BY <1>0, <2>1, <2>2, BooksMove
  <2> QED BY <1>0, <2>1, <2>2, <2>3, <2>4 DEF VaultInv, TypeOK, adminVars
<1>2. ASSUME NEW u \in Users, NEW n \in Units, withdrawCollateral(u, n)
      PROVE  VaultInv'
  <2>1. /\ n \in Nat /\ positions[u].collateral >= n /\ vaultCollateral >= n
        /\ positions' = [positions EXCEPT ![u].collateral = @ - n]
        /\ UNCHANGED <<dusd, totalSupply, adminVars>>
        /\ vaultCollateral' = vaultCollateral - n
        /\ collateralOf' = [collateralOf EXCEPT ![u] = @ + n]
    BY <1>0, <1>2 DEF withdrawCollateral
  <2>2. /\ positions' \in [Users -> [collateral : Nat, debt : Nat]]
        /\ positions'[u].collateral = positions[u].collateral - n
        /\ positions'[u].debt = positions[u].debt
        /\ \A v \in Users : v # u => positions'[v] = positions[v]
    BY <1>0, <2>1
  <2>3. collateralOf' \in [Users -> Nat]
    BY <1>0, <2>1
  <2>4. totalSupply' \in Nat /\ vaultCollateral' \in Nat /\ BooksBalance'
    BY <1>0, <2>1, <2>2, BooksMove
  <2> QED BY <1>0, <2>1, <2>2, <2>3, <2>4 DEF VaultInv, TypeOK, adminVars
<1>3. ASSUME NEW u \in Users, NEW n \in Units, mintStableCoin(u, n)
      PROVE  VaultInv'
  <2>1. /\ n \in Nat
        /\ positions' = [positions EXCEPT ![u].debt = positions[u].debt + n]
        /\ dusd' = [dusd EXCEPT ![u] = @ + n]
        /\ totalSupply' = totalSupply + n
        /\ UNCHANGED <<vaultCollateral, collateralOf, adminVars>>
    BY <1>0, <1>3 DEF mintStableCoin, mint
  <2>2. /\ positions' \in [Users -> [collateral : Nat, debt : Nat]]
        /\ positions'[u].collateral = positions[u].collateral
        /\ positions'[u].debt = positions[u].debt + n
        /\ \A v \in Users : v # u => positions'[v] = positions[v]
    BY <1>0, <2>1
  <2>3. /\ dusd' \in [Users -> Nat] /\ dusd'[u] = dusd[u] + n
        /\ \A v \in Users : v # u => dusd'[v] = dusd[v]
    BY <1>0, <2>1
  <2>4. totalSupply' \in Nat /\ vaultCollateral' \in Nat /\ BooksBalance'
    BY <1>0, <2>1, <2>2, <2>3, BooksMove
  <2> QED BY <1>0, <2>1, <2>2, <2>3, <2>4 DEF VaultInv, TypeOK, adminVars
<1>4. ASSUME NEW u \in Users, NEW n \in Units, repayDebt(u, n)
      PROVE  VaultInv'
  <2>1. /\ n \in Nat /\ positions[u].debt >= n /\ dusd[u] >= n
        /\ positions' = [positions EXCEPT ![u].debt = @ - n]
        /\ dusd' = [dusd EXCEPT ![u] = @ - n]
        /\ totalSupply' = totalSupply - n
        /\ UNCHANGED <<vaultCollateral, collateralOf, adminVars>>
    BY <1>0, <1>4 DEF repayDebt, burn
  <2>2. /\ positions' \in [Users -> [collateral : Nat, debt : Nat]]
        /\ positions'[u].collateral = positions[u].collateral
        /\ positions'[u].debt = positions[u].debt - n
        /\ \A v \in Users : v # u => positions'[v] = positions[v]
    BY <1>0, <2>1
  <2>3. /\ dusd' \in [Users -> Nat] /\ dusd'[u] = dusd[u] - n
        /\ \A v \in Users : v # u => dusd'[v] = dusd[v]
    BY <1>0, <2>1
  <2>4. totalSupply' \in Nat /\ vaultCollateral' \in Nat /\ BooksBalance'
    BY <1>0, <2>1, <2>2, <2>3, BooksMove
  <2> QED BY <1>0, <2>1, <2>2, <2>3, <2>4 DEF VaultInv, TypeOK, adminVars
<1>5. ASSUME NEW l \in Users, NEW u \in Users, NEW n \in Units \cup {0},
             liquidate(l, u, n)
      PROVE  VaultInv'
  <2> DEFINE seized == collateralSeized(u, n)
  <2>1. n \in Nat /\ seized \in Nat /\ seized <= positions[u].collateral
    BY <1>0, <1>5, SeizedType DEF liquidate
  <2>2. /\ n <= positions[u].debt /\ dusd[l] >= n /\ vaultCollateral >= seized
        /\ positions' = [positions EXCEPT ![u].debt = @ - n,
                                          ![u].collateral = @ - seized]
        /\ dusd' = [dusd EXCEPT ![l] = @ - n]
        /\ totalSupply' = totalSupply - n
        /\ vaultCollateral' = vaultCollateral - seized
        /\ collateralOf' = [collateralOf EXCEPT ![l] = @ + seized]
        /\ UNCHANGED adminVars
    BY <1>5 DEF liquidate, burn
  <2> HIDE DEF seized
  <2>3. /\ positions' \in [Users -> [collateral : Nat, debt : Nat]]
        /\ positions'[u].collateral = positions[u].collateral - seized
        /\ positions'[u].debt = positions[u].debt - n
        /\ \A v \in Users : v # u => positions'[v] = positions[v]
    <3> DEFINE paid == [positions EXCEPT ![u].debt = @ - n]
    <3>1. /\ paid \in [Users -> [collateral : Nat, debt : Nat]]
          /\ paid[u].collateral = positions[u].collateral
          /\ paid[u].debt = positions[u].debt - n
          /\ \A v \in Users : v # u => paid[v] = positions[v]
      BY <1>0, <2>1, <2>2
    <3>2. positions' = [paid EXCEPT ![u].collateral = @ - seized]
      BY <2>2
    <3> HIDE DEF paid
    <3> QED BY <1>0, <2>1, <3>1, <3>2
  <2>4. /\ dusd' \in [Users -> Nat] /\ dusd'[l] = dusd[l] - n
        /\ \A v \in Users : v # l => dusd'[v] = dusd[v]
        /\ collateralOf' \in [Users -> Nat]
    BY <1>0, <2>1, <2>2
  <2>5. totalSupply' \in Nat /\ vaultCollateral' \in Nat /\ BooksBalance'
    <3>1. /\ totalSupply' \in Int /\ vaultCollateral' \in Int
          /\ totalSupply' + positions[u].debt = totalSupply + positions'[u].debt
          /\ totalSupply' + dusd[l] = totalSupply + dusd'[l]
          /\ vaultCollateral' + positions[u].collateral
               = vaultCollateral + positions'[u].collateral
      BY <1>0, <2>1, <2>2, <2>3, <2>4
    <3> QED BY <2>3, <2>4, <3>1, BooksMove
  <2> QED BY <1>0, <2>2, <2>3, <2>4, <2>5 DEF VaultInv, TypeOK, adminVars
<1>6. ASSUME NEW u \in Users, NEW v \in Users, NEW n \in Units, Transfer(u, v, n)
      PROVE  VaultInv'
  <2> DEFINE sent == [dusd EXCEPT ![u] = @ - n]
  <2>1. /\ u # v /\ dusd[u] >= n /\ n \in Nat
        /\ dusd' = [dusd EXCEPT ![u] = @ - n, ![v] = @ + n]
        /\ UNCHANGED <<positions, adminVars, totalSupply, collateralOf,
                       vaultCollateral>>
    BY <1>0, <1>6 DEF Transfer
  <2>2. /\ sent \in [Users -> Nat] /\ sent[u] = dusd[u] - n /\ sent[v] = dusd[v]
        /\ \A w \in Users : w # u => sent[w] = dusd[w]
    BY <1>0, <2>1
  <2>3. /\ dusd' \in [Users -> Nat] /\ dusd'[v] = dusd[v] + n
        /\ \A w \in Users : w # v => dusd'[w] = sent[w]
    BY <1>0, <2>1
  <2> HIDE DEF sent
  <2>4. /\ Total(sent) + dusd[u] = Total(dusd) + sent[u]
        /\ Total(dusd') + sent[v] = Total(sent) + dusd'[v]
        /\ Total(sent) \in Nat /\ Total(dusd) \in Nat /\ Total(dusd') \in Nat
    BY <1>0, <2>2, <2>3, TotalChange, Totals
  <2>5. Total(dusd') = Total(dusd) /\ Total(dusd)' = Total(dusd')
    <3>1. ASSUME NEW a \in Nat, NEW b \in Nat, NEW x \in Nat, NEW k \in Nat
          PROVE  /\ a + x = b + (x - k) => b = a + k
                 /\ b + x = a + (x + k) => b = a + k
      OBVIOUS
    <3>2. dusd[u] \in Nat /\ dusd[v] \in Nat /\ n \in Nat
      BY <1>0
    <3>3. Total(dusd) = Total(sent) + n
      <4>1. Total(sent) + dusd[u] = Total(dusd) + (dusd[u] - n)
        BY <2>2, <2>4
      <4> QED BY <2>4, <3>1, <3>2, <4>1
    <3>4. Total(dusd') = Total(sent) + n
      <4>1. Total(dusd') + dusd[v] = Total(sent) + (dusd[v] + n)
        BY <2>2, <2>3, <2>4
      <4> QED BY <2>4, <3>1, <3>2, <4>1
    <3> QED BY <3>3, <3>4 DEF Total
  <2>6. BooksBalance'
    BY <1>0, <2>1, <2>5 DEF BooksBalance, Total, DebtOf, LockedOf
  <2> QED BY <1>0, <2>1, <2>3, <2>6 DEF VaultInv, TypeOK, adminVars
<1>7. ASSUME UNCHANGED <<positions, dusd, totalSupply, collateralOf, vaultCollateral>>,
             stableCoinSet' \in BOOLEAN, vaultSet' \in BOOLEAN, paused' \in BOOLEAN,
             risk' \in RiskParams, priceScaled' \in Prices
      PROVE  VaultInv'
  <2>1. BooksBalance'
    BY <1>0, <1>7 DEF BooksBalance, Total, DebtOf, LockedOf
  <2> QED BY <1>0, <1>7, <2>1 DEF VaultInv, TypeOK
<1>8. CASE \/ setVault \/ setStableCoin
           \/ \E r \in RiskParams : updateRiskParams(r)
           \/ \E p \in Prices : setPrice(p)
           \/ \E b \in BOOLEAN : setPaused(b)
           \/ UNCHANGED vars
  BY <1>0, <1>7, <1>8
  DEF setVault, setStableCoin, updateRiskParams, setPrice, setPaused, vars, TypeOK
<1> QED BY <1>1, <1>2, <1>3, <1>4, <1>5, <1>6, <1>8 DEF Next

\* Every variable of the vault and of dUSD keeps its type; that a balance, a debt
\* or the supply never becomes negative rests on the books.
THEOREM VaultTypeCorrect == Spec => []TypeOK
<1>1. VaultInv => TypeOK
  BY DEF VaultInv
<1> QED BY <1>1, VaultInit, VaultNext, PTL DEF Spec

\* Supply, debts and balances of dUSD agree, and so do the vault's collateral and
\* the positions, for any number of users and any liquidations.
THEOREM BooksAlwaysBalance == Spec => []BooksBalance
<1>1. VaultInv => BooksBalance
  BY DEF VaultInv
<1> QED BY <1>1, VaultInit, VaultNext, PTL DEF Spec

\* The rounded comparison of meetsMinRatio implies the exact one.
LEMMA RatioIsExact ==
  ASSUME TypeOK, NEW c \in Nat, NEW d \in Nat \ {0}, meetsMinRatio(c, d)
  PROVE  c * priceScaled * BpsUnit >= d * risk.minRatio * PriceUnit
<1> DEFINE value == (c * priceScaled) \div PriceUnit
           ratio == (value * BpsUnit) \div d
<1>1. /\ priceScaled \in Nat /\ PriceUnit \in Nat \ {0}
      /\ BpsUnit \in Nat /\ risk.minRatio \in Nat
  BY VaultTypes
<1>2. c * priceScaled \in Nat
  BY <1>1
<1>3. value \in Nat /\ value * PriceUnit <= c * priceScaled
  BY <1>1, <1>2, Floor
<1>4. ratio >= risk.minRatio
  BY DEF meetsMinRatio
<1> HIDE DEF value
<1>5. value * BpsUnit \in Nat
  BY <1>1, <1>3
<1>6. ratio \in Nat /\ ratio * d <= value * BpsUnit
  BY <1>5, Floor
<1> HIDE DEF ratio
<1>7. risk.minRatio * d <= value * BpsUnit
  <2>1. risk.minRatio * d <= ratio * d
    BY <1>1, <1>4, <1>6, Grows
  <2>2. risk.minRatio * d \in Nat /\ ratio * d \in Nat
    BY <1>1, <1>6
  <2> QED BY <1>5, <1>6, <2>1, <2>2
<1>8. (risk.minRatio * d) * PriceUnit <= (value * BpsUnit) * PriceUnit
  <2>1. risk.minRatio * d \in Nat
    BY <1>1
  <2> QED BY <1>1, <1>5, <1>7, <2>1, Grows
<1>9. (value * PriceUnit) * BpsUnit <= (c * priceScaled) * BpsUnit
  <2>1. value * PriceUnit \in Nat
    BY <1>1, <1>3
  <2> QED BY <1>1, <1>2, <1>3, <2>1, Grows
<1>10. /\ (value * PriceUnit) * BpsUnit = (value * BpsUnit) * PriceUnit
       /\ (risk.minRatio * d) * PriceUnit = d * risk.minRatio * PriceUnit
  BY <1>1, <1>3
<1>11. /\ (value * BpsUnit) * PriceUnit \in Nat
       /\ d * risk.minRatio * PriceUnit \in Nat
       /\ c * priceScaled * BpsUnit \in Nat
  BY <1>1, <1>3
<1> QED BY <1>8, <1>9, <1>10, <1>11

\* What a liquidation seizes, in exact arithmetic; nothing for nothing.
LEMMA SeizureIsExact ==
  ASSUME TypeOK, NEW u \in Users, NEW n \in Nat, priceScaled # 0
  PROVE  /\ collateralSeized(u, n) * priceScaled * BpsUnit
              <= n * (BpsUnit + risk.penalty) * PriceUnit
         /\ n = 0 => collateralSeized(u, n) = 0
<1> DEFINE value == (n * PriceUnit) \div priceScaled
           fee == (value * risk.penalty) \div BpsUnit
           seized == collateralSeized(u, n)
<1>1. /\ priceScaled \in Nat \ {0} /\ PriceUnit \in Nat
      /\ BpsUnit \in Nat \ {0} /\ risk.penalty \in Nat
      /\ positions[u].collateral \in Nat
  BY VaultTypes
<1>2. n * PriceUnit \in Nat
  BY <1>1
<1>3. value \in Nat /\ value * priceScaled <= n * PriceUnit
  BY <1>1, <1>2, Floor
<1>4. n = 0 => value = 0
  <2>1. n = 0 => n * PriceUnit = 0
    BY <1>1
  <2>2. n = 0 => value * priceScaled <= 0
    BY <1>3, <2>1
  <2> HIDE DEF value
  <2> QED BY <1>1, <1>3, <2>2
<1> HIDE DEF value
<1>5. value * risk.penalty \in Nat
  BY <1>1, <1>3
<1>6. fee \in Nat /\ fee * BpsUnit <= value * risk.penalty
  BY <1>1, <1>5, Floor
<1>7. value = 0 => fee = 0
  <2>1. value = 0 => value * risk.penalty = 0
    BY <1>1
  <2> HIDE DEF fee
  <2> QED BY <1>1, <1>6, <2>1
<1> HIDE DEF fee
<1>8. seized = IF value + fee > positions[u].collateral
               THEN positions[u].collateral ELSE value + fee
  BY DEF collateralSeized, value, fee
<1>9. seized \in Nat /\ seized <= value + fee /\ (n = 0 => seized = 0)
  BY <1>1, <1>3, <1>4, <1>6, <1>7, <1>8
<1> HIDE DEF seized
<1>10. seized * (priceScaled * BpsUnit) <= (value + fee) * (priceScaled * BpsUnit)
  <2>1. priceScaled * BpsUnit \in Nat /\ value + fee \in Nat
    BY <1>1, <1>3, <1>6
  <2> QED BY <1>9, <2>1, Grows
<1>11. (fee * BpsUnit) * priceScaled <= (value * risk.penalty) * priceScaled
  <2>1. fee * BpsUnit \in Nat
    BY <1>1, <1>6
  <2> QED BY <1>1, <1>5, <1>6, <2>1, Grows
<1>12. (value * priceScaled) * (BpsUnit + risk.penalty)
         <= (n * PriceUnit) * (BpsUnit + risk.penalty)
  <2>1. BpsUnit + risk.penalty \in Nat /\ value * priceScaled \in Nat
    BY <1>1, <1>3
  <2> QED BY <1>2, <1>3, <2>1, Grows
<1>13. (value + fee) * (priceScaled * BpsUnit)
         <= (value * priceScaled) * (BpsUnit + risk.penalty)
  <2>1. (value + fee) * (priceScaled * BpsUnit)
          = value * priceScaled * BpsUnit + (fee * BpsUnit) * priceScaled
    BY <1>1, <1>3, <1>6
  <2>2. (value * priceScaled) * (BpsUnit + risk.penalty)
          = value * priceScaled * BpsUnit + (value * risk.penalty) * priceScaled
    BY <1>1, <1>3
  <2>3. /\ value * priceScaled * BpsUnit \in Nat
        /\ (fee * BpsUnit) * priceScaled \in Nat
        /\ (value * risk.penalty) * priceScaled \in Nat
    BY <1>1, <1>3, <1>6
  <2> QED BY <1>11, <2>1, <2>2, <2>3
<1>14. /\ seized * priceScaled * BpsUnit = seized * (priceScaled * BpsUnit)
       /\ n * (BpsUnit + risk.penalty) * PriceUnit
            = (n * PriceUnit) * (BpsUnit + risk.penalty)
       /\ seized * (priceScaled * BpsUnit) \in Nat
       /\ (value + fee) * (priceScaled * BpsUnit) \in Nat
       /\ (value * priceScaled) * (BpsUnit + risk.penalty) \in Nat
       /\ (n * PriceUnit) * (BpsUnit + risk.penalty) \in Nat
  BY <1>1, <1>3, <1>6, <1>9
<1>15. seized * priceScaled * BpsUnit
         <= n * (BpsUnit + risk.penalty) * PriceUnit
  BY <1>10, <1>12, <1>13, <1>14
<1> QED BY <1>9, <1>15 DEF seized

\* What the next state of a position is, when a step changes one: a deposit, a
\* withdrawal that passed the ratio check, a mint that passed it, a repayment, or
\* a liquidation.
LEMMA PositionSteps ==
  ASSUME VaultInv, [Next]_vars, positions' # positions
  PROVE  \E u \in Users, n \in Nat :
           /\ \A v \in Users : v # u => positions'[v] = positions[v]
           /\ \/ /\ positions'[u].debt = positions[u].debt
                 /\ positions'[u].collateral = positions[u].collateral + n
              \/ /\ positions'[u].debt = positions[u].debt
                 /\ positions'[u].collateral = positions[u].collateral - n
                 /\ meetsMinRatio(positions'[u].collateral, positions'[u].debt)
              \/ /\ positions'[u].debt = positions[u].debt + n
                 /\ positions'[u].collateral = positions[u].collateral
                 /\ meetsMinRatio(positions'[u].collateral, positions'[u].debt)
              \/ /\ positions'[u].debt = positions[u].debt - n
                 /\ positions'[u].collateral = positions[u].collateral
              \/ /\ priceScaled # 0
                 /\ positions'[u].debt = positions[u].debt - n
                 /\ positions'[u].collateral
                      = positions[u].collateral - collateralSeized(u, n)
<1>0. /\ positions \in [Users -> [collateral : Nat, debt : Nat]]
      /\ \A n \in Units \cup {0} : n \in Nat
  BY VaultBounds DEF VaultInv, TypeOK
<1>1. ASSUME NEW u \in Users, NEW n \in Units, depositCollateral(u, n)
      PROVE  /\ positions'[u].debt = positions[u].debt
             /\ positions'[u].collateral = positions[u].collateral + n
             /\ \A v \in Users : v # u => positions'[v] = positions[v]
  <2>1. positions' = [positions EXCEPT ![u].collateral = @ + n]
    BY <1>1 DEF depositCollateral
  <2> QED BY <1>0, <2>1
<1>2. ASSUME NEW u \in Users, NEW n \in Units, withdrawCollateral(u, n)
      PROVE  /\ positions'[u].debt = positions[u].debt
             /\ positions'[u].collateral = positions[u].collateral - n
             /\ meetsMinRatio(positions'[u].collateral, positions'[u].debt)
             /\ \A v \in Users : v # u => positions'[v] = positions[v]
  <2>1. /\ positions' = [positions EXCEPT ![u].collateral = @ - n]
        /\ meetsMinRatio(positions[u].collateral - n, positions[u].debt)
    BY <1>2 DEF withdrawCollateral
  <2>2. /\ positions'[u].debt = positions[u].debt
        /\ positions'[u].collateral = positions[u].collateral - n
        /\ \A v \in Users : v # u => positions'[v] = positions[v]
    BY <1>0, <2>1
  <2> QED BY <2>1, <2>2
<1>3. ASSUME NEW u \in Users, NEW n \in Units, mintStableCoin(u, n)
      PROVE  /\ positions'[u].debt = positions[u].debt + n
             /\ positions'[u].collateral = positions[u].collateral
             /\ meetsMinRatio(positions'[u].collateral, positions'[u].debt)
             /\ \A v \in Users : v # u => positions'[v] = positions[v]
  <2>1. /\ positions' = [positions EXCEPT ![u].debt = positions[u].debt + n]
        /\ meetsMinRatio(positions[u].collateral, positions[u].debt + n)
    BY <1>3 DEF mintStableCoin
  <2>2. /\ positions'[u].debt = positions[u].debt + n
        /\ positions'[u].collateral = positions[u].collateral
        /\ \A v \in Users : v # u => positions'[v] = positions[v]
    BY <1>0, <2>1
  <2> QED BY <2>1, <2>2
<1>4. ASSUME NEW u \in Users, NEW n \in Units, repayDebt(u, n)
      PROVE  /\ positions'[u].debt = positions[u].debt - n
             /\ positions'[u].collateral = positions[u].collateral
             /\ \A v \in Users : v # u => positions'[v] = positions[v]
  <2>1. positions' = [positions EXCEPT ![u].debt = @ - n]
    BY <1>4 DEF repayDebt
  <2> QED BY <1>0, <2>1
<1>5. ASSUME NEW l \in Users, NEW u \in Users, NEW n \in Units \cup {0},
             liquidate(l, u, n)
      PROVE  /\ priceScaled # 0
             /\ positions'[u].debt = positions[u].debt - n
             /\ positions'[u].collateral
                  = positions[u].collateral - collateralSeized(u, n)
             /\ \A v \in Users : v # u => positions'[v] = positions[v]
  <2> DEFINE seized == collateralSeized(u, n)
             paid == [positions EXCEPT ![u].debt = @ - n]
  <2>1. /\ priceScaled # 0 /\ n <= positions[u].debt
        /\ positions' = [positions EXCEPT ![u].debt = @ - n,
                                          ![u].collateral = @ - seized]
    BY <1>5 DEF liquidate
  <2>2. /\ paid \in [Users -> [collateral : Nat, debt : Nat]]
        /\ paid[u].collateral = positions[u].collateral
        /\ paid[u].debt = positions[u].debt - n
        /\ \A v \in Users : v # u => paid[v] = positions[v]
    BY <1>0, <2>1
  <2>3. positions' = [paid EXCEPT ![u].collateral = @ - seized]
    BY <2>1
  <2> HIDE DEF paid, seized
  <2>4. /\ positions'[u].debt = positions[u].debt - n
        /\ positions'[u].collateral = positions[u].collateral - seized
        /\ \A v \in Users : v # u => positions'[v] = positions[v]
    BY <1>0, <2>2, <2>3
  <2> QED BY <2>1, <2>4 DEF seized
<1>6. \/ \E u \in Users, n \in Units : depositCollateral(u, n)
      \/ \E u \in Users, n \in Units : withdrawCollateral(u, n)
      \/ \E u \in Users, n \in Units : mintStableCoin(u, n)
      \/ \E u \in Users, n \in Units : repayDebt(u, n)
      \/ \E l, u \in Users, n \in Units \cup {0} : liquidate(l, u, n)
  BY DEF Next, vars, setVault, setStableCoin, Transfer, updateRiskParams, setPrice,
         setPaused
<1>7. CASE \E u \in Users, n \in Units : depositCollateral(u, n)
  BY <1>0, <1>1, <1>7
<1>8. CASE \E u \in Users, n \in Units : withdrawCollateral(u, n)
  BY <1>0, <1>2, <1>8
<1>9. CASE \E u \in Users, n \in Units : mintStableCoin(u, n)
  BY <1>0, <1>3, <1>9
<1>10. CASE \E u \in Users, n \in Units : repayDebt(u, n)
  BY <1>0, <1>4, <1>10
<1>11. CASE \E l, u \in Users, n \in Units \cup {0} : liquidate(l, u, n)
  BY <1>0, <1>5, <1>11
<1> QED BY <1>6, <1>7, <1>8, <1>9, <1>10, <1>11

\* No step lets a borrower gain from the rounded-down quotients: whoever raises a
\* debt or takes collateral out from under one is covered at the exact ratio.
THEOREM BorrowingStaysCovered == Spec => BorrowingIsCovered
<1> DEFINE Covered ==
      \A u \in Users :
        \/ positions'[u].debt > positions[u].debt
        \/ positions'[u].debt = positions[u].debt
           /\ positions'[u].collateral < positions[u].collateral
           /\ collateralOf'[u] > collateralOf[u]
           /\ positions[u].debt > 0
        => ExactlyCovered(positions'[u])
<1>1. VaultInv /\ VaultInv' /\ [Next]_vars => [Covered]_positions
  <2> SUFFICES ASSUME VaultInv, VaultInv', [Next]_vars, positions' # positions,
                      NEW w \in Users,
                      \/ positions'[w].debt > positions[w].debt
                      \/ /\ positions'[w].debt = positions[w].debt
                         /\ positions'[w].collateral < positions[w].collateral
                         /\ positions[w].debt > 0
               PROVE  ExactlyCovered(positions'[w])
    OBVIOUS
  <2>1. /\ TypeOK
        /\ \A v \in Users : /\ positions[v].debt \in Nat
                            /\ positions[v].collateral \in Nat
                            /\ positions'[v].debt \in Nat
                            /\ positions'[v].collateral \in Nat
    BY DEF VaultInv, TypeOK
  <2>2. PICK u \in Users, n \in Nat :
           /\ \A v \in Users : v # u => positions'[v] = positions[v]
           /\ \/ /\ positions'[u].debt = positions[u].debt
                 /\ positions'[u].collateral = positions[u].collateral + n
              \/ /\ positions'[u].debt = positions[u].debt
                 /\ positions'[u].collateral = positions[u].collateral - n
                 /\ meetsMinRatio(positions'[u].collateral, positions'[u].debt)
              \/ /\ positions'[u].debt = positions[u].debt + n
                 /\ positions'[u].collateral = positions[u].collateral
                 /\ meetsMinRatio(positions'[u].collateral, positions'[u].debt)
              \/ /\ positions'[u].debt = positions[u].debt - n
                 /\ positions'[u].collateral = positions[u].collateral
              \/ /\ priceScaled # 0
                 /\ positions'[u].debt = positions[u].debt - n
                 /\ positions'[u].collateral
                      = positions[u].collateral - collateralSeized(u, n)
    BY PositionSteps
  <2>3. w = u
    BY <2>1, <2>2
  <2>4. priceScaled # 0 /\ n = 0 => collateralSeized(u, n) = 0
    BY <2>1, SeizureIsExact
  <2>5. meetsMinRatio(positions'[u].collateral, positions'[u].debt)
    BY <2>1, <2>2, <2>3, <2>4
  <2>6. positions'[u].debt \in Nat \ {0}
    BY <2>1, <2>3
  <2> QED BY <2>1, <2>3, <2>5, <2>6, RatioIsExact DEF ExactlyCovered
<1> QED BY <1>1, VaultInit, VaultNext, PTL DEF Spec, BorrowingIsCovered

\* Whatever a liquidation takes from a position is worth no more, at the oracle's
\* price, than the debt it paid off and the penalty.
THEOREM SeizureStaysBounded == Spec => SeizureIsBounded
<1> DEFINE Bounded ==
      \A u \in Users :
        LET covered == positions[u].debt - positions'[u].debt
            seized == positions[u].collateral - positions'[u].collateral
        IN  positions'[u].debt < positions[u].debt /\ seized > 0 =>
              seized * priceScaled * BpsUnit
                <= covered * (BpsUnit + risk.penalty) * PriceUnit
<1>1. VaultInv /\ VaultInv' /\ [Next]_vars => [Bounded]_positions
  <2> SUFFICES ASSUME VaultInv, VaultInv', [Next]_vars, positions' # positions,
                      NEW w \in Users,
                      positions'[w].debt < positions[w].debt,
                      positions[w].collateral - positions'[w].collateral > 0
               PROVE  (positions[w].collateral - positions'[w].collateral)
                          * priceScaled * BpsUnit
                        <= (positions[w].debt - positions'[w].debt)
                             * (BpsUnit + risk.penalty) * PriceUnit
    OBVIOUS
  <2>1. /\ TypeOK
        /\ \A v \in Users : /\ positions[v].debt \in Nat
                            /\ positions[v].collateral \in Nat
                            /\ positions'[v].debt \in Nat
                            /\ positions'[v].collateral \in Nat
    BY DEF VaultInv, TypeOK
  <2>2. PICK u \in Users, n \in Nat :
           /\ \A v \in Users : v # u => positions'[v] = positions[v]
           /\ \/ positions'[u].debt = positions[u].debt
              \/ positions'[u].debt = positions[u].debt + n
              \/ positions'[u].collateral = positions[u].collateral
              \/ /\ priceScaled # 0
                 /\ positions'[u].debt = positions[u].debt - n
                 /\ positions'[u].collateral
                      = positions[u].collateral - collateralSeized(u, n)
    BY PositionSteps
  <2>3. w = u
    BY <2>1, <2>2
  <2>4. /\ priceScaled # 0
        /\ positions'[u].debt = positions[u].debt - n
        /\ positions'[u].collateral
             = positions[u].collateral - collateralSeized(u, n)
    BY <2>1, <2>2, <2>3
  <2>5. collateralSeized(u, n) \in Nat
    BY <2>1, <2>4, SeizedType
  <2>6. /\ positions[w].collateral - positions'[w].collateral
             = collateralSeized(u, n)
        /\ positions[w].debt - positions'[w].debt = n
    BY <2>1, <2>3, <2>4, <2>5
  <2> QED BY <2>1, <2>4, <2>6, SeizureIsExact
<1> QED BY <1>1, VaultInit, VaultNext, PTL DEF Spec, SeizureIsBounded
-----------------------------------------------------------------------------
(* The paymaster *)

\* Nothing is recorded for the days to come.
FutureIsBlank ==
  \A s \in Senders : \A d \in Days : d > day => sponsoredToday[s][d] = 0

\* What the executed operations of a bundle may have cost on top of what the
\* validations saw: one operation at its worst for each place that the operations
\* not yet executed leave.
Unseen == IF executing THEN (MaxOps - Len(bundle)) * MaxCost ELSE 0

\* Every operation that waits was validated today, and its sender's gas with its
\* worst case fits under the cap and what the validation could not see.
WaitingFits ==
  \A i \in 1..Len(bundle) :
    /\ bundle[i].dayBucket = day
    /\ sponsoredToday[bundle[i].sender][day] + bundle[i].maxCost <= highestCap + Unseen

PaymasterInv ==
  /\ PaymasterTypeOK
  /\ executing => bundle # << >>
  /\ dailySponsorshipCapWei <= highestCap
  /\ FutureIsBlank
  /\ WaitingFits
  /\ SponsorshipBounded

\* What PaymasterInv says, in the form the steps below use it.
LEMMA PaymasterTypes ==
  ASSUME PaymasterInv
  PROVE  /\ dailySponsorshipCapWei \in Nat /\ highestCap \in Nat
         /\ \A s \in Senders : sponsoredToday[s][day] \in Nat
         /\ day \in Nat /\ day \in Days
         /\ Len(bundle) \in Nat /\ Len(bundle) <= MaxOps
         /\ \A i \in 1..Len(bundle) :
              /\ bundle[i] \in Operation /\ bundle[i].sender \in Senders
              /\ bundle[i].maxCost \in Nat /\ bundle[i].maxCost <= MaxCost
         /\ MaxCost \in Nat /\ MaxOps \in Nat \ {0}
<1>1. PaymasterTypeOK
  BY DEF PaymasterInv
<1>2. /\ dailySponsorshipCapWei \in Nat /\ highestCap \in Nat
      /\ \A s \in Senders : sponsoredToday[s][day] \in Nat
      /\ day \in Nat /\ day \in Days
      /\ MaxCost \in Nat /\ MaxOps \in Nat \ {0}
  BY <1>1, PaymasterBounds DEF PaymasterTypeOK, Days
<1>3. bundle \in Seq(Operation) /\ Len(bundle) \in Nat /\ Len(bundle) <= MaxOps
  BY <1>1 DEF PaymasterTypeOK
<1>4. \A i \in 1..Len(bundle) : bundle[i] \in Operation
  BY <1>3, ElementOfSeq
<1>5. \A x \in Operation : /\ x.sender \in Senders
                           /\ x.maxCost \in Nat /\ x.maxCost <= MaxCost
  BY <1>2 DEF Operation
<1> QED BY <1>2, <1>3, <1>4, <1>5

\* A place more in the bundle is an operation more that no validation saw.
LEMMA UnseenGrows ==
  ASSUME NEW m \in Nat \ {0}, m <= MaxOps
  PROVE  /\ (MaxOps - m) * MaxCost \in Nat
         /\ (MaxOps - (m - 1)) * MaxCost = (MaxOps - m) * MaxCost + MaxCost
         /\ (MaxOps - m) * MaxCost <= (MaxOps - 1) * MaxCost
<1>1. MaxCost \in Nat /\ MaxOps \in Nat \ {0}
  BY PaymasterBounds
<1>2. /\ MaxOps - m \in Nat /\ MaxOps - 1 \in Nat /\ MaxOps - m <= MaxOps - 1
      /\ MaxOps - (m - 1) = (MaxOps - m) + 1
  BY <1>1
<1>3. ASSUME NEW a \in Nat, NEW c \in Nat
      PROVE  a * c \in Nat /\ (a + 1) * c = a * c + c
  OBVIOUS
<1> QED BY <1>1, <1>2, <1>3, Grows

\* Nothing is sponsored and no bundle is open.
LEMMA PaymasterStart == PaymasterInit => PaymasterInv
<1> SUFFICES ASSUME PaymasterInit PROVE PaymasterInv
  OBVIOUS
<1>1. 0 \in Days /\ MaxCost \in Nat /\ MaxOps - 1 \in Nat
  BY PaymasterBounds DEF Days
<1>2. dailySponsorshipCapWei \in Nat /\ highestCap = dailySponsorshipCapWei
  BY PaymasterBounds DEF PaymasterInit
<1>3. /\ bundle = << >> /\ Len(bundle) = 0 /\ bundle \in Seq(Operation)
      /\ executing = FALSE /\ day = 0
      /\ \A s \in Senders : sponsoredToday[s][day] = 0
  BY <1>1 DEF PaymasterInit
<1>4. PaymasterTypeOK
  <2>1. /\ dailySponsorshipCapWei \in DailyCaps
        /\ sponsoredToday \in [Senders -> [Days -> Nat]]
    BY DEF PaymasterInit
  <2>2. Len(bundle) <= MaxOps
    BY <1>3, PaymasterBounds
  <2>3. executing \in BOOLEAN
    BY <1>3, Zenon
  <2> QED BY <1>1, <1>2, <1>3, <2>1, <2>2, <2>3 DEF PaymasterTypeOK
<1>5. FutureIsBlank
  BY <1>1 DEF PaymasterInit, FutureIsBlank
<1>6. WaitingFits
  BY <1>3 DEF WaitingFits
<1>7. SponsorshipBounded
  <2>1. (MaxOps - 1) * MaxCost \in Nat
    BY <1>1
  <2> QED BY <1>2, <1>3, <2>1 DEF SponsorshipBounded
<1> QED BY <1>2, <1>3, <1>4, <1>5, <1>6, <1>7 DEF PaymasterInv

\* Every action of the paymaster and its EntryPoint preserves the invariant.
LEMMA PaymasterStep == PaymasterInv /\ [PaymasterNext]_paymasterVars => PaymasterInv'
<1> SUFFICES ASSUME PaymasterInv, [PaymasterNext]_paymasterVars PROVE PaymasterInv'
  OBVIOUS
<1>0. /\ PaymasterTypeOK /\ FutureIsBlank /\ WaitingFits /\ SponsorshipBounded
      /\ executing => bundle # << >>
      /\ dailySponsorshipCapWei <= highestCap
      /\ (MaxOps - 1) * MaxCost \in Nat
      /\ bundle \in Seq(Operation)
      /\ sponsoredToday \in [Senders -> [Days -> Nat]]
  <2>1. (MaxOps - 1) * MaxCost \in Nat
    BY PaymasterBounds, UnseenGrows
  <2> QED BY <2>1 DEF PaymasterInv, PaymasterTypeOK
<1>1. ASSUME NEW n \in DailyCaps, setDailySponsorshipCap(n) PROVE PaymasterInv'
  <2>1. /\ bundle = << >> /\ n \in Nat
        /\ dailySponsorshipCapWei' = n
        /\ highestCap' = IF n > highestCap THEN n ELSE highestCap
        /\ UNCHANGED <<sponsoredToday, day, bundle, executing>>
    BY <1>1, PaymasterBounds DEF setDailySponsorshipCap
  <2>2. highestCap' \in Nat /\ highestCap' >= highestCap /\ n <= highestCap'
    BY <2>1, PaymasterTypes
  <2>3. PaymasterTypeOK'
    BY <1>0, <2>1, <2>2 DEF PaymasterTypeOK
  <2>4. FutureIsBlank'
    BY <1>0, <2>1 DEF FutureIsBlank
  <2>5. WaitingFits'
    BY <2>1 DEF WaitingFits
  <2>6. SponsorshipBounded'
    BY <1>0, <2>1, <2>2, PaymasterTypes DEF SponsorshipBounded
  <2> QED BY <1>0, <2>1, <2>2, <2>3, <2>4, <2>5, <2>6 DEF PaymasterInv
<1>2. ASSUME NEW s \in Senders, NEW n \in 0..MaxCost, validatePaymasterUserOp(s, n)
      PROVE  PaymasterInv'
  <2> DEFINE op == [sender |-> s, dayBucket |-> day, maxCost |-> n]
  <2>1. /\ ~executing /\ Len(bundle) < MaxOps
        /\ sponsoredToday[s][day] + n <= dailySponsorshipCapWei
        /\ bundle' = Append(bundle, op)
        /\ UNCHANGED <<dailySponsorshipCapWei, sponsoredToday, day, executing,
                       highestCap>>
    BY <1>2 DEF validatePaymasterUserOp, WithinCap
  <2>2. op \in Operation
    BY <1>0, PaymasterTypes DEF Operation
  <2>3. /\ op.sender = s /\ op.dayBucket = day /\ op.maxCost = n
    OBVIOUS
  <2> HIDE DEF op
  <2>4. /\ bundle' \in Seq(Operation) /\ Len(bundle') = Len(bundle) + 1
        /\ \A i \in 1..Len(bundle) : bundle'[i] = bundle[i]
        /\ bundle'[Len(bundle) + 1] = op
        /\ Len(bundle) \in Nat
    BY <1>0, <2>1, <2>2
  <2>5. PaymasterTypeOK'
    BY <1>0, <2>1, <2>4, PaymasterBounds DEF PaymasterTypeOK
  <2>6. FutureIsBlank'
    BY <1>0, <2>1 DEF FutureIsBlank
  <2>7. WaitingFits'
    <3>1. Unseen' = 0 /\ Unseen = 0
      BY <2>1 DEF Unseen
    <3>2. sponsoredToday[s][day] + n <= highestCap
      BY <1>0, <2>1, PaymasterTypes DEF FutureIsBlank
    <3>3. ASSUME NEW i \in 1..Len(bundle')
          PROVE  /\ bundle'[i].dayBucket = day
                 /\ sponsoredToday[bundle'[i].sender][day] + bundle'[i].maxCost <= highestCap + 0
      <4>1. CASE i \in 1..Len(bundle)
        BY <1>0, <2>4, <3>1, <4>1 DEF WaitingFits
      <4>2. CASE i = Len(bundle) + 1
        BY <2>3, <2>4, <3>2, <4>2, PaymasterTypes
      <4> QED BY <2>4, <4>1, <4>2
    <3> QED BY <2>1, <3>1, <3>3 DEF WaitingFits
  <2>8. SponsorshipBounded'
    BY <1>0, <2>1 DEF SponsorshipBounded
  <2> QED BY <1>0, <2>1, <2>5, <2>6, <2>7, <2>8 DEF PaymasterInv
<1>3. ASSUME ExecuteBundle PROVE PaymasterInv'
  <2>1. /\ ~executing /\ bundle # << >> /\ executing' = TRUE
        /\ UNCHANGED <<dailySponsorshipCapWei, sponsoredToday, day, bundle,
                       highestCap>>
    BY <1>3 DEF ExecuteBundle
  <2>2. Len(bundle) \in Nat \ {0} /\ Len(bundle) <= MaxOps
    BY <1>0, <2>1, PaymasterTypes
  <2>3. Unseen = 0 /\ Unseen' \in Nat
    BY <2>1, <2>2, UnseenGrows DEF Unseen
  <2>4. PaymasterTypeOK' /\ FutureIsBlank' /\ SponsorshipBounded'
    BY <1>0, <2>1 DEF PaymasterTypeOK, FutureIsBlank, SponsorshipBounded
  <2>5. WaitingFits'
    <3>1. ASSUME NEW i \in 1..Len(bundle)
          PROVE  /\ bundle[i].dayBucket = day
                 /\ sponsoredToday[bundle[i].sender][day] + bundle[i].maxCost
                      <= highestCap + Unseen'
      <4>1. /\ bundle[i].dayBucket = day
            /\ sponsoredToday[bundle[i].sender][day] + bundle[i].maxCost <= highestCap + 0
        BY <1>0, <2>3 DEF WaitingFits
      <4>2. bundle[i].maxCost \in Nat /\ sponsoredToday[bundle[i].sender][day] \in Nat /\ highestCap \in Nat
        BY PaymasterTypes
      <4> QED BY <2>3, <4>1, <4>2
    <3> QED BY <2>1, <3>1 DEF WaitingFits
  <2> QED BY <1>0, <2>1, <2>4, <2>5 DEF PaymasterInv
<1>4. ASSUME NEW n \in 0..MaxCost, NextOperation, n <= Head(bundle).maxCost,
             sponsoredToday' = [sponsoredToday EXCEPT
               ![Head(bundle).sender][Head(bundle).dayBucket] = @ + n]
      PROVE  PaymasterInv'
  <2> DEFINE s == bundle[1].sender
             m == Len(bundle)
  <2>1. /\ executing /\ bundle # << >>
        /\ n <= bundle[1].maxCost
        /\ sponsoredToday' = [sponsoredToday EXCEPT ![s][bundle[1].dayBucket] = @ + n]
        /\ bundle' = Tail(bundle)
        /\ executing' \in BOOLEAN /\ (executing' <=> Len(bundle) > 1)
        /\ UNCHANGED <<dailySponsorshipCapWei, day, highestCap>>
    <3>1. executing /\ executing' = (Len(bundle) > 1)
      BY <1>4 DEF NextOperation
    <3>2. executing' \in BOOLEAN /\ (executing' <=> Len(bundle) > 1)
      <4>1. (Len(bundle) > 1) \in BOOLEAN
        BY SMT
      <4> QED BY <3>1, <4>1, Zenon
    <3>3. bundle # << >> /\ Head(bundle) = bundle[1]
      BY <1>0, <3>1
    <3> QED BY <1>4, <3>1, <3>2, <3>3 DEF NextOperation
  <2>2. /\ m \in Nat \ {0} /\ m <= MaxOps /\ 1 \in 1..m
        /\ bundle' \in Seq(Operation) /\ Len(bundle') = m - 1
        /\ \A i \in 1..(m - 1) : i + 1 \in 1..m /\ bundle'[i] = bundle[i + 1]
        /\ m > 1 => bundle' # << >>
    <3>1. m \in Nat \ {0} /\ m <= MaxOps /\ 1 \in 1..m
      BY <1>0, <2>1, PaymasterTypes
    <3>2. /\ bundle' \in Seq(Operation) /\ Len(bundle') = m - 1
          /\ \A i \in 1..(m - 1) : bundle'[i] = bundle[i + 1]
      BY <1>0, <2>1, HeadTailProperties
    <3>3. m > 1 => bundle' # << >>
      BY <3>1, <3>2
    <3> QED BY <3>1, <3>2, <3>3
  <2>3. /\ s \in Senders /\ n \in Nat /\ bundle[1].maxCost \in Nat
        /\ bundle[1].dayBucket = day /\ day \in Days /\ n <= MaxCost
        /\ MaxCost \in Nat /\ highestCap \in Nat
    BY <1>0, <2>2, PaymasterTypes DEF WaitingFits
  <2>4. sponsoredToday[s][day] + bundle[1].maxCost <= highestCap + (MaxOps - m) * MaxCost
    BY <1>0, <2>1, <2>2 DEF WaitingFits, Unseen
  <2>5. /\ (MaxOps - m) * MaxCost \in Nat
        /\ (MaxOps - (m - 1)) * MaxCost = (MaxOps - m) * MaxCost + MaxCost
        /\ (MaxOps - m) * MaxCost <= (MaxOps - 1) * MaxCost
    BY <2>2, UnseenGrows
  <2>6. /\ sponsoredToday' \in [Senders -> [Days -> Nat]]
        /\ sponsoredToday'[s][day] = sponsoredToday[s][day] + n
        /\ \A d \in Days : d # day => sponsoredToday'[s][d] = sponsoredToday[s][d]
        /\ \A v \in Senders : v # s => sponsoredToday'[v] = sponsoredToday[v]
    BY <1>0, <2>1, <2>3
  <2>7. ASSUME NEW v \in Senders
        PROVE  /\ sponsoredToday[v][day] \in Nat /\ sponsoredToday'[v][day] \in Nat
               /\ sponsoredToday'[v][day] <= sponsoredToday[v][day] + MaxCost
    <3>1. sponsoredToday[v][day] \in Nat /\ sponsoredToday'[v][day] \in Nat
      BY <1>0, <2>3, <2>6
    <3>2. CASE v = s
      BY <2>3, <2>6, <3>1, <3>2
    <3>3. CASE v # s
      BY <2>3, <2>6, <3>1, <3>3
    <3> QED BY <3>1, <3>2, <3>3
  <2>8. PaymasterTypeOK'
    <3>1. Len(bundle') <= MaxOps
      BY <2>2, PaymasterBounds
    <3> QED BY <1>0, <2>1, <2>2, <2>6, <2>7, <3>1 DEF PaymasterTypeOK
  <2>9. FutureIsBlank'
    <3>1. \A d \in Days : d > day => d # day
      BY <2>3, PaymasterBounds DEF Days
    <3> QED BY <1>0, <2>1, <2>6, <3>1 DEF FutureIsBlank
  <2> HIDE DEF s, m
  <2>10. WaitingFits'
    <3>1. ASSUME NEW i \in 1..(m - 1)
          PROVE  /\ bundle'[i].dayBucket = day
                 /\ sponsoredToday'[bundle'[i].sender][day] + bundle'[i].maxCost
                      <= highestCap + Unseen'
      <4>1. Unseen' = (MaxOps - m) * MaxCost + MaxCost
        <5>1. executing'
          BY <2>1, <2>2 DEF m
        <5> QED BY <2>2, <2>5, <5>1 DEF Unseen
      <4>2. /\ bundle[i + 1].dayBucket = day
            /\ sponsoredToday[bundle[i + 1].sender][day] + bundle[i + 1].maxCost
                 <= highestCap + (MaxOps - m) * MaxCost
        BY <1>0, <2>1, <2>2 DEF WaitingFits, Unseen, m
      <4>3. /\ bundle[i + 1].sender \in Senders /\ bundle[i + 1].maxCost \in Nat
        BY <2>2, PaymasterTypes DEF m
      <4>4. bundle'[i] = bundle[i + 1]
        BY <2>2
      <4> QED BY <2>3, <2>5, <2>7, <4>1, <4>2, <4>3, <4>4
    <3> QED BY <2>1, <2>2, <3>1 DEF WaitingFits
  <2>11. SponsorshipBounded'
    <3>1. sponsoredToday'[s][day] <= highestCap + (MaxOps - 1) * MaxCost
      <4>1. ASSUME NEW a \in Nat, NEW b \in Nat, NEW c \in Nat, NEW h \in Nat,
                   NEW x \in Nat, NEW y \in Nat,
                   a + b <= h + x, c <= b, x <= y
            PROVE  a + c <= h + y
        BY <4>1
      <4> HIDE DEF s
      <4>2. sponsoredToday[s][day] \in Nat /\ sponsoredToday'[s][day] = sponsoredToday[s][day] + n
        BY <2>3, <2>6, <2>7
      <4> QED BY <1>0, <2>1, <2>3, <2>4, <2>5, <4>1, <4>2
    <3> QED BY <1>0, <2>1, <2>6, <3>1 DEF SponsorshipBounded
  <2> QED BY <1>0, <2>1, <2>2, <2>8, <2>9, <2>10, <2>11 DEF PaymasterInv, m
<1>5. ASSUME NEW n \in 0..MaxCost, postOp(n) PROVE PaymasterInv'
  BY <1>4, <1>5 DEF postOp
<1>6. ASSUME PostOpReverted PROVE PaymasterInv'
  <2>1. NextOperation /\ executing /\ sponsoredToday' = sponsoredToday
    BY <1>6 DEF PostOpReverted, NextOperation
  <2>2. /\ Head(bundle) = bundle[1] /\ bundle[1].sender \in Senders
        /\ bundle[1].dayBucket \in Days /\ bundle[1].maxCost \in Nat
    <3>1. 1 \in 1..Len(bundle) /\ Head(bundle) = bundle[1]
      BY <1>0, <2>1
    <3>2. bundle[1] \in Operation /\ bundle[1].sender \in Senders /\ bundle[1].maxCost \in Nat
      BY <3>1, PaymasterTypes
    <3> QED BY <3>1, <3>2 DEF Operation
  <2>3. ASSUME NEW f \in [Senders -> [Days -> Nat]], NEW v \in Senders, NEW d \in Days
        PROVE  f = [f EXCEPT ![v][d] = @ + 0]
    OBVIOUS
  <2>4. sponsoredToday' = [sponsoredToday EXCEPT
          ![Head(bundle).sender][Head(bundle).dayBucket] = @ + 0]
    BY <1>0, <2>1, <2>2, <2>3
  <2>5. 0 \in 0..MaxCost /\ 0 <= Head(bundle).maxCost
    BY <2>2, PaymasterBounds
  <2> QED BY <1>4, <2>1, <2>4, <2>5
<1>7. ASSUME NextDay PROVE PaymasterInv'
  <2>1. /\ bundle = << >> /\ day < MaxDay /\ day' = day + 1
        /\ highestCap' = dailySponsorshipCapWei
        /\ UNCHANGED <<dailySponsorshipCapWei, sponsoredToday, bundle, executing>>
    BY <1>7 DEF NextDay
  <2>2. day \in Nat /\ day' \in Days /\ \A d \in Days : d \in Nat
    BY <2>1, PaymasterTypes, PaymasterBounds DEF Days
  <2>3. PaymasterTypeOK'
    BY <1>0, <2>1, <2>2, PaymasterTypes DEF PaymasterTypeOK
  <2>4. FutureIsBlank'
    BY <1>0, <2>1, <2>2 DEF FutureIsBlank
  <2>5. WaitingFits'
    BY <2>1 DEF WaitingFits
  <2>6. SponsorshipBounded'
    <3>1. \A s \in Senders : sponsoredToday'[s][day'] = 0
      BY <1>0, <2>1, <2>2 DEF FutureIsBlank
    <3> QED BY <1>0, <2>1, <3>1, PaymasterTypes DEF SponsorshipBounded
  <2>7. dailySponsorshipCapWei' <= highestCap'
    BY <2>1, PaymasterTypes
  <2> QED BY <1>0, <2>1, <2>3, <2>4, <2>5, <2>6, <2>7 DEF PaymasterInv
<1>8. CASE UNCHANGED paymasterVars
  BY <1>0, <1>8
  DEF paymasterVars, PaymasterInv, PaymasterTypeOK, FutureIsBlank, WaitingFits, Unseen,
      SponsorshipBounded
<1> QED BY <1>1, <1>2, <1>3, <1>5, <1>6, <1>7, <1>8 DEF PaymasterNext

\* The gas recorded for a sender and a day passes the highest cap of that day by
\* less than one bundle, for any caps, costs and bundle size, although all the
\* operations of a bundle are validated against the same record and some of them
\* may never be recorded.
THEOREM SponsorshipStaysBounded == PaymasterSpec => []SponsorshipBounded
<1>1. PaymasterInv => SponsorshipBounded
  BY DEF PaymasterInv
<1> QED BY <1>1, PaymasterStart, PaymasterStep, PTL DEF PaymasterSpec
=============================================================================
