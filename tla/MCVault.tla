------------------------------- MODULE MCVault -------------------------------
(***************************************************************************)
(* The contracts that touch neither claims nor policies, on small          *)
(* instances: two users; both fixed-point units of the vault are 2, so a   *)
(* price of 1 is half a dollar and a minimum ratio of 3 is 150 per cent.   *)
(* A price of 0 is a value the oracle accepts.  The paymaster shares the   *)
(* users and nothing else, so a behaviour uses one of the two.             *)
(***************************************************************************)
EXTENDS Vault, ClaimGasPaymaster, TLC

Params(minRatio, penalty) == [minRatio |-> minRatio, penalty |-> penalty]
MCRisk == {Params(3, 1), Params(2, 0)}
Alike == Permutations(Users)

ContractsInit == Init /\ PaymasterInit
ContractsNext ==
  \/ Next /\ UNCHANGED paymasterVars
  \/ PaymasterNext /\ UNCHANGED vars
ContractsSpec == ContractsInit /\ [][ContractsNext]_<<vars, paymasterVars>>

\* Bound: the vault or the paymaster is as it was deployed, with one choice of
\* its parameters.
OneContract ==
  \/ PaymasterInit /\ dailySponsorshipCapWei = 3
  \/ Init /\ risk = Params(3, 1) /\ priceScaled = 1
=============================================================================
