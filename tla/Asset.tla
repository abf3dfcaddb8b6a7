---- MODULE Asset ----
(***************************************************************************)
(* The underlying asset: a Stellar Asset Contract, outside the repository, *)
(* modelled from how the contracts call it (transfer and balance).  A      *)
(* transfer of more than the sender holds traps and so is not a step.      *)
(***************************************************************************)
EXTENDS Integers

CONSTANTS
    Accounts,       \* every address that can hold the asset
    InitialFunds    \* what each account holds before the vault exists

ASSUME InitialFundsAssumption == InitialFunds \in [Accounts -> Nat]

VARIABLE assetBal

AssetInit == assetBal = InitialFunds

AssetTypeOK == assetBal \in [Accounts -> Nat]

AssetTransfer(from, to, amount) ==
    /\ assetBal[from] >= amount
    /\ assetBal' = [assetBal EXCEPT ![from] = @ - amount, ![to] = @ + amount]
====
