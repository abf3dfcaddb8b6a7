---- MODULE HikariSystemProofs ----
(***************************************************************************)
(* What the on-chain core guarantees for every deployment: any number of   *)
(* holders, strategies and agents, any amounts, caps and limits.           *)
(*                                                                         *)
(* The lemmas first say what each component's operation does to the        *)
(* numbers; the theorems then take one step per action of Next.            *)
(***************************************************************************)
EXTENDS HikariSystem, ArithmeticProofs

----
(* What the operations of the components do.                               *)

(* A transfer between two accounts moves the amount and nothing else.      *)
LEMMA TransferMoves ==
    ASSUME AssetTypeOK, NEW from \in Accounts, NEW to \in Accounts, from # to,
           NEW amount \in Nat, AssetTransfer(from, to, amount)
    PROVE  /\ AssetTypeOK'
           /\ assetBal'[from] = assetBal[from] - amount
           /\ assetBal'[to] = assetBal[to] + amount
           /\ \A x \in Accounts \ {from, to} : assetBal'[x] = assetBal[x]
  BY DEF AssetTypeOK, AssetTransfer

(* Minting keeps the supply equal to the sum of the balances.              *)
LEMMA MintKeepsSum ==
    ASSUME TokenTypeOK, SupplyIsSum, NEW to \in Holders, NEW amount \in Nat,
           Mint(Vault, to, amount)
    PROVE  /\ TokenTypeOK'
           /\ SupplyIsSum'
           /\ totalSupply' = totalSupply + amount
<1>1. shareBal' = [shareBal EXCEPT ![to] = shareBal[to] + amount]
  BY DEF Mint, ReceiveBalance
<1>2. shareBal \in [Holders -> Nat] /\ shareBal[to] + amount \in Nat
  BY DEF TokenTypeOK
<1>3. Total(shareBal') = Total(shareBal) - shareBal[to] + (shareBal[to] + amount)
  BY <1>1, <1>2, TotalUpdate, HoldersAssumption
<1>4. TokenTypeOK'
  BY <1>1, <1>2 DEF TokenTypeOK, Mint
<1>5. Total(shareBal) \in Nat
  BY <1>2, TotalBounds, HoldersAssumption
<1>6. SupplyIsSum'
  BY <1>2, <1>3, <1>5 DEF SupplyIsSum, Mint, TokenTypeOK
<1> QED
  BY <1>4, <1>6 DEF Mint

(* Burning keeps it too, and cannot take the supply below zero.            *)
LEMMA BurnKeepsSum ==
    ASSUME TokenTypeOK, SupplyIsSum, NEW from \in Holders, NEW amount \in Nat,
           Burn(Vault, from, amount)
    PROVE  /\ TokenTypeOK'
           /\ SupplyIsSum'
           /\ amount <= totalSupply
           /\ totalSupply' = totalSupply - amount
<1>1. shareBal' = [shareBal EXCEPT ![from] = shareBal[from] - amount]
  BY DEF Burn, SpendBalance
<1>2. shareBal \in [Holders -> Nat] /\ shareBal[from] - amount \in Nat
  BY DEF TokenTypeOK, Burn
<1>3. Total(shareBal') = Total(shareBal) - shareBal[from] + (shareBal[from] - amount)
  BY <1>1, <1>2, TotalUpdate, HoldersAssumption
<1>4. Total(shareBal) \in Nat /\ shareBal[from] <= Total(shareBal)
  BY <1>2, TotalBounds, HoldersAssumption
<1>5. amount <= totalSupply /\ totalSupply' = totalSupply - amount
  BY <1>2, <1>4 DEF SupplyIsSum, Burn
<1>6. TokenTypeOK'
  BY <1>1, <1>2, <1>5 DEF TokenTypeOK, Burn
<1>7. SupplyIsSum'
  BY <1>2, <1>3, <1>4, <1>5 DEF SupplyIsSum
<1> QED
  BY <1>5, <1>6, <1>7

(* A transfer of shares keeps it, to oneself included.                     *)
LEMMA TransferSharesKeepsSum ==
    ASSUME TokenTypeOK, SupplyIsSum, NEW from \in Holders, NEW to \in Holders,
           NEW amount \in Nat, TransferShares(from, to, amount)
    PROVE  TokenTypeOK' /\ SupplyIsSum'
<1> DEFINE mid == [shareBal EXCEPT ![from] = shareBal[from] - amount]
<1>1. shareBal \in [Holders -> Nat] /\ shareBal[from] - amount \in Nat
  BY DEF TokenTypeOK, TransferShares, MoveShares
<1>2. mid \in [Holders -> Nat]
  BY <1>1
<1>3. Total(mid) = Total(shareBal) - shareBal[from] + (shareBal[from] - amount)
  BY <1>1, TotalUpdate, HoldersAssumption
<1>4. shareBal' = ReceiveBalance(mid, to, amount)
  BY DEF TransferShares, MoveShares, SpendBalance
<1> HIDE DEF mid
<1>5. shareBal' = [mid EXCEPT ![to] = mid[to] + amount] /\ mid[to] + amount \in Nat
  BY <1>2, <1>4 DEF ReceiveBalance
<1>6. Total(shareBal') = Total(mid) - mid[to] + (mid[to] + amount)
  BY <1>2, <1>5, TotalUpdate, HoldersAssumption
<1>7. Total(mid) \in Nat /\ Total(shareBal) \in Nat
  BY <1>1, <1>2, TotalBounds, HoldersAssumption
<1>8. Total(shareBal') = Total(shareBal)
  BY <1>1, <1>2, <1>3, <1>6, <1>7
<1>9. shareBal' \in [Holders -> Nat]
  BY <1>2, <1>5
<1> QED
  BY <1>8, <1>9 DEF TokenTypeOK, SupplyIsSum, TransferShares

(* Both conversions yield natural numbers, rounded down.                   *)
LEMMA ConversionsRoundDown ==
    ASSUME TokenTypeOK, VaultTypeOK, NEW n \in Nat
    PROVE  /\ ConvertToShares(n) \in Nat
           /\ ConvertToShares(n) * (TotalAssets + 1) <= n * (totalSupply + 1000)
           /\ ConvertToAssets(n) \in Nat
           /\ ConvertToAssets(n) * (totalSupply + 1000) <= n * (TotalAssets + 1)
<1> DEFINE S == totalSupply + 1000
           A == TotalAssets + 1
<1>1. S \in Nat \ {0} /\ A \in Nat \ {0}
  BY DEF TokenTypeOK, VaultTypeOK, TotalAssets
<1>2. ConvertToShares(n) = (n * S) \div A /\ ConvertToAssets(n) = (n * A) \div S
  BY DEF ConvertToShares, ConvertToAssets, VIRTUAL_SHARES, VIRTUAL_ASSETS
<1> HIDE DEF S, A
<1>3. n * S \in Nat /\ n * A \in Nat
  BY <1>1, Z3
<1>4. (n * S) \div A \in Nat /\ ((n * S) \div A) * A <= n * S
  BY <1>1, <1>3, DivFloor
<1>5. (n * A) \div S \in Nat /\ ((n * A) \div S) * S <= n * A
  BY <1>1, <1>3, DivFloor
<1> QED
  BY <1>2, <1>4, <1>5 DEF S, A

(* What an adapter does with a deposit.                                    *)
LEMMA DepositBooks ==
    ASSUME AdapterTypeOK, NEW s \in Strategies, NEW amount \in Nat,
           AdapterDeposit(s, amount)
    PROVE  /\ AdapterTypeOK'
           /\ ~adapterPaused[s] /\ adapterPaused' = adapterPaused
           /\ principal' = [principal EXCEPT ![s] = principal[s] + amount]
           /\ yield' = yield
<1>1. UnitsForDeposit(s, amount) \in Nat
  <2> DEFINE scaled == amount * 1000
  <2>1. tickWidth[s] \in TickWidths /\ TickWidths \subseteq Nat \ {0}
    BY AdapterAssumption DEF AdapterTypeOK
  <2>2. scaled \in Nat
    OBVIOUS
  <2> HIDE DEF scaled
  <2>3. scaled \div tickWidth[s] \in Nat
    BY <2>1, <2>2, DivFloor
  <2>4. CASE Kind[s] = "phoenix"
    BY <2>3, <2>4 DEF UnitsForDeposit, scaled
  <2>5. CASE Kind[s] # "phoenix"
    BY <2>5 DEF UnitsForDeposit
  <2> QED
    BY <2>4, <2>5
<1> QED
  BY <1>1 DEF AdapterTypeOK, AdapterDeposit

(* What an adapter does with a withdrawal: its value shrinks by the amount *)
(* whichever book pays, and every contract but Phoenix sends the amount.   *)
LEMMA WithdrawBooks ==
    ASSUME AssetTypeOK, AdapterTypeOK, NEW s \in Strategies, NEW amount \in Nat,
           AdapterWithdraw(s, amount)
    PROVE  /\ AssetTypeOK' /\ AdapterTypeOK'
           /\ adapterPaused' = adapterPaused
           /\ amount <= TotalValue(s)
           /\ principal'[s] + yield'[s] = TotalValue(s) - amount
           /\ principal'[s] = Monus(principal[s], Monus(amount, yield[s]))
           /\ principal'[s] <= principal[s] /\ yield'[s] <= yield[s]
           /\ \A t \in Strategies \ {s} : principal'[t] = principal[t] /\ yield'[t] = yield[t]
           /\ assetBal'[Vault] >= assetBal[Vault]
           /\ Kind[s] # "phoenix" => AssetTransfer(s, Vault, amount)
<1> USE AdapterAssumption
<1>1. amount <= TotalValue(s) /\ TotalValue(s) \in Nat \ {0}
  BY DEF AdapterWithdraw, TotalValue, AdapterTypeOK
<1>2. UnitsToBurn(s, amount) \in Nat
  <2>1. units[s] \in Nat
    BY DEF AdapterTypeOK
  <2>2. amount * units[s] \in Nat
    BY <2>1, Z3
  <2>3. (amount * units[s]) \div TotalValue(s) \in Nat
    BY <1>1, <2>2, DivFloor
  <2>4. CASE Kind[s] = "phoenix"
    BY <2>3, <2>4 DEF UnitsToBurn
  <2>5. CASE Kind[s] # "phoenix"
    BY <2>5 DEF UnitsToBurn
  <2> QED
    BY <2>4, <2>5
<1>3. /\ principal \in [Strategies -> Nat] /\ yield \in [Strategies -> Nat]
      /\ units \in [Strategies -> Nat]
  BY DEF AdapterTypeOK
<1>4. /\ principal' = [principal EXCEPT ![s] = Monus(principal[s], Monus(amount, yield[s]))]
      /\ yield' = [yield EXCEPT ![s] = Monus(yield[s], amount)]
      /\ units' = [units EXCEPT ![s] = Monus(units[s], UnitsToBurn(s, amount))]
  BY DEF AdapterWithdraw, DrawDown
<1>5. AdapterTypeOK'
  <2>1. \A m, n \in Nat : Monus(m, n) \in Nat
    BY DEF Monus
  <2>2. units' \in [Strategies -> Nat]
    BY <1>2, <1>3, <1>4, <2>1
  <2>3. principal' \in [Strategies -> Nat] /\ yield' \in [Strategies -> Nat]
    BY <1>3, <1>4, <2>1
  <2> QED
    BY <2>2, <2>3 DEF AdapterTypeOK, AdapterWithdraw
<1>6. principal'[s] + yield'[s] = TotalValue(s) - amount
  BY <1>1, <1>3, <1>4 DEF Monus, TotalValue
<1>7. principal'[s] <= principal[s] /\ yield'[s] <= yield[s]
  BY <1>3, <1>4 DEF Monus
<1>8. CASE Kind[s] = "phoenix" /\ assetBal[s] < amount
  <2>1. assetBal' = assetBal
    BY <1>8 DEF AdapterWithdraw
  <2> QED
    BY <1>1, <1>3, <1>4, <1>5, <1>6, <1>7, <1>8, <2>1
       DEF AssetTypeOK, AdapterWithdraw
<1>9. CASE ~(Kind[s] = "phoenix" /\ assetBal[s] < amount)
  <2>1. AssetTransfer(s, Vault, amount)
    BY <1>9 DEF AdapterWithdraw
  <2>2. AssetTypeOK' /\ assetBal'[Vault] = assetBal[Vault] + amount
    BY <2>1, TransferMoves
  <2> QED
    BY <1>1, <1>3, <1>4, <1>5, <1>6, <1>7, <2>1, <2>2
       DEF AssetTypeOK, AdapterWithdraw
<1> QED
  BY <1>8, <1>9

(* What an emergency exit does: the books are emptied for good, and every  *)
(* contract but Phoenix sends exactly what its books said.                 *)
LEMMA ExitBooks ==
    ASSUME AssetTypeOK, AdapterTypeOK, NEW s \in Strategies, AdapterEmergencyExit(s)
    PROVE  /\ AssetTypeOK' /\ AdapterTypeOK'
           /\ TotalValue(s) \in Nat
           /\ adapterPaused' = [adapterPaused EXCEPT ![s] = TRUE]
           /\ principal'[s] = 0 /\ yield'[s] = 0
           /\ \A t \in Strategies \ {s} : principal'[t] = principal[t] /\ yield'[t] = yield[t]
           /\ assetBal'[Vault] >= assetBal[Vault]
           /\ Kind[s] # "phoenix" => AssetTransfer(s, Vault, TotalValue(s))
<1> USE AdapterAssumption
<1> DEFINE sent == Recovered(s)
<1>1. TotalValue(s) \in Nat /\ sent \in Nat
  BY DEF AssetTypeOK, AdapterTypeOK, TotalValue, Recovered
<1>2. AssetTransfer(s, Vault, sent)
  BY DEF AdapterEmergencyExit
<1>3. Kind[s] # "phoenix" => AssetTransfer(s, Vault, TotalValue(s))
  BY <1>2 DEF Recovered
<1> HIDE DEF sent
<1>4. AssetTypeOK' /\ assetBal'[Vault] = assetBal[Vault] + sent
  BY <1>1, <1>2, TransferMoves
<1>5. AdapterTypeOK'
  BY DEF AdapterTypeOK, AdapterEmergencyExit, CloseBooks
<1> QED
  BY <1>1, <1>3, <1>4, <1>5 DEF AssetTypeOK, AdapterTypeOK, AdapterEmergencyExit, CloseBooks

----
(* What a step of the system does, one lemma per kind of step.             *)

(* An unregistered strategy has nothing recorded: why add_strategy may     *)
(* write a fresh record.                                                   *)
UnregisteredIsEmpty ==
    \A s \in Strategies : ~Registered(s) => registry[s].allocated = 0

(* The inductive invariant that every theorem below rests on.              *)
IInv == TypeOK /\ SupplyIsSum /\ UnregisteredIsEmpty

(* A deposit: assets in, shares out at the rounded-down rate.              *)
LEMMA DepositEffect ==
    ASSUME IInv, NEW u \in Holders, NEW amount \in Amounts, Deposit(u, amount)
    PROVE  /\ IInv' /\ ~paused
           /\ totalIdleAssets' = totalIdleAssets + amount /\ allocatedAssets' = allocatedAssets
           /\ totalSupply' = totalSupply + ConvertToShares(amount)
           /\ assetBal'[Vault] = assetBal[Vault] + amount
           /\ \A s \in Strategies : assetBal'[s] = assetBal[s]
           /\ UNCHANGED <<registry, bookVars>>
<1> USE VaultAssumption, AdapterAssumption
<1>1. amount \in Nat
  BY InputAssumption
<1>2. ConvertToShares(amount) \in Nat
  BY <1>1, ConversionsRoundDown DEF IInv, TypeOK
<1>3. TokenTypeOK' /\ SupplyIsSum' /\ totalSupply' = totalSupply + ConvertToShares(amount)
  BY <1>2, MintKeepsSum DEF IInv, TypeOK, Deposit
<1>4. /\ AssetTypeOK' /\ assetBal'[Vault] = assetBal[Vault] + amount
      /\ \A s \in Strategies : assetBal'[s] = assetBal[s]
  <2>1. u \in Accounts /\ u # Vault /\ AssetTransfer(u, Vault, amount)
    BY DEF Deposit
  <2>2. /\ AssetTypeOK' /\ assetBal'[Vault] = assetBal[Vault] + amount
        /\ \A x \in Accounts \ {u, Vault} : assetBal'[x] = assetBal[x]
    BY <1>1, <2>1, TransferMoves DEF IInv, TypeOK
  <2> QED
    BY <2>2
<1>5. VaultTypeOK'
  BY <1>1 DEF IInv, TypeOK, VaultTypeOK, Deposit
<1>6. UNCHANGED <<seq, registryVars, policyVars, bookVars>>
  BY DEF Deposit
<1>7. LedgerTypeOK' /\ RegistryTypeOK' /\ PolicyTypeOK' /\ AdapterTypeOK' /\ UnregisteredIsEmpty'
  BY <1>6 DEF IInv, TypeOK, UnregisteredIsEmpty, Registered, LedgerTypeOK, RegistryTypeOK,
              PolicyTypeOK, AdapterTypeOK, registryVars, policyVars, bookVars
<1>8. IInv'
  BY <1>3, <1>4, <1>5, <1>7 DEF IInv, TypeOK
<1> QED
  BY <1>3, <1>4, <1>6, <1>8 DEF Deposit, registryVars

(* A withdrawal: shares burnt, assets out of the idle balance.             *)
LEMMA WithdrawEffect ==
    ASSUME IInv, NEW u \in Holders, NEW shares \in ShareAmounts, Withdraw(u, shares)
    PROVE  /\ IInv' /\ ~paused
           /\ ConvertToAssets(shares) \in 0..totalIdleAssets
           /\ totalIdleAssets' = totalIdleAssets - ConvertToAssets(shares)
           /\ allocatedAssets' = allocatedAssets
           /\ shares \in 0..totalSupply /\ totalSupply' = totalSupply - shares
           /\ assetBal'[Vault] = assetBal[Vault] - ConvertToAssets(shares)
           /\ \A s \in Strategies : assetBal'[s] = assetBal[s]
           /\ UNCHANGED <<registry, bookVars>>
<1> USE VaultAssumption, AdapterAssumption
<1> DEFINE assets == ConvertToAssets(shares)
<1>1. shares \in Nat /\ totalSupply \in Nat
  BY InputAssumption DEF IInv, TypeOK, TokenTypeOK
<1>2. assets \in 0..totalIdleAssets
  <2>1. assets \in Nat
    BY <1>1, ConversionsRoundDown DEF IInv, TypeOK
  <2>2. totalIdleAssets \in Nat /\ assets <= totalIdleAssets
    BY DEF IInv, TypeOK, VaultTypeOK, Withdraw
  <2> HIDE DEF assets
  <2> QED
    BY <2>1, <2>2
<1>3. /\ TokenTypeOK' /\ SupplyIsSum'
      /\ shares <= totalSupply /\ totalSupply' = totalSupply - shares
  BY <1>1, BurnKeepsSum DEF IInv, TypeOK, Withdraw
<1>4. /\ ~paused /\ paused' = paused
      /\ totalIdleAssets' = totalIdleAssets - assets /\ allocatedAssets' = allocatedAssets
      /\ AssetTransfer(Vault, u, assets)
      /\ UNCHANGED <<seq, registryVars, policyVars, bookVars>>
  BY DEF Withdraw
<1> HIDE DEF assets
<1>5. /\ AssetTypeOK' /\ assetBal'[Vault] = assetBal[Vault] - assets
      /\ \A s \in Strategies : assetBal'[s] = assetBal[s]
  <2>1. u \in Accounts /\ u # Vault /\ assets \in Nat
    BY <1>2 DEF IInv, TypeOK, VaultTypeOK
  <2>2. /\ AssetTypeOK' /\ assetBal'[Vault] = assetBal[Vault] - assets
        /\ \A x \in Accounts \ {u, Vault} : assetBal'[x] = assetBal[x]
    BY <1>4, <2>1, TransferMoves DEF IInv, TypeOK
  <2> QED
    BY <2>2
<1>6. VaultTypeOK'
  BY <1>2, <1>4 DEF IInv, TypeOK, VaultTypeOK
<1>7. LedgerTypeOK' /\ RegistryTypeOK' /\ PolicyTypeOK' /\ AdapterTypeOK' /\ UnregisteredIsEmpty'
  BY <1>4 DEF IInv, TypeOK, UnregisteredIsEmpty, Registered, LedgerTypeOK, RegistryTypeOK,
              PolicyTypeOK, AdapterTypeOK, registryVars, policyVars, bookVars
<1>8. IInv'
  BY <1>3, <1>5, <1>6, <1>7 DEF IInv, TypeOK
<1> QED
  BY <1>1, <1>2, <1>3, <1>4, <1>5, <1>8 DEF assets, registryVars

(* An allocation: idle assets move to the strategy and are counted there,  *)
(* in the registry and in the vault alike.                                 *)
LEMMA AllocateEffect ==
    ASSUME IInv, NEW a \in Agents, NEW s \in Strategies, NEW amount \in Amounts,
           AllocateToStrategy(a, s, amount)
    PROVE  /\ IInv' /\ ~paused /\ ~adapterPaused[s] /\ adapterPaused' = adapterPaused
           /\ amount \in 0..totalIdleAssets
           /\ totalIdleAssets' = totalIdleAssets - amount
           /\ allocatedAssets' = allocatedAssets + amount
           /\ totalSupply' = totalSupply
           /\ AssetTransfer(Vault, s, amount)
           /\ principal' = [principal EXCEPT ![s] = principal[s] + amount] /\ yield' = yield
           /\ registry[s].allocated + amount <= registry[s].cap
           /\ registry' = [registry EXCEPT ![s].allocated = registry[s].allocated + amount]
<1> USE VaultAssumption, AdapterAssumption
<1>1. amount \in Nat
  BY InputAssumption
<1>2. /\ AdapterTypeOK' /\ ~adapterPaused[s] /\ adapterPaused' = adapterPaused
      /\ principal' = [principal EXCEPT ![s] = principal[s] + amount] /\ yield' = yield
  BY <1>1, DepositBooks DEF IInv, TypeOK, AllocateToStrategy
<1>3. AssetTransfer(Vault, s, amount)
  BY DEF AllocateToStrategy
<1>4. AssetTypeOK'
  BY <1>1, <1>3, TransferMoves DEF IInv, TypeOK
<1>5. /\ ~paused /\ amount <= totalIdleAssets
      /\ totalIdleAssets' = totalIdleAssets - amount
      /\ allocatedAssets' = allocatedAssets + amount
      /\ UNCHANGED <<seq, tokenVars, paused>>
  BY DEF AllocateToStrategy
<1>6. VaultTypeOK'
  BY <1>1, <1>5 DEF IInv, TypeOK, VaultTypeOK
<1>7. /\ registry[s].status = "Active"
      /\ registry[s].allocated + amount <= registry[s].cap
      /\ registry' = [registry EXCEPT ![s].allocated = registry[s].allocated + amount]
      /\ registryVault' = registryVault
  BY DEF AllocateToStrategy, RecordAllocation
<1>8. RegistryTypeOK' /\ UnregisteredIsEmpty'
  BY <1>1, <1>7 DEF IInv, TypeOK, RegistryTypeOK, UnregisteredIsEmpty, Registered
<1>9. PolicyTypeOK'
  <2>1. VerifyAndRecordAction(a, s, amount) /\ seq' = seq
    BY DEF AllocateToStrategy
  <2>2. SpentInWindow \in Nat
    BY DEF IInv, TypeOK, PolicyTypeOK, SpentInWindow
  <2> QED
    BY <1>1, <2>1, <2>2
       DEF IInv, TypeOK, PolicyTypeOK, VerifyAndRecordAction, LedgerTypeOK
<1>10. LedgerTypeOK' /\ TokenTypeOK' /\ SupplyIsSum'
  BY <1>5 DEF IInv, TypeOK, LedgerTypeOK, TokenTypeOK, SupplyIsSum, tokenVars
<1>11. IInv'
  BY <1>2, <1>4, <1>6, <1>8, <1>9, <1>10 DEF IInv, TypeOK
<1>12. amount \in 0..totalIdleAssets /\ totalSupply' = totalSupply
  BY <1>1, <1>5 DEF IInv, TypeOK, VaultTypeOK, tokenVars
<1> QED
  BY <1>2, <1>3, <1>5, <1>7, <1>11, <1>12

(* Assets credited as returned keep the vault's counters natural.          *)
LEMMA CreditEffect ==
    ASSUME VaultTypeOK, NEW amount \in Nat, CreditReturned(amount), paused' = paused
    PROVE  /\ VaultTypeOK'
           /\ totalIdleAssets' = totalIdleAssets + amount
           /\ allocatedAssets' >= 0 /\ allocatedAssets' >= allocatedAssets - amount
           /\ allocatedAssets' = 0 \/ allocatedAssets' = allocatedAssets - amount
  BY DEF VaultTypeOK, CreditReturned, Monus

(* A return of funds from a strategy.                                      *)
LEMMA DeallocateEffect ==
    ASSUME IInv, NEW s \in Strategies, NEW amount \in Amounts,
           DeallocateFromStrategy(s, amount)
    PROVE  /\ IInv' /\ adapterPaused' = adapterPaused
           /\ totalIdleAssets' = totalIdleAssets + amount
           /\ allocatedAssets' = 0 \/ allocatedAssets' = allocatedAssets - amount
           /\ allocatedAssets' >= allocatedAssets - amount
           /\ totalSupply' = totalSupply
           /\ amount <= TotalValue(s)
           /\ principal'[s] + yield'[s] = TotalValue(s) - amount
           /\ principal'[s] = Monus(principal[s], Monus(amount, yield[s]))
           /\ principal'[s] <= principal[s] /\ yield'[s] <= yield[s]
           /\ \A t \in Strategies \ {s} : principal'[t] = principal[t] /\ yield'[t] = yield[t]
           /\ assetBal'[Vault] >= assetBal[Vault]
           /\ Kind[s] # "phoenix" => AssetTransfer(s, Vault, amount)
           /\ registry' = [registry EXCEPT
                               ![s].allocated = Monus(registry[s].allocated, amount)]
<1>1. amount \in Nat
  BY InputAssumption
<1>2. /\ AssetTypeOK' /\ AdapterTypeOK' /\ adapterPaused' = adapterPaused
      /\ amount <= TotalValue(s)
      /\ principal'[s] + yield'[s] = TotalValue(s) - amount
      /\ principal'[s] = Monus(principal[s], Monus(amount, yield[s]))
      /\ principal'[s] <= principal[s] /\ yield'[s] <= yield[s]
      /\ \A t \in Strategies \ {s} : principal'[t] = principal[t] /\ yield'[t] = yield[t]
      /\ assetBal'[Vault] >= assetBal[Vault]
      /\ Kind[s] # "phoenix" => AssetTransfer(s, Vault, amount)
  BY <1>1, WithdrawBooks DEF IInv, TypeOK, DeallocateFromStrategy
<1>3. /\ VaultTypeOK' /\ totalIdleAssets' = totalIdleAssets + amount
      /\ allocatedAssets' = 0 \/ allocatedAssets' = allocatedAssets - amount
      /\ allocatedAssets' >= allocatedAssets - amount
  BY <1>1, CreditEffect DEF IInv, TypeOK, DeallocateFromStrategy
<1>4. /\ Registered(s) /\ registryVault' = registryVault
      /\ registry' = [registry EXCEPT ![s].allocated = Monus(registry[s].allocated, amount)]
      /\ UNCHANGED <<seq, tokenVars, policyVars>>
  BY DEF DeallocateFromStrategy, RecordDeallocation
<1>5. RegistryTypeOK' /\ UnregisteredIsEmpty'
  <2>1. Monus(registry[s].allocated, amount) \in Nat
    BY <1>1 DEF IInv, TypeOK, RegistryTypeOK, Monus
  <2> QED
    BY <1>4, <2>1 DEF IInv, TypeOK, RegistryTypeOK, UnregisteredIsEmpty, Registered
<1>6. LedgerTypeOK' /\ TokenTypeOK' /\ SupplyIsSum' /\ PolicyTypeOK' /\ totalSupply' = totalSupply
  BY <1>4 DEF IInv, TypeOK, LedgerTypeOK, TokenTypeOK, SupplyIsSum, PolicyTypeOK,
              tokenVars, policyVars
<1>7. IInv'
  BY <1>2, <1>3, <1>5, <1>6 DEF IInv, TypeOK
<1> QED
  BY <1>2, <1>3, <1>4, <1>6, <1>7

(* An emergency exit.                                                      *)
LEMMA ExitEffect ==
    ASSUME IInv, NEW caller \in Principals, NEW s \in Strategies,
           EmergencyExitStrategy(caller, s)
    PROVE  /\ IInv' /\ adapterPaused' = [adapterPaused EXCEPT ![s] = TRUE]
           /\ TotalValue(s) \in Nat
           /\ totalIdleAssets' = totalIdleAssets + TotalValue(s)
           /\ allocatedAssets' = 0 \/ allocatedAssets' = allocatedAssets - TotalValue(s)
           /\ allocatedAssets' >= allocatedAssets - TotalValue(s)
           /\ totalSupply' = totalSupply
           /\ principal'[s] = 0 /\ yield'[s] = 0
           /\ \A t \in Strategies \ {s} : principal'[t] = principal[t] /\ yield'[t] = yield[t]
           /\ assetBal'[Vault] >= assetBal[Vault]
           /\ Kind[s] # "phoenix" => AssetTransfer(s, Vault, TotalValue(s))
           /\ \A t \in Strategies : /\ registry'[t].allocated = registry[t].allocated
                                    /\ registry'[t].cap = registry[t].cap
<1>1. /\ AssetTypeOK' /\ AdapterTypeOK'
      /\ adapterPaused' = [adapterPaused EXCEPT ![s] = TRUE]
      /\ TotalValue(s) \in Nat
      /\ principal'[s] = 0 /\ yield'[s] = 0
      /\ \A t \in Strategies \ {s} : principal'[t] = principal[t] /\ yield'[t] = yield[t]
      /\ assetBal'[Vault] >= assetBal[Vault]
      /\ Kind[s] # "phoenix" => AssetTransfer(s, Vault, TotalValue(s))
  BY ExitBooks DEF IInv, TypeOK, EmergencyExitStrategy
<1>2. /\ VaultTypeOK' /\ totalIdleAssets' = totalIdleAssets + TotalValue(s)
      /\ allocatedAssets' = 0 \/ allocatedAssets' = allocatedAssets - TotalValue(s)
      /\ allocatedAssets' >= allocatedAssets - TotalValue(s)
  BY <1>1, CreditEffect DEF IInv, TypeOK, EmergencyExitStrategy
<1>3. /\ Registered(s) /\ registryVault' = registryVault
      /\ registry' = [registry EXCEPT ![s].status = "Revoked"]
      /\ UNCHANGED <<seq, tokenVars, policyVars>>
  BY DEF EmergencyExitStrategy, RevokeStrategy
<1>4. /\ RegistryTypeOK' /\ UnregisteredIsEmpty'
      /\ \A t \in Strategies : /\ registry'[t].allocated = registry[t].allocated
                               /\ registry'[t].cap = registry[t].cap
  BY <1>3 DEF IInv, TypeOK, RegistryTypeOK, UnregisteredIsEmpty, Registered, Statuses
<1>5. LedgerTypeOK' /\ TokenTypeOK' /\ SupplyIsSum' /\ PolicyTypeOK' /\ totalSupply' = totalSupply
  BY <1>3 DEF IInv, TypeOK, LedgerTypeOK, TokenTypeOK, SupplyIsSum, PolicyTypeOK,
              tokenVars, policyVars
<1>6. IInv'
  BY <1>1, <1>2, <1>4, <1>5 DEF IInv, TypeOK
<1> QED
  BY <1>1, <1>2, <1>4, <1>5, <1>6

(* A registry call by an admin or guardian changes no recorded allocation  *)
(* and never sets a cap below one.                                         *)
LEMMA RegistryEffect ==
    ASSUME IInv, RegistryNext
    PROVE  /\ IInv'
           /\ \A t \in Strategies :
                 /\ registry'[t].allocated = registry[t].allocated
                 /\ registry[t].allocated <= registry[t].cap
                       => registry'[t].allocated <= registry'[t].cap
           /\ UNCHANGED <<assetBal, bookVars, vaultVars, totalSupply>>
<1>1. UNCHANGED <<seq, assetBal, tokenVars, policyVars, bookVars, vaultVars>>
  BY DEF RegistryNext
<1>2. /\ RegistryTypeOK' /\ UnregisteredIsEmpty'
      /\ \A t \in Strategies :
            /\ registry'[t].allocated = registry[t].allocated
            /\ registry[t].allocated <= registry[t].cap
                  => registry'[t].allocated <= registry'[t].cap
  <2>1. PICK s \in Strategies :
            \/ \E cap \in Caps : AddStrategy(s, cap) \/ UpdateCap(s, cap)
            \/ UnpauseStrategy(s)
            \/ \E caller \in Principals : PauseStrategy(caller, s) \/ RevokeStrategy(caller, s)
    BY DEF RegistryNext
  <2> USE InputAssumption DEF IInv, TypeOK, RegistryTypeOK, UnregisteredIsEmpty, Registered, Statuses
  <2>2. CASE \E cap \in Caps : AddStrategy(s, cap)
    BY <2>2 DEF AddStrategy
  <2>3. CASE \E cap \in Caps : UpdateCap(s, cap)
    BY <2>3 DEF UpdateCap
  <2>4. CASE UnpauseStrategy(s)
    BY <2>4 DEF UnpauseStrategy
  <2>5. CASE \E caller \in Principals : PauseStrategy(caller, s)
    BY <2>5 DEF PauseStrategy
  <2>6. CASE \E caller \in Principals : RevokeStrategy(caller, s)
    BY <2>6 DEF RevokeStrategy
  <2> QED
    BY <2>1, <2>2, <2>3, <2>4, <2>5, <2>6
<1>3. LedgerTypeOK' /\ AssetTypeOK' /\ TokenTypeOK' /\ SupplyIsSum' /\ PolicyTypeOK'
      /\ AdapterTypeOK' /\ VaultTypeOK'
  BY <1>1 DEF IInv, TypeOK, LedgerTypeOK, AssetTypeOK, TokenTypeOK, SupplyIsSum, PolicyTypeOK,
              AdapterTypeOK, VaultTypeOK, tokenVars, policyVars, bookVars, vaultVars
<1> QED
  BY <1>1, <1>2, <1>3 DEF IInv, TypeOK, tokenVars

(* A policy call changes the policy account only.                          *)
LEMMA PolicyEffect ==
    ASSUME IInv, PolicyNext
    PROVE  IInv' /\ UNCHANGED <<assetBal, registry, bookVars, vaultVars, totalSupply>>
<1>1. UNCHANGED <<seq, assetBal, tokenVars, registryVars, bookVars, vaultVars>>
  BY DEF PolicyNext
<1>2. PolicyTypeOK'
  <2> USE <1>1 DEF IInv, TypeOK, PolicyTypeOK
  <2>1. CASE \E a \in Agents, active \in BOOLEAN : SetAgentStatus(a, active)
    BY <2>1 DEF SetAgentStatus
  <2>2. CASE \E s \in Strategies, allowed \in BOOLEAN : SetContractAllowed(s, allowed)
    BY <2>2 DEF SetContractAllowed
  <2>3. CASE \E maxTx \in TxLimits, dailyLimit \in DailyLimits : SetLimits(maxTx, dailyLimit)
    BY <2>3, InputAssumption DEF SetLimits
  <2> QED
    BY <2>1, <2>2, <2>3 DEF PolicyNext
<1>3. LedgerTypeOK' /\ AssetTypeOK' /\ TokenTypeOK' /\ SupplyIsSum' /\ RegistryTypeOK'
      /\ UnregisteredIsEmpty' /\ AdapterTypeOK' /\ VaultTypeOK'
  BY <1>1 DEF IInv, TypeOK, LedgerTypeOK, AssetTypeOK, TokenTypeOK, SupplyIsSum, RegistryTypeOK,
              UnregisteredIsEmpty, Registered, AdapterTypeOK, VaultTypeOK,
              tokenVars, registryVars, bookVars, vaultVars
<1> QED
  BY <1>1, <1>2, <1>3 DEF IInv, TypeOK, tokenVars, registryVars

(* Accruing fees only adds yield, to Phoenix positions in use.             *)
LEMMA FeesEffect ==
    ASSUME IInv, AdapterNext
    PROVE  /\ IInv'
           /\ \A t \in Strategies :
                 /\ yield'[t] >= yield[t]
                 /\ Kind[t] # "phoenix" \/ adapterPaused[t] => yield'[t] = yield[t]
           /\ UNCHANGED <<assetBal, registry, principal, adapterPaused, vaultVars, totalSupply>>
<1>1. PICK s \in Strategies, amount \in Amounts : AccrueFees(s, amount)
  BY DEF AdapterNext
<1>2. amount \in Nat
  BY InputAssumption
<1>3. UNCHANGED <<seq, assetBal, tokenVars, registryVars, policyVars, vaultVars>>
  BY <1>1 DEF AdapterNext, AccrueFees
<1>4. AdapterTypeOK'
  BY <1>1, <1>2 DEF IInv, TypeOK, AdapterTypeOK, AccrueFees
<1>5. \A t \in Strategies :
          /\ yield'[t] >= yield[t]
          /\ Kind[t] # "phoenix" \/ adapterPaused[t] => yield'[t] = yield[t]
  BY <1>1, <1>2 DEF IInv, TypeOK, AdapterTypeOK, AccrueFees
<1>6. LedgerTypeOK' /\ AssetTypeOK' /\ TokenTypeOK' /\ SupplyIsSum' /\ RegistryTypeOK'
      /\ UnregisteredIsEmpty' /\ PolicyTypeOK' /\ VaultTypeOK'
  BY <1>3 DEF IInv, TypeOK, LedgerTypeOK, AssetTypeOK, TokenTypeOK, SupplyIsSum, RegistryTypeOK,
              UnregisteredIsEmpty, Registered, PolicyTypeOK, VaultTypeOK,
              tokenVars, registryVars, policyVars, vaultVars
<1> QED
  BY <1>1, <1>3, <1>4, <1>5, <1>6 DEF IInv, TypeOK, AccrueFees, tokenVars, registryVars

(* The steps that touch neither the vault's counters nor the adapters: a   *)
(* share transfer, a donation, a pause or unpause, the ledger closing, and *)
(* stuttering.                                                             *)
QuietStep ==
    \/ \E u, v \in Holders, shares \in ShareAmounts :
          /\ TransferShares(u, v, shares)
          /\ UNCHANGED <<seq, assetBal, registryVars, policyVars, bookVars, vaultVars>>
    \/ \E u \in Holders, amount \in Amounts :
          /\ AssetTransfer(u, Vault, amount)
          /\ UNCHANGED <<seq, tokenVars, registryVars, policyVars, bookVars, vaultVars>>
    \/ \E caller \in Principals : Pause(caller) \/ Unpause(caller)
    \/ LedgerNext
    \/ UNCHANGED vars

(* A quiet step can only add assets to the vault.                          *)
LEMMA QuietEffect ==
    ASSUME IInv, QuietStep
    PROVE  /\ IInv'
           /\ assetBal'[Vault] >= assetBal[Vault]
           /\ \A s \in Strategies : assetBal'[s] = assetBal[s]
           /\ UNCHANGED <<registry, bookVars, totalIdleAssets, allocatedAssets, totalSupply>>
<1> USE VaultAssumption, AdapterAssumption
<1>1. UNCHANGED <<registryVars, policyVars, bookVars, totalIdleAssets, allocatedAssets>>
  BY DEF QuietStep, Pause, Unpause, LedgerNext, vars, vaultVars
<1>2. /\ RegistryTypeOK' /\ UnregisteredIsEmpty' /\ AdapterTypeOK'
      /\ UNCHANGED <<registry, bookVars, totalIdleAssets, allocatedAssets>>
  BY <1>1 DEF IInv, TypeOK, RegistryTypeOK, UnregisteredIsEmpty, Registered, AdapterTypeOK,
              registryVars, bookVars
<1>3. LedgerTypeOK' /\ PolicyTypeOK'
  <2>1. seq' = seq \/ seq' = seq + 1
    BY DEF QuietStep, Pause, Unpause, LedgerNext, CloseLedger, vars
  <2> QED
    BY <1>1, <2>1 DEF IInv, TypeOK, LedgerTypeOK, PolicyTypeOK, policyVars
<1>4. TokenTypeOK' /\ SupplyIsSum' /\ totalSupply' = totalSupply
  <2>1. CASE UNCHANGED tokenVars
    BY <2>1 DEF IInv, TypeOK, TokenTypeOK, SupplyIsSum, tokenVars
  <2>2. CASE \E u, v \in Holders, shares \in ShareAmounts : TransferShares(u, v, shares)
    <3>1. PICK u, v \in Holders, shares \in ShareAmounts : TransferShares(u, v, shares)
      BY <2>2
    <3> QED
      BY <3>1, InputAssumption, TransferSharesKeepsSum DEF IInv, TypeOK, TransferShares
  <2> QED
    BY <2>1, <2>2 DEF QuietStep, Pause, Unpause, LedgerNext, vars
<1>5. /\ AssetTypeOK' /\ assetBal'[Vault] >= assetBal[Vault]
      /\ \A s \in Strategies : assetBal'[s] = assetBal[s]
  <2>1. CASE assetBal' = assetBal
    BY <2>1 DEF IInv, TypeOK, AssetTypeOK
  <2>2. CASE \E u \in Holders, amount \in Amounts : AssetTransfer(u, Vault, amount)
    <3>1. PICK u \in Holders, amount \in Amounts : AssetTransfer(u, Vault, amount)
      BY <2>2
    <3>2. u \in Accounts /\ u # Vault /\ amount \in Nat
      BY InputAssumption
    <3>3. /\ AssetTypeOK' /\ assetBal'[Vault] = assetBal[Vault] + amount
          /\ \A x \in Accounts \ {u, Vault} : assetBal'[x] = assetBal[x]
      BY <3>1, <3>2, TransferMoves DEF IInv, TypeOK
    <3> QED
      BY <3>2, <3>3 DEF IInv, TypeOK, AssetTypeOK
  <2> QED
    BY <2>1, <2>2 DEF QuietStep, Pause, Unpause, LedgerNext, vars
<1>6. VaultTypeOK'
  BY <1>1 DEF QuietStep, Pause, Unpause, LedgerNext, vars, vaultVars, IInv, TypeOK, VaultTypeOK
<1> QED
  BY <1>2, <1>3, <1>4, <1>5, <1>6 DEF IInv, TypeOK

(* Every step of the system is one of the kinds above.                     *)
LEMMA StepKinds ==
    ASSUME [Next]_vars
    PROVE  \/ \E u \in Holders, amount \in Amounts : Deposit(u, amount)
           \/ \E u \in Holders, shares \in ShareAmounts : Withdraw(u, shares)
           \/ \E a \in Agents, s \in Strategies, amount \in Amounts :
                 AllocateToStrategy(a, s, amount)
           \/ \E s \in Strategies, amount \in Amounts : DeallocateFromStrategy(s, amount)
           \/ \E caller \in Principals, s \in Strategies : EmergencyExitStrategy(caller, s)
           \/ RegistryNext \/ PolicyNext \/ AdapterNext \/ QuietStep
  BY DEF Next, UserNext, AgentNext, GuardNext, QuietStep

----
(* The invariants.                                                         *)

(* Initially everything is empty.                                          *)
LEMMA InitIInv == Init => IInv
<1> SUFFICES ASSUME Init PROVE IInv
  OBVIOUS
<1>1. LedgerTypeOK /\ AssetTypeOK /\ VaultTypeOK
  BY InitialFundsAssumption
     DEF Init, LedgerInit, AssetInit, VaultInit, LedgerTypeOK, AssetTypeOK, VaultTypeOK
<1>2. TokenTypeOK
  BY DeploymentAssumption DEF Init, TokenInit, TokenTypeOK, NoAllowance
<1>3. SupplyIsSum
  <2>1. shareBal \in [Holders -> Nat] /\ \A h \in Holders : shareBal[h] = 0
    BY DEF Init, TokenInit
  <2>2. Total(shareBal) = 0
    BY <2>1, TotalZero
  <2> QED
    BY <2>2 DEF Init, TokenInit, SupplyIsSum
<1>4. RegistryTypeOK /\ UnregisteredIsEmpty
  BY DeploymentAssumption
     DEF Init, RegistryInit, RegistryTypeOK, UnregisteredIsEmpty, Registered, Statuses
<1>5. PolicyTypeOK
  BY InputAssumption DEF Init, LedgerInit, PolicyInit, PolicyTypeOK
<1>6. AdapterTypeOK
  BY DEF Init, AdapterInit, AdapterTypeOK
<1> QED
  BY <1>1, <1>2, <1>3, <1>4, <1>5, <1>6 DEF IInv, TypeOK

(* Every step preserves the inductive invariant.                           *)
LEMMA StepIInv == IInv /\ [Next]_vars => IInv'
<1> SUFFICES ASSUME IInv, [Next]_vars PROVE IInv'
  OBVIOUS
<1> QED
  BY StepKinds, DepositEffect, WithdrawEffect, AllocateEffect, DeallocateEffect, ExitEffect,
     RegistryEffect, PolicyEffect, FeesEffect, QuietEffect

(* The inductive invariant holds throughout.                               *)
LEMMA SpecIInv == Spec => []IInv
  BY InitIInv, StepIInv, PTL DEF Spec

(* No balance, book or counter of any contract is ever driven below zero   *)
(* or out of its type (the subtractions of contracts/vault, token and the  *)
(* adapters are all covered by their guards).                              *)
THEOREM TypeCorrect == Spec => []TypeOK
<1>1. IInv => TypeOK
  BY DEF IInv
<1> QED
  BY <1>1, SpecIInv, PTL

(* The hXLM supply is the sum of the holders' balances, for any number of  *)
(* holders.                                                                *)
THEOREM SupplyCorrect == Spec => []SupplyIsSum
<1>1. IInv => SupplyIsSum
  BY DEF IInv
<1> QED
  BY <1>1, SpecIInv, PTL

(* An emergency exit is final: whatever the registry's status says later,  *)
(* nothing puts value back into an exited adapter.                         *)
THEOREM ExitIsFinal == Spec => []ExitedStaysEmpty
<1>1. Init => ExitedStaysEmpty
  BY DEF Init, AdapterInit, ExitedStaysEmpty
<1>2. IInv /\ ExitedStaysEmpty /\ [Next]_vars => ExitedStaysEmpty'
  <2> SUFFICES ASSUME IInv, ExitedStaysEmpty, [Next]_vars, NEW t \in Strategies,
                      adapterPaused'[t]
               PROVE  principal'[t] + yield'[t] = 0
    BY DEF ExitedStaysEmpty, TotalValue
  <2>1. /\ principal \in [Strategies -> Nat] /\ yield \in [Strategies -> Nat]
        /\ adapterPaused \in [Strategies -> BOOLEAN]
        /\ principal' \in [Strategies -> Nat] /\ yield' \in [Strategies -> Nat]
    BY StepIInv DEF IInv, TypeOK, AdapterTypeOK
  <2>2. adapterPaused[t] => principal[t] = 0 /\ yield[t] = 0
    BY <2>1 DEF ExitedStaysEmpty, TotalValue
  <2>3. CASE UNCHANGED bookVars
    BY <2>1, <2>2, <2>3 DEF bookVars
  <2>4. CASE \E a \in Agents, s \in Strategies, amount \in Amounts :
               AllocateToStrategy(a, s, amount)
    BY <2>1, <2>2, <2>4, AllocateEffect
  <2>5. CASE \E s \in Strategies, amount \in Amounts : DeallocateFromStrategy(s, amount)
    <3>1. PICK s \in Strategies, amount \in Amounts : DeallocateFromStrategy(s, amount)
      BY <2>5
    <3>2. adapterPaused' = adapterPaused /\ principal'[t] <= principal[t] /\ yield'[t] <= yield[t]
      BY <2>1, <3>1, DeallocateEffect
    <3> QED
      BY <2>1, <2>2, <3>2
  <2>6. CASE \E caller \in Principals, s \in Strategies : EmergencyExitStrategy(caller, s)
    <3>1. PICK caller \in Principals, s \in Strategies : EmergencyExitStrategy(caller, s)
      BY <2>6
    <3> QED
      BY <2>1, <2>2, <3>1, ExitEffect
  <2>7. CASE AdapterNext
    BY <2>1, <2>2, <2>7, FeesEffect
  <2> QED
    BY <2>3, <2>4, <2>5, <2>6, <2>7, StepKinds, DepositEffect, WithdrawEffect, RegistryEffect,
       PolicyEffect, QuietEffect
<1> QED
  BY <1>1, <1>2, SpecIInv, PTL DEF Spec

(* AllocatedAssets, kept by three code paths with two clamps, never counts *)
(* more than the strategies' books hold or the registry has recorded.      *)
THEOREM NothingPhantom == Spec => []NoPhantomAllocation
<1> USE DeploymentAssumption
<1> DEFINE held == [s \in Strategies |-> TotalValue(s)]
           recorded == [s \in Strategies |-> registry[s].allocated]
<1>1. Init => NoPhantomAllocation
  <2> SUFFICES ASSUME Init PROVE NoPhantomAllocation
    OBVIOUS
  <2>1. held \in [Strategies -> Nat] /\ recorded \in [Strategies -> Nat]
    BY DEF Init, AdapterInit, RegistryInit, TotalValue
  <2>2. Total(held) >= 0 /\ Total(recorded) >= 0
    BY <2>1, TotalBounds
  <2> QED
    BY <2>2 DEF Init, VaultInit, NoPhantomAllocation
<1>2. IInv /\ NoPhantomAllocation /\ [Next]_vars => NoPhantomAllocation'
  <2> SUFFICES ASSUME IInv, NoPhantomAllocation, [Next]_vars
               PROVE  allocatedAssets' <= Total(held') /\ allocatedAssets' <= Total(recorded')
    BY DEF NoPhantomAllocation
  <2>1. /\ held \in [Strategies -> Nat] /\ recorded \in [Strategies -> Nat]
        /\ held' \in [Strategies -> Nat] /\ recorded' \in [Strategies -> Nat]
        /\ allocatedAssets \in Nat /\ allocatedAssets' \in Nat
    BY StepIInv DEF IInv, TypeOK, AdapterTypeOK, RegistryTypeOK, VaultTypeOK, TotalValue
  <2>2. /\ Total(held) \in Nat /\ Total(recorded) \in Nat
        /\ Total(held') \in Nat /\ Total(recorded') \in Nat
        /\ \A s \in Strategies : held[s] <= Total(held)
    BY <2>1, TotalBounds
  <2>3. allocatedAssets <= Total(held) /\ allocatedAssets <= Total(recorded)
    BY DEF NoPhantomAllocation
  <2>4. ASSUME NEW s \in Strategies, NEW v \in Nat, held' = [held EXCEPT ![s] = v]
        PROVE  Total(held') = Total(held) - held[s] + v
    BY <2>1, <2>4, TotalUpdate
  <2>5. ASSUME NEW s \in Strategies, NEW v \in Nat, recorded' = [recorded EXCEPT ![s] = v]
        PROVE  Total(recorded') = Total(recorded) - recorded[s] + v
    BY <2>1, <2>5, TotalUpdate
  <2> HIDE DEF held, recorded
  <2>6. ASSUME NEW a \in Agents, NEW s \in Strategies, NEW amount \in Amounts,
               AllocateToStrategy(a, s, amount)
        PROVE  allocatedAssets' <= Total(held') /\ allocatedAssets' <= Total(recorded')
    <3>1. /\ amount \in Nat /\ allocatedAssets' = allocatedAssets + amount
          /\ principal' = [principal EXCEPT ![s] = principal[s] + amount] /\ yield' = yield
          /\ registry' = [registry EXCEPT ![s].allocated = registry[s].allocated + amount]
      BY <2>6, AllocateEffect, InputAssumption
    <3>2. held[s] + amount \in Nat /\ recorded[s] + amount \in Nat
      BY <2>1, <3>1
    <3>3. held' = [held EXCEPT ![s] = held[s] + amount]
      <4>1. principal \in [Strategies -> Nat] /\ yield \in [Strategies -> Nat]
        BY DEF IInv, TypeOK, AdapterTypeOK
      <4>2. \A t \in Strategies : TotalValue(t)' = IF t = s THEN TotalValue(s) + amount
                                                        ELSE TotalValue(t)
        BY <3>1, <4>1 DEF TotalValue
      <4> QED
        BY <4>2 DEF held
    <3>4. recorded' = [recorded EXCEPT ![s] = recorded[s] + amount]
      <4>1. \A t \in Strategies : registry'[t].allocated = IF t = s THEN registry[s].allocated + amount
                                                           ELSE registry[t].allocated
        BY <3>1 DEF IInv, TypeOK, RegistryTypeOK
      <4> QED
        BY <4>1 DEF recorded
    <3>5. Total(held') = Total(held) - held[s] + (held[s] + amount)
      BY <2>4, <3>2, <3>3
    <3>6. Total(recorded') = Total(recorded) - recorded[s] + (recorded[s] + amount)
      BY <2>5, <3>2, <3>4
    <3> QED
      BY <2>1, <2>2, <2>3, <3>1, <3>5, <3>6
  <2>7. ASSUME NEW s \in Strategies, NEW amount \in Amounts, DeallocateFromStrategy(s, amount)
        PROVE  allocatedAssets' <= Total(held') /\ allocatedAssets' <= Total(recorded')
    <3>1. /\ amount \in Nat
          /\ allocatedAssets' = 0 \/ allocatedAssets' = allocatedAssets - amount
          /\ amount <= TotalValue(s)
          /\ principal'[s] + yield'[s] = TotalValue(s) - amount
          /\ \A t \in Strategies \ {s} : principal'[t] = principal[t] /\ yield'[t] = yield[t]
          /\ registry' = [registry EXCEPT
                              ![s].allocated = Monus(registry[s].allocated, amount)]
      BY <2>7, DeallocateEffect, InputAssumption
    <3> DEFINE left == Monus(recorded[s], amount)
    <3>2. /\ held[s] = TotalValue(s) /\ held[s] - amount \in Nat
          /\ left \in Nat /\ left >= recorded[s] - amount
      BY <2>1, <3>1 DEF held, Monus
    <3>3. held' = [held EXCEPT ![s] = held[s] - amount]
      BY <3>1, <3>2 DEF held, TotalValue, IInv, TypeOK, AdapterTypeOK
    <3>4. recorded' = [recorded EXCEPT ![s] = left]
      BY <3>1 DEF recorded, IInv, TypeOK, RegistryTypeOK
    <3> HIDE DEF left
    <3>5. Total(held') = Total(held) - held[s] + (held[s] - amount)
      BY <2>4, <3>2, <3>3
    <3>6. Total(recorded') = Total(recorded) - recorded[s] + left
      BY <2>5, <3>2, <3>4
    <3> QED
      BY <2>1, <2>2, <2>3, <3>1, <3>2, <3>5, <3>6
  <2>8. ASSUME NEW caller \in Principals, NEW s \in Strategies, EmergencyExitStrategy(caller, s)
        PROVE  allocatedAssets' <= Total(held') /\ allocatedAssets' <= Total(recorded')
    <3>1. /\ allocatedAssets' = 0 \/ allocatedAssets' = allocatedAssets - TotalValue(s)
          /\ principal'[s] = 0 /\ yield'[s] = 0
          /\ \A t \in Strategies \ {s} : principal'[t] = principal[t] /\ yield'[t] = yield[t]
          /\ \A t \in Strategies : registry'[t].allocated = registry[t].allocated
      BY <2>8, ExitEffect
    <3>2. held' = [held EXCEPT ![s] = 0] /\ held[s] = TotalValue(s)
      <4>1. \A t \in Strategies : TotalValue(t)' = IF t = s THEN 0 ELSE TotalValue(t)
        BY <3>1 DEF TotalValue
      <4> QED
        BY <4>1 DEF held
    <3>3. recorded' = recorded
      BY <3>1 DEF recorded
    <3>4. Total(held') = Total(held) - held[s] + 0
      BY <2>4, <3>2
    <3>5. allocatedAssets' <= allocatedAssets
      BY <2>1, <3>1, <3>2
    <3> QED
      BY <2>1, <2>2, <2>3, <3>1, <3>2, <3>3, <3>4, <3>5
  <2>9. ASSUME allocatedAssets' = allocatedAssets,
               \A s \in Strategies : /\ principal'[s] = principal[s] /\ yield'[s] >= yield[s]
                                      /\ registry'[s].allocated = registry[s].allocated
        PROVE  allocatedAssets' <= Total(held') /\ allocatedAssets' <= Total(recorded')
    <3>1. recorded' = recorded
      BY <2>9 DEF recorded
    <3>2. \A s \in Strategies : held[s] <= held'[s]
      BY <2>9, StepIInv DEF held, TotalValue, IInv, TypeOK, AdapterTypeOK
    <3>3. Total(held) <= Total(held')
      BY <2>1, <3>2, TotalMonotone
    <3> QED
      BY <2>1, <2>2, <2>3, <2>9, <3>1, <3>3
  <2>10. ASSUME UNCHANGED <<bookVars, allocatedAssets>>,
                \A s \in Strategies : registry'[s].allocated = registry[s].allocated
         PROVE  allocatedAssets' <= Total(held') /\ allocatedAssets' <= Total(recorded')
    BY <2>9, <2>10 DEF bookVars, IInv, TypeOK, AdapterTypeOK
  <2>11. CASE AdapterNext
    BY <2>9, <2>11, FeesEffect DEF vaultVars
  <2> QED
    BY <2>6, <2>7, <2>8, <2>10, <2>11, StepKinds, DepositEffect, WithdrawEffect, RegistryEffect,
       PolicyEffect, QuietEffect DEF vaultVars
<1> QED
  BY <1>1, <1>2, SpecIInv, PTL DEF Spec

(* The three theorems about backing hold where no strategy is a Phoenix    *)
(* position, whose withdraw reports amounts it may not have transferred.   *)
NoPhoenix == \A s \in Strategies : Kind[s] # "phoenix"

(* One step keeps idle assets and positions backed.                        *)
LEMMA BackingStep ==
    ASSUME NoPhoenix, IInv, IdleBacked, PositionsBacked, [Next]_vars
    PROVE  IdleBacked' /\ PositionsBacked'
<1> USE AdapterAssumption
<1>1. /\ principal \in [Strategies -> Nat] /\ yield \in [Strategies -> Nat]
      /\ principal' \in [Strategies -> Nat] /\ yield' \in [Strategies -> Nat]
      /\ assetBal \in [Accounts -> Nat] /\ assetBal' \in [Accounts -> Nat]
      /\ totalIdleAssets \in Nat /\ totalIdleAssets' \in Nat
  BY StepIInv DEF IInv, TypeOK, AdapterTypeOK, AssetTypeOK, VaultTypeOK
<1>2. /\ totalIdleAssets <= assetBal[Vault]
      /\ \A s \in Strategies : principal[s] + yield[s] <= assetBal[s]
  BY DEF IdleBacked, PositionsBacked, TotalValue
<1>3. SUFFICES /\ totalIdleAssets' <= assetBal'[Vault]
               /\ \A s \in Strategies : principal'[s] + yield'[s] <= assetBal'[s]
  BY DEF IdleBacked, PositionsBacked, TotalValue
<1>4. CASE \E u \in Holders, amount \in Amounts : Deposit(u, amount)
  <2>1. PICK u \in Holders, amount \in Amounts : Deposit(u, amount)
    BY <1>4
  <2> QED
    BY <1>1, <1>2, <2>1, DepositEffect, InputAssumption DEF bookVars
<1>5. CASE \E u \in Holders, shares \in ShareAmounts : Withdraw(u, shares)
  <2>1. PICK u \in Holders, shares \in ShareAmounts : Withdraw(u, shares)
    BY <1>5
  <2> DEFINE assets == ConvertToAssets(shares)
  <2>2. /\ assets \in 0..totalIdleAssets /\ totalIdleAssets' = totalIdleAssets - assets
        /\ assetBal'[Vault] = assetBal[Vault] - assets
        /\ \A s \in Strategies : assetBal'[s] = assetBal[s]
        /\ UNCHANGED bookVars
    BY <2>1, WithdrawEffect
  <2> HIDE DEF assets
  <2> QED
    BY <1>1, <1>2, <2>2 DEF bookVars
<1>6. CASE \E a \in Agents, s \in Strategies, amount \in Amounts : AllocateToStrategy(a, s, amount)
  <2>1. PICK a \in Agents, s \in Strategies, amount \in Amounts : AllocateToStrategy(a, s, amount)
    BY <1>6
  <2>2. /\ amount \in Nat /\ totalIdleAssets' = totalIdleAssets - amount
        /\ AssetTransfer(Vault, s, amount)
        /\ principal' = [principal EXCEPT ![s] = principal[s] + amount] /\ yield' = yield
    BY <2>1, AllocateEffect, InputAssumption
  <2>3. /\ assetBal'[Vault] = assetBal[Vault] - amount
        /\ assetBal'[s] = assetBal[s] + amount
        /\ \A x \in Accounts \ {s, Vault} : assetBal'[x] = assetBal[x]
    BY <2>2, TransferMoves DEF IInv, TypeOK
  <2> QED
    BY <1>1, <1>2, <2>2, <2>3
<1>7. ASSUME NEW s \in Strategies, NEW amount \in Nat,
             AssetTransfer(s, Vault, amount), amount <= TotalValue(s),
             totalIdleAssets' = totalIdleAssets + amount,
             principal'[s] + yield'[s] = TotalValue(s) - amount,
             \A t \in Strategies \ {s} : principal'[t] = principal[t] /\ yield'[t] = yield[t]
      PROVE  /\ totalIdleAssets' <= assetBal'[Vault]
             /\ \A t \in Strategies : principal'[t] + yield'[t] <= assetBal'[t]
  <2>1. /\ assetBal'[Vault] = assetBal[Vault] + amount
        /\ assetBal'[s] = assetBal[s] - amount
        /\ \A x \in Accounts \ {s, Vault} : assetBal'[x] = assetBal[x]
    BY <1>7, TransferMoves DEF IInv, TypeOK
  <2> QED
    BY <1>1, <1>2, <1>7, <2>1 DEF TotalValue
<1>8. CASE \E s \in Strategies, amount \in Amounts : DeallocateFromStrategy(s, amount)
  BY <1>7, <1>8, DeallocateEffect, InputAssumption DEF NoPhoenix
<1>9. CASE \E caller \in Principals, s \in Strategies : EmergencyExitStrategy(caller, s)
  <2>1. PICK caller \in Principals, s \in Strategies : EmergencyExitStrategy(caller, s)
    BY <1>9
  <2>2. /\ TotalValue(s) \in Nat /\ AssetTransfer(s, Vault, TotalValue(s))
        /\ totalIdleAssets' = totalIdleAssets + TotalValue(s)
        /\ principal'[s] + yield'[s] = TotalValue(s) - TotalValue(s)
        /\ \A t \in Strategies \ {s} : principal'[t] = principal[t] /\ yield'[t] = yield[t]
    BY <2>1, ExitEffect DEF NoPhoenix
  <2> QED
    BY <1>7, <2>2
<1>10. CASE RegistryNext \/ PolicyNext \/ QuietStep
  BY <1>1, <1>2, <1>10, RegistryEffect, PolicyEffect, QuietEffect DEF bookVars, vaultVars
<1>11. CASE AdapterNext
  BY <1>1, <1>2, <1>11, FeesEffect DEF NoPhoenix, vaultVars
<1> QED
  BY <1>4, <1>5, <1>6, <1>8, <1>9, <1>10, <1>11, StepKinds

(* Initially there is nothing to back.                                     *)
LEMMA BackingInit == Init => IdleBacked /\ PositionsBacked
<1> SUFFICES ASSUME Init PROVE IdleBacked /\ PositionsBacked
  OBVIOUS
<1>1. assetBal \in [Accounts -> Nat] /\ totalIdleAssets = 0
  BY InitialFundsAssumption DEF Init, AssetInit, VaultInit
<1>2. \A s \in Strategies : principal[s] = 0 /\ yield[s] = 0
  BY DEF Init, AdapterInit
<1> QED
  BY <1>1, <1>2, AdapterAssumption DEF IdleBacked, PositionsBacked, TotalValue

(* A withdrawal that passes the vault's idle check can always be paid.     *)
THEOREM IdleIsBacked == ASSUME NoPhoenix PROVE Spec => []IdleBacked
<1>1. IInv /\ IdleBacked /\ PositionsBacked /\ [Next]_vars => IdleBacked' /\ PositionsBacked'
  BY BackingStep
<1> QED
  BY <1>1, BackingInit, SpecIInv, PTL DEF Spec

(* Every position can be returned in full.                                 *)
THEOREM PositionsAreBacked == ASSUME NoPhoenix PROVE Spec => []PositionsBacked
<1>1. IInv /\ IdleBacked /\ PositionsBacked /\ [Next]_vars => IdleBacked' /\ PositionsBacked'
  BY BackingStep
<1> QED
  BY <1>1, BackingInit, SpecIInv, PTL DEF Spec

(* Without Phoenix nothing ever accrues (no call of the vault reaches       *)
(* harvest): the strengthening that keeps record and principal in step.    *)
NoYield == \A s \in Strategies : yield[s] = 0

(* Every strategy's record respects its cap and covers its principal,      *)
(* whatever the interleaving of cap updates, allocations and exits.        *)
THEOREM CapsRespected == ASSUME NoPhoenix PROVE Spec => []CapRespected
<1>1. Init => CapRespected /\ NoYield
  BY DEF Init, AdapterInit, RegistryInit, CapRespected, NoYield
<1>2. IInv /\ CapRespected /\ NoYield /\ [Next]_vars => CapRespected' /\ NoYield'
  <2> SUFFICES ASSUME IInv, CapRespected, NoYield, [Next]_vars, NEW t \in Strategies
               PROVE  /\ registry'[t].allocated <= registry'[t].cap
                      /\ principal'[t] <= registry'[t].allocated
                      /\ yield'[t] = 0
    BY DEF CapRespected, NoYield
  <2>1. /\ principal[t] \in Nat /\ principal'[t] \in Nat
        /\ registry[t].allocated \in Nat /\ registry[t].cap \in Nat
    BY StepIInv DEF IInv, TypeOK, AdapterTypeOK, RegistryTypeOK
  <2>2. /\ registry[t].allocated <= registry[t].cap
        /\ principal[t] <= registry[t].allocated /\ yield[t] = 0
    BY DEF CapRespected, NoYield
  <2>3. ASSUME NEW a \in Agents, NEW s \in Strategies, NEW amount \in Amounts,
               AllocateToStrategy(a, s, amount)
        PROVE  /\ registry'[t].allocated <= registry'[t].cap
               /\ principal'[t] <= registry'[t].allocated
               /\ yield'[t] = 0
    <3>1. /\ amount \in Nat /\ registry[s].allocated + amount <= registry[s].cap
          /\ registry' = [registry EXCEPT ![s].allocated = registry[s].allocated + amount]
          /\ principal' = [principal EXCEPT ![s] = principal[s] + amount] /\ yield' = yield
      BY <2>3, AllocateEffect, InputAssumption
    <3> QED
      BY <2>1, <2>2, <3>1 DEF IInv, TypeOK, RegistryTypeOK, AdapterTypeOK
  <2>4. ASSUME NEW s \in Strategies, NEW amount \in Amounts, DeallocateFromStrategy(s, amount)
        PROVE  /\ registry'[t].allocated <= registry'[t].cap
               /\ principal'[t] <= registry'[t].allocated
               /\ yield'[t] = 0
    <3>1. /\ amount \in Nat
          /\ registry' = [registry EXCEPT
                              ![s].allocated = Monus(registry[s].allocated, amount)]
          /\ principal'[s] = Monus(principal[s], Monus(amount, yield[s]))
          /\ yield'[s] <= yield[s] /\ yield'[s] \in Nat
          /\ \A r \in Strategies \ {s} : principal'[r] = principal[r] /\ yield'[r] = yield[r]
      BY <2>4, DeallocateEffect, InputAssumption DEF IInv, TypeOK, AdapterTypeOK
    <3>2. yield[s] = 0
      BY DEF NoYield
    <3> QED
      BY <2>1, <2>2, <3>1, <3>2 DEF Monus, IInv, TypeOK, RegistryTypeOK
  <2>5. CASE \E caller \in Principals, s \in Strategies : EmergencyExitStrategy(caller, s)
    <3>1. PICK caller \in Principals, s \in Strategies : EmergencyExitStrategy(caller, s)
      BY <2>5
    <3> QED
      BY <2>1, <2>2, <3>1, ExitEffect
  <2>6. CASE RegistryNext \/ PolicyNext \/ QuietStep
    BY <2>1, <2>2, <2>6, RegistryEffect, PolicyEffect, QuietEffect DEF bookVars
  <2>7. CASE AdapterNext
    BY <2>1, <2>2, <2>7, FeesEffect DEF NoPhoenix
  <2> QED
    BY <2>2, <2>3, <2>4, <2>5, <2>6, <2>7, StepKinds, DepositEffect, WithdrawEffect DEF bookVars
<1> QED
  BY <1>1, <1>2, SpecIInv, PTL DEF Spec

(* What all shares together convert to is held by the vault and its        *)
(* strategies: rounding down keeps the conversion within the assets        *)
(* counted, and those are backed.                                          *)
THEOREM AlwaysSolvent == ASSUME NoPhoenix PROVE Spec => []Solvent
<1>1. IInv /\ NoPhantomAllocation /\ IdleBacked /\ PositionsBacked => Solvent
  <2> SUFFICES ASSUME IInv, NoPhantomAllocation, IdleBacked, PositionsBacked
               PROVE  Solvent
    OBVIOUS
  <2> DEFINE held == [s \in Strategies |-> TotalValue(s)]
             owned == [s \in Strategies |-> assetBal[s]]
  <2>1. /\ totalSupply \in Nat /\ totalIdleAssets \in Nat /\ allocatedAssets \in Nat
        /\ assetBal[Vault] \in Nat
    BY AdapterAssumption DEF IInv, TypeOK, TokenTypeOK, VaultTypeOK, AssetTypeOK
  <2>2. ConvertToAssets(totalSupply) <= totalIdleAssets + allocatedAssets
    <3> DEFINE A == totalIdleAssets + allocatedAssets
               S == totalSupply + 1000
               n == totalSupply * (A + 1)
    <3>1. A \in Nat /\ S \in Nat \ {0} /\ n \in Nat
      BY <2>1, Z3
    <3>2. n < (A + 1) * S
      <4>1. (A + 1) * S = totalSupply * (A + 1) + 1000 * (A + 1)
        BY <2>1, Z3
      <4>2. totalSupply * (A + 1) \in Nat
        BY <2>1, Z3
      <4> QED
        BY <2>1, <4>1, <4>2
    <3>3. ConvertToAssets(totalSupply) = n \div S
      BY DEF ConvertToAssets, TotalAssets, VIRTUAL_ASSETS, VIRTUAL_SHARES
    <3> HIDE DEF A, S, n
    <3>4. n \div S <= A
      BY <3>1, <3>2, DivAtMost
    <3> QED
      BY <3>3, <3>4 DEF A
  <2>3. held \in [Strategies -> Nat] /\ owned \in [Strategies -> Nat]
    BY AdapterAssumption DEF IInv, TypeOK, AdapterTypeOK, AssetTypeOK, TotalValue
  <2>4. \A s \in Strategies : held[s] <= owned[s]
    BY DEF PositionsBacked
  <2> HIDE DEF held, owned
  <2>5. Total(held) <= Total(owned) /\ Total(held) \in Nat /\ Total(owned) \in Nat
    BY <2>3, <2>4, TotalMonotone, TotalBounds, DeploymentAssumption
  <2>6. allocatedAssets <= Total(held) /\ totalIdleAssets <= assetBal[Vault]
    BY DEF NoPhantomAllocation, IdleBacked, held
  <2>7. ConvertToAssets(totalSupply) \in Nat
    BY <2>1, ConversionsRoundDown DEF IInv, TypeOK
  <2>8. ConvertToAssets(totalSupply) <= assetBal[Vault] + Total(owned)
    BY <2>1, <2>2, <2>5, <2>6, <2>7
  <2> QED
    BY <2>8 DEF Solvent, owned
<1> QED
  BY <1>1, NothingPhantom, IdleIsBacked, PositionsAreBacked, SpecIInv, PTL

----
(* The price.                                                              *)

(* Depositing and at once withdrawing never profits, at any price.         *)
THEOREM RoundTrip == Spec => []RoundTripNeverProfits
<1>1. IInv => RoundTripNeverProfits
  <2> SUFFICES ASSUME IInv, NEW amount \in Amounts
               PROVE  (ConvertToShares(amount) * (TotalAssets + amount + VIRTUAL_ASSETS))
                         \div (totalSupply + ConvertToShares(amount) + VIRTUAL_SHARES) <= amount
    BY DEF RoundTripNeverProfits
  <2> DEFINE k == ConvertToShares(amount)
             A == TotalAssets + 1
             S == totalSupply + 1000
  <2>1. /\ amount \in Nat /\ A \in Nat \ {0} /\ S \in Nat \ {0}
        /\ TotalAssets \in Nat /\ totalSupply \in Nat
    BY InputAssumption DEF IInv, TypeOK, VaultTypeOK, TokenTypeOK, TotalAssets
  <2>2. k \in Nat /\ k * A <= amount * S
    BY <2>1, ConversionsRoundDown DEF IInv, TypeOK
  <2> HIDE DEF k
  <2>3. TotalAssets + amount + VIRTUAL_ASSETS = A + amount
    BY <2>1 DEF VIRTUAL_ASSETS
  <2>4. totalSupply + k + VIRTUAL_SHARES = S + k
    BY <2>1, <2>2 DEF VIRTUAL_SHARES
  <2> HIDE DEF A, S
  <2>5. (k * (A + amount)) \div (S + k) <= amount
    BY <2>1, <2>2, RoundTripFloor
  <2> QED
    BY <2>3, <2>4, <2>5 DEF k
<1> QED
  BY <1>1, SpecIInv, PTL

(* No step lowers the price of a share.                                    *)
THEOREM PriceIsMonotone == Spec => PriceNeverFalls
<1>1. IInv /\ [Next]_vars =>
         (TotalAssets + VIRTUAL_ASSETS) * (totalSupply' + VIRTUAL_SHARES)
            <= (TotalAssets' + VIRTUAL_ASSETS) * (totalSupply + VIRTUAL_SHARES)
  <2> SUFFICES ASSUME IInv, [Next]_vars
               PROVE  (TotalAssets + VIRTUAL_ASSETS) * (totalSupply' + VIRTUAL_SHARES)
                         <= (TotalAssets' + VIRTUAL_ASSETS) * (totalSupply + VIRTUAL_SHARES)
    OBVIOUS
  <2>1. totalIdleAssets \in Nat /\ allocatedAssets \in Nat /\ totalSupply \in Nat
    BY DEF IInv, TypeOK, VaultTypeOK, TokenTypeOK
  <2>2. PICK idle2 \in Nat, allocated2 \in Nat, supply2 \in Nat :
              /\ totalIdleAssets' = idle2 /\ allocatedAssets' = allocated2
              /\ totalSupply' = supply2
    BY StepIInv DEF IInv, TypeOK, VaultTypeOK, TokenTypeOK
  <2> DEFINE A == totalIdleAssets + allocatedAssets + 1
             S == totalSupply + 1000
             B == idle2 + allocated2 + 1
             T == supply2 + 1000
             Rises == A * T <= B * S
  <2> SUFFICES Rises
    BY <2>2 DEF TotalAssets, VIRTUAL_ASSETS, VIRTUAL_SHARES
  <2>3. A \in Nat /\ B \in Nat /\ S \in Nat /\ T \in Nat /\ A = TotalAssets + 1
    BY <2>1 DEF TotalAssets
  <2>4. ASSUME supply2 = totalSupply,
               idle2 + allocated2 >= totalIdleAssets + allocatedAssets
        PROVE  Rises
    <3>1. T = S /\ A <= B
      BY <2>1, <2>4
    <3> HIDE DEF A, B, S, T
    <3>2. A * S <= B * S
      BY <2>3, <3>1, GrowthKeepsPrice
    <3> QED
      BY <3>1, <3>2
  <2>5. ASSUME NEW u \in Holders, NEW amount \in Amounts, Deposit(u, amount)
        PROVE  Rises
    <3> DEFINE k == ConvertToShares(amount)
    <3>1. /\ amount \in Nat /\ totalIdleAssets' = totalIdleAssets + amount
          /\ allocatedAssets' = allocatedAssets /\ totalSupply' = totalSupply + k
      BY <2>5, DepositEffect, InputAssumption
    <3>2. k \in Nat /\ k * A <= amount * S
      BY <2>3, <3>1, ConversionsRoundDown DEF IInv, TypeOK
    <3> HIDE DEF k
    <3>3. B = A + amount /\ T = S + k
      BY <2>1, <2>2, <3>1, <3>2
    <3> HIDE DEF A, B, S, T
    <3>4. A * (S + k) <= (A + amount) * S
      BY <2>3, <3>1, <3>2, DepositKeepsPrice
    <3> QED
      BY <3>3, <3>4
  <2>6. ASSUME NEW u \in Holders, NEW shares \in ShareAmounts, Withdraw(u, shares)
        PROVE  Rises
    <3> DEFINE m == ConvertToAssets(shares)
    <3>1. /\ m \in 0..totalIdleAssets /\ totalIdleAssets' = totalIdleAssets - m
          /\ allocatedAssets' = allocatedAssets
          /\ shares \in 0..totalSupply /\ totalSupply' = totalSupply - shares
      BY <2>6, WithdrawEffect
    <3>2. shares \in Nat
      BY InputAssumption
    <3>3. m * S <= shares * A
      BY <2>3, <3>2, ConversionsRoundDown DEF IInv, TypeOK
    <3> HIDE DEF m
    <3>4. B = A - m /\ T = S - shares /\ m \in 0..A /\ shares \in 0..S
      BY <2>1, <2>2, <3>1
    <3> HIDE DEF A, B, S, T
    <3>5. A * (S - shares) <= (A - m) * S
      BY <2>3, <3>3, <3>4, WithdrawKeepsPrice
    <3> QED
      BY <3>4, <3>5
  <2>7. CASE \E a \in Agents, s \in Strategies, amount \in Amounts : AllocateToStrategy(a, s, amount)
    BY <2>1, <2>2, <2>4, <2>7, AllocateEffect
  <2>8. CASE \E s \in Strategies, amount \in Amounts : DeallocateFromStrategy(s, amount)
    BY <2>1, <2>2, <2>4, <2>8, DeallocateEffect, InputAssumption
  <2>9. CASE \E caller \in Principals, s \in Strategies : EmergencyExitStrategy(caller, s)
    <3>1. PICK caller \in Principals, s \in Strategies : EmergencyExitStrategy(caller, s)
      BY <2>9
    <3> DEFINE value == TotalValue(s)
    <3>2. /\ value \in Nat /\ totalIdleAssets' = totalIdleAssets + value
          /\ allocatedAssets' >= allocatedAssets - value /\ totalSupply' = totalSupply
      BY <3>1, ExitEffect
    <3> HIDE DEF value
    <3> QED
      BY <2>1, <2>2, <2>4, <3>2
  <2>10. CASE RegistryNext \/ PolicyNext \/ AdapterNext \/ QuietStep
    <3>1. UNCHANGED <<totalSupply, totalIdleAssets, allocatedAssets>>
      BY <2>10, RegistryEffect, PolicyEffect, FeesEffect, QuietEffect DEF vaultVars
    <3> QED
      BY <2>1, <2>2, <2>4, <3>1
  <2> QED
    BY <2>5, <2>6, <2>7, <2>8, <2>9, <2>10, StepKinds
<1> QED
  BY <1>1, SpecIInv, PTL DEF Spec, PriceNeverFalls

(* While the vault is paused, funds can only come home.                    *)
THEOREM PauseOnlyReceives == Spec => PausedOnlyReceives
<1> DEFINE Home == /\ totalSupply' = totalSupply
                   /\ totalIdleAssets' >= totalIdleAssets
                   /\ assetBal'[Vault] >= assetBal[Vault]
                   /\ \A s \in Strategies : principal'[s] <= principal[s]
<1>1. IInv /\ [Next]_vars => (paused => Home)
  <2> SUFFICES ASSUME IInv, [Next]_vars, paused PROVE Home
    OBVIOUS
  <2>1. /\ totalIdleAssets \in Nat /\ assetBal[Vault] \in Nat
        /\ \A s \in Strategies : principal[s] \in Nat
    BY AdapterAssumption DEF IInv, TypeOK, VaultTypeOK, AssetTypeOK, AdapterTypeOK
  <2>2. CASE \E s \in Strategies, amount \in Amounts : DeallocateFromStrategy(s, amount)
    <3>1. PICK s \in Strategies, amount \in Amounts : DeallocateFromStrategy(s, amount)
      BY <2>2
    <3> QED
      BY <2>1, <3>1, DeallocateEffect, InputAssumption
  <2>3. CASE \E caller \in Principals, s \in Strategies : EmergencyExitStrategy(caller, s)
    <3>1. PICK caller \in Principals, s \in Strategies : EmergencyExitStrategy(caller, s)
      BY <2>3
    <3> QED
      BY <2>1, <3>1, ExitEffect
  <2>4. CASE RegistryNext \/ PolicyNext \/ AdapterNext \/ QuietStep
    <3>1. /\ UNCHANGED <<totalSupply, totalIdleAssets, principal>>
          /\ assetBal' = assetBal \/ assetBal'[Vault] >= assetBal[Vault]
      BY <2>4, RegistryEffect, PolicyEffect, FeesEffect, QuietEffect DEF bookVars, vaultVars
    <3> QED
      BY <2>1, <3>1
  <2> QED
    BY <2>2, <2>3, <2>4, StepKinds, DepositEffect, WithdrawEffect, AllocateEffect
<1> QED
  BY <1>1, SpecIInv, PTL DEF Spec, PausedOnlyReceives
====
