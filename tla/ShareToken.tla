---- MODULE ShareToken ----
(***************************************************************************)
(* contracts/token: the hXLM share token.  Balances move by the holder's   *)
(* own transfer or by a spender within an unexpired allowance; supply      *)
(* moves only by the calls of the vault the token is bound to.             *)
(*                                                                         *)
(* A missing allowance entry behaves as one of amount 0, because every     *)
(* spend is of a positive amount; a removed balance as a balance of 0.     *)
(***************************************************************************)
EXTENDS Deployment

CONSTANT Holders    \* addresses that hold shares

ASSUME HoldersAssumption == IsFiniteSet(Holders)

VARIABLES
    tokenVault,     \* DataKey::Vault
    totalSupply,    \* DataKey::TotalSupply
    shareBal,       \* DataKey::Balance(holder)
    allowance       \* DataKey::Allowance(from, spender)

tokenVars == <<tokenVault, totalSupply, shareBal, allowance>>

NoAllowance == [amount |-> 0, liveUntil |-> 0]

TokenTypeOK ==
    /\ tokenVault \in Vaults
    /\ totalSupply \in Nat
    /\ shareBal \in [Holders -> Nat]
    /\ allowance \in [Holders \X Holders -> [amount : Nat, liveUntil : Nat]]

TokenInit(vault) ==
    /\ tokenVault = vault
    /\ totalSupply = 0
    /\ shareBal = [h \in Holders |-> 0]
    /\ allowance = [p \in Holders \X Holders |-> NoAllowance]

SpendBalance(bal, from, amount) == [bal EXCEPT ![from] = @ - amount]
ReceiveBalance(bal, to, amount) == [bal EXCEPT ![to] = @ + amount]

(* Wrong variant: the receiver's balance is read before the sender's is    *)
(* written, so a transfer to oneself invents shares.                       *)
MoveSharesStaleRead(from, to, amount) ==
    /\ amount > 0
    /\ shareBal[from] >= amount
    /\ shareBal' = [shareBal EXCEPT ![from] = @ - amount, ![to] = shareBal[to] + amount]

MoveShares(from, to, amount) ==
    /\ amount > 0
    /\ shareBal[from] >= amount
    /\ shareBal' = ReceiveBalance(SpendBalance(shareBal, from, amount), to, amount)

SetTokenVault(vault) ==
    /\ tokenVault' = vault
    /\ UNCHANGED <<totalSupply, shareBal, allowance>>

TransferShares(from, to, amount) ==
    /\ MoveShares(from, to, amount)
    /\ UNCHANGED <<tokenVault, totalSupply, allowance>>

SpendAllowance(from, spender, amount) ==
    LET granted == allowance[<<from, spender>>]
    IN  /\ granted.liveUntil >= seq
        /\ granted.amount >= amount
        /\ allowance' = [allowance EXCEPT ![<<from, spender>>].amount = @ - amount]

TransferSharesFrom(spender, from, to, amount) ==
    /\ SpendAllowance(from, spender, amount)
    /\ MoveShares(from, to, amount)
    /\ UNCHANGED <<tokenVault, totalSupply>>

Approve(from, spender, amount, liveUntil) ==
    /\ amount >= 0
    /\ allowance' = [allowance EXCEPT ![<<from, spender>>] =
                        [amount |-> amount, liveUntil |-> liveUntil]]
    /\ UNCHANGED <<tokenVault, totalSupply, shareBal>>

Mint(caller, to, amount) ==
    /\ caller = tokenVault
    /\ amount > 0
    /\ totalSupply' = totalSupply + amount
    /\ shareBal' = ReceiveBalance(shareBal, to, amount)
    /\ UNCHANGED <<tokenVault, allowance>>

Burn(caller, from, amount) ==
    /\ caller = tokenVault
    /\ amount > 0
    /\ shareBal[from] >= amount
    /\ totalSupply' = totalSupply - amount
    /\ shareBal' = SpendBalance(shareBal, from, amount)
    /\ UNCHANGED <<tokenVault, allowance>>
====
