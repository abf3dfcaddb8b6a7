---- MODULE StrategyAdapters ----
(***************************************************************************)
(* The strategy adapters (contracts/blend_adapter, soroswap_adapter,       *)
(* phoenix_adapter and mock_strategy).  They offer the vault one interface *)
(* and keep the same books: a principal, a yield they accrue internally,   *)
(* and a flag that an emergency exit raises and nothing lowers.  Kind says *)
(* which contract stands behind an address; where the contracts differ the *)
(* operators below name the kind.                                          *)
(*                                                                         *)
(* mock_strategy keeps one Balance; it is the principal here, its yield 0. *)
(***************************************************************************)
EXTENDS Deployment, Asset

CONSTANTS
    Kind,           \* the contract behind each address
    RateBps,        \* LendingRateBps / FeeAprBps / YieldRateBps
    TickWidths      \* tick widths a Phoenix position may be centred on

Kinds == {"blend", "soroswap", "phoenix", "mock"}

ASSUME AdapterAssumption ==
    /\ Kind \in [Strategies -> Kinds]
    /\ Strategies \subseteq Accounts
    /\ Vault \in Accounts \ Strategies
    /\ RateBps \in Nat
    /\ TickWidths \subseteq Nat \ {0}

VARIABLES
    principal,      \* SuppliedPrincipal / PrincipalValue / Balance
    yield,          \* AccruedInterest / AccruedSwapFees
    units,          \* LpSharesBalance (soroswap), ConcentratedLiquidity (phoenix)
    tickWidth,      \* TickUpper - TickLower (phoenix)
    adapterPaused   \* DataKey::Paused of the adapter

bookVars == <<principal, yield, units, tickWidth, adapterPaused>>

AdapterTypeOK ==
    /\ principal \in [Strategies -> Nat]
    /\ yield \in [Strategies -> Nat]
    /\ units \in [Strategies -> Nat]
    /\ tickWidth \in [Strategies -> TickWidths]
    /\ adapterPaused \in [Strategies -> BOOLEAN]

AdapterInit ==
    /\ principal = [s \in Strategies |-> 0]
    /\ yield = [s \in Strategies |-> 0]
    /\ units = [s \in Strategies |-> 0]
    /\ tickWidth \in [Strategies -> TickWidths]
    /\ adapterPaused = [s \in Strategies |-> FALSE]

TotalValue(s) == principal[s] + yield[s]

UnitsForDeposit(s, amount) ==
    IF Kind[s] = "phoenix" THEN (amount * 1000) \div tickWidth[s]
    ELSE IF Kind[s] = "soroswap" THEN amount ELSE 0

(* Evaluated before the books change: total is TotalValue on entry.        *)
UnitsToBurn(s, amount) ==
    IF Kind[s] = "phoenix" THEN (amount * units[s]) \div TotalValue(s)
    ELSE IF Kind[s] = "soroswap" THEN amount ELSE 0

(* Wrong variant: accepts deposits after an emergency exit.                *)
AdapterDepositWhilePaused(s, amount) ==
    /\ amount > 0
    /\ principal' = [principal EXCEPT ![s] = @ + amount]
    /\ units' = [units EXCEPT ![s] = @ + UnitsForDeposit(s, amount)]
    /\ UNCHANGED <<yield, tickWidth, adapterPaused>>

AdapterDeposit(s, amount) ==
    /\ ~adapterPaused[s]
    /\ amount > 0
    /\ principal' = [principal EXCEPT ![s] = @ + amount]
    /\ units' = [units EXCEPT ![s] = @ + UnitsForDeposit(s, amount)]
    /\ UNCHANGED <<yield, tickWidth, adapterPaused>>

(* Wrong variant: pays out principal but takes only the yield off the books. *)
AdapterWithdrawYieldOnly(s, amount) ==
    /\ amount > 0
    /\ TotalValue(s) >= amount
    /\ yield' = [yield EXCEPT ![s] = Monus(@, amount)]
    /\ AssetTransfer(s, Vault, amount)
    /\ UNCHANGED <<principal, units, tickWidth, adapterPaused>>

(* Yield is paid out first, then principal.                                *)
DrawDown(s, amount) ==
    /\ yield' = [yield EXCEPT ![s] = Monus(@, amount)]
    /\ principal' = [principal EXCEPT ![s] = Monus(@, Monus(amount, yield[s]))]

(* Every contract then transfers the amount to the vault; Phoenix skips    *)
(* the transfer when its own token balance is short and still reports the  *)
(* whole amount as withdrawn.                                              *)
AdapterWithdraw(s, amount) ==
    /\ amount > 0
    /\ TotalValue(s) >= amount
    /\ DrawDown(s, amount)
    /\ units' = [units EXCEPT ![s] = Monus(@, UnitsToBurn(s, amount))]
    /\ IF Kind[s] = "phoenix" /\ assetBal[s] < amount
         THEN UNCHANGED assetBal
         ELSE AssetTransfer(s, Vault, amount)
    /\ UNCHANGED <<tickWidth, adapterPaused>>

CloseBooks(s) ==
    /\ principal' = [principal EXCEPT ![s] = 0]
    /\ yield' = [yield EXCEPT ![s] = 0]
    /\ units' = [units EXCEPT ![s] = 0]
    /\ adapterPaused' = [adapterPaused EXCEPT ![s] = TRUE]

(* Phoenix sends what it holds, the others what their books say.           *)
Recovered(s) == IF Kind[s] = "phoenix" THEN assetBal[s] ELSE TotalValue(s)

(* Reports TotalValue(s) as recovered whatever was sent.                   *)
AdapterEmergencyExit(s) ==
    /\ CloseBooks(s)
    /\ AssetTransfer(s, Vault, Recovered(s))
    /\ UNCHANGED tickWidth

HarvestGain(s) == (principal[s] * RateBps) \div 10000

(* Phoenix has no harvest.  The mock adds its yield to its one balance.    *)
Harvest(s) ==
    /\ Kind[s] # "phoenix"
    /\ principal[s] # 0
    /\ RateBps # 0
    /\ IF Kind[s] = "mock"
         THEN /\ principal' = [principal EXCEPT ![s] = @ + HarvestGain(s)]
              /\ UNCHANGED yield
         ELSE /\ yield' = [yield EXCEPT ![s] = @ + HarvestGain(s)]
              /\ UNCHANGED principal
    /\ UNCHANGED <<units, tickWidth, adapterPaused, assetBal>>

AccrueFees(s, amount) ==
    /\ Kind[s] = "phoenix"
    /\ ~adapterPaused[s]
    /\ amount > 0
    /\ yield' = [yield EXCEPT ![s] = @ + amount]
    /\ UNCHANGED <<principal, units, tickWidth, adapterPaused, assetBal>>

RecenterTicks(s, width) ==
    /\ Kind[s] = "phoenix"
    /\ tickWidth' = [tickWidth EXCEPT ![s] = width]
    /\ UNCHANGED <<principal, yield, units, adapterPaused, assetBal>>
====
