---- MODULE FeeController ----
(***************************************************************************)
(* contracts/fee_controller: the performance fee above a high-water mark   *)
(* and the split of collected fees between treasury and first-loss         *)
(* reserve.  Only the bound vault may assess and route; the vault contract *)
(* never does, so its calls are inputs here.                               *)
(***************************************************************************)
EXTENDS Ledger, Asset

CONSTANTS
    Controller,     \* the fee controller contract
    Treasury,       \* DataKey::Treasury
    Reserve,        \* DataKey::FirstLossReserve
    FeeRates        \* bound: rates, in bps, deployed with or asked for by the admin

ASSUME FeeAssumption ==
    /\ {Controller, Treasury, Reserve} \subseteq Accounts
    /\ Controller \notin {Treasury, Reserve} /\ Treasury # Reserve
    /\ FeeRates \subseteq Nat

VARIABLES
    performanceFeeBps,  \* DataKey::PerformanceFeeBps
    managementFeeBps,   \* DataKey::ManagementFeeBps
    highWaterMark,      \* DataKey::HighWaterMark
    lastAccrualLedger,  \* DataKey::LastAccrualLedger
    chargedGain,        \* history: the sum of the gains per unit charged so far
    highestNav,         \* history: the highest nav assessed so far
    routes              \* how many fees were routed, for a bound

rateVars == <<performanceFeeBps, managementFeeBps>>
markVars == <<highWaterMark, chargedGain, highestNav>>
routeVars == <<lastAccrualLedger, routes>>
feeVars == <<rateVars, markVars, routeVars>>

INITIAL_HWM == 10000000
MaxManagementBps == 500
MaxPerformanceBps == 2500

FeeInit ==
    /\ performanceFeeBps \in FeeRates
    /\ managementFeeBps \in FeeRates
    /\ highWaterMark = INITIAL_HWM
    /\ lastAccrualLedger = seq
    /\ chargedGain = 0
    /\ highestNav = INITIAL_HWM
    /\ routes = 0

HigherOf(a, b) == IF a < b THEN b ELSE a

(* Wrong variant: the mark follows the nav down, not only up.              *)
AssessFollowingNav(nav, assets) ==
    /\ assets > 0
    /\ highestNav' = HigherOf(highestNav, nav)
    /\ highWaterMark' = nav
    /\ chargedGain' = chargedGain + HigherOf(nav - highWaterMark, 0)
    /\ UNCHANGED <<rateVars, routeVars>>

(* With no gain, no assets or no rate the call returns 0 and the mark      *)
(* stays; the fee itself is returned to the vault, not kept here.          *)
AssessPerformanceFee(nav, assets) ==
    LET charged == nav > highWaterMark /\ assets > 0 /\ performanceFeeBps # 0
    IN  /\ highestNav' = HigherOf(highestNav, nav)
        /\ highWaterMark' = IF charged THEN nav ELSE highWaterMark
        /\ chargedGain' = IF charged THEN chargedGain + (nav - highWaterMark) ELSE chargedGain
        /\ UNCHANGED <<rateVars, routeVars>>

(* Half, rounded down, to the reserve and the remainder to the treasury.   *)
RouteFee(fee) ==
    /\ fee > 0
    /\ lastAccrualLedger' = seq
    /\ routes' = routes + 1
    /\ assetBal[Controller] >= fee
    /\ assetBal' = [assetBal EXCEPT ![Controller] = @ - fee,
                                    ![Reserve] = @ + fee \div 2,
                                    ![Treasury] = @ + (fee - fee \div 2)]
    /\ UNCHANGED <<rateVars, markVars>>

UpdateFeeRates(management, performance) ==
    /\ management <= MaxManagementBps
    /\ performance <= MaxPerformanceBps
    /\ managementFeeBps' = management
    /\ performanceFeeBps' = performance
    /\ UNCHANGED <<markVars, routeVars>>
====
