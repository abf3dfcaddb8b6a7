---- MODULE Incentives ----
(***************************************************************************)
(* The contracts that move yield and fees around the vault, as one system: *)
(* the yield streamer and the fee controller over one asset.               *)
(***************************************************************************)
EXTENDS YieldStreamer, FeeController

CONSTANTS
    Donors,         \* accounts that fund streams, or send the contracts tokens directly
    Amounts,        \* bound: amounts of one call
    Durations,      \* bound: stream durations
    Navs,           \* bound: navs the vault reports, in stroops
    MaxRoutes       \* bound: fees routed

ASSUME IncentivesAssumption ==
    /\ Donors \subseteq Accounts \ {Streamer, Controller}
    /\ Streamer # Controller
    /\ Amounts \subseteq Nat
    /\ Durations \subseteq Nat
    /\ Navs \subseteq Nat

vars == <<seq, assetBal, streams, feeVars>>

Init ==
    /\ LedgerInit
    /\ AssetInit
    /\ StreamerInit
    /\ FeeInit

StreamNext ==
    /\ \/ \E d \in Donors, v \in Payees, amount \in Amounts, duration \in Durations :
             AddYieldStream(d, v, amount, duration)
       \/ \E v \in Payees : HarvestClaimable(v)
       \/ \E d \in Donors, amount \in Amounts :
             AssetTransfer(d, Streamer, amount) /\ UNCHANGED streams
    /\ UNCHANGED <<seq, feeVars>>

FeeNext ==
    /\ \/ \E nav \in Navs, assets \in Amounts :
             AssessPerformanceFee(nav, assets) /\ UNCHANGED assetBal
       \/ \E fee \in Amounts : routes < MaxRoutes /\ RouteFee(fee)
       \/ \E management, performance \in FeeRates :
             UpdateFeeRates(management, performance) /\ UNCHANGED assetBal
       \/ \E d \in Donors, amount \in Amounts :
             AssetTransfer(d, Controller, amount) /\ UNCHANGED feeVars
    /\ UNCHANGED <<seq, streams>>

Next == StreamNext \/ FeeNext \/ (CloseLedger /\ UNCHANGED <<assetBal, streams, feeVars>>)

Spec == Init /\ [][Next]_vars

----
(* Every balance, stream, rate and mark keeps its type.                    *)
TypeOK ==
    /\ LedgerTypeOK
    /\ AssetTypeOK
    /\ StreamerTypeOK
    /\ {performanceFeeBps, managementFeeBps, highWaterMark, chargedGain, highestNav, routes} \subseteq Nat
    /\ lastAccrualLedger \in 0..seq

(* The one pool covers what every stream still owes, to whichever address  *)
(* and at whichever moments the others harvest.  It may hold more: tokens  *)
(* sent to the streamer directly, and those of streams that name it.       *)
StreamsBacked ==
    Total([i \in DOMAIN streams |-> streams[i].totalAmount - streams[i].claimedAmount])
        <= assetBal[Streamer]

(* No stream is claimed ahead of the clock, so what get_claimable reports  *)
(* is never negative and no harvest takes another stream's tokens.         *)
ClaimedWithinUnlocked ==
    \A i \in DOMAIN streams : streams[i].claimedAmount <= Unlocked(streams[i])

(* No gain is charged twice: however the nav moves and the rate changes,   *)
(* the gains charged add up to no more than the rise to the highest nav.   *)
NoGainChargedTwice == chargedGain <= highestNav - INITIAL_HWM
====
