---- MODULE PolicyAccount ----
(***************************************************************************)
(* contracts/policy_account: which agents may move the vault's funds, to   *)
(* which contracts, and how much per call and per day.  The vault calls    *)
(* verify_and_record_action inside every allocation.                       *)
(***************************************************************************)
EXTENDS Deployment

CONSTANTS
    Agents,             \* addresses that may be authorised
    DAY_IN_LEDGERS      \* the length of a spending window (17280)

ASSUME DayAssumption == DAY_IN_LEDGERS \in Nat \ {0}

VARIABLES
    authorizedAgents,   \* DataKey::AuthorizedAgents, those mapped to true
    allowedContracts,   \* DataKey::AllowedContracts, those mapped to true
    maxTxAmount,        \* DataKey::MaxTxAmount
    dailySpendLimit,    \* DataKey::DailySpendLimit
    spentToday,         \* DataKey::SpentToday
    lastResetLedger     \* DataKey::LastResetLedger

policyVars == <<authorizedAgents, allowedContracts, maxTxAmount,
                dailySpendLimit, spentToday, lastResetLedger>>

PolicyTypeOK ==
    /\ authorizedAgents \subseteq Agents
    /\ allowedContracts \subseteq Strategies
    /\ maxTxAmount \in Nat
    /\ dailySpendLimit \in Nat
    /\ spentToday \in Nat
    /\ lastResetLedger \in 0..seq

PolicyInit(maxTx, dailyLimit) ==
    /\ authorizedAgents = {}
    /\ allowedContracts = {}
    /\ maxTxAmount = maxTx
    /\ dailySpendLimit = dailyLimit
    /\ spentToday = 0
    /\ lastResetLedger = seq

SetAgentStatus(agent, active) ==
    /\ authorizedAgents' = IF active THEN authorizedAgents \cup {agent}
                                     ELSE authorizedAgents \ {agent}
    /\ UNCHANGED <<allowedContracts, maxTxAmount, dailySpendLimit,
                   spentToday, lastResetLedger>>

SetContractAllowed(target, allowed) ==
    /\ allowedContracts' = IF allowed THEN allowedContracts \cup {target}
                                      ELSE allowedContracts \ {target}
    /\ UNCHANGED <<authorizedAgents, maxTxAmount, dailySpendLimit,
                   spentToday, lastResetLedger>>

SetLimits(maxTx, dailyLimit) ==
    /\ maxTx > 0
    /\ dailyLimit > 0
    /\ maxTxAmount' = maxTx
    /\ dailySpendLimit' = dailyLimit
    /\ UNCHANGED <<authorizedAgents, allowedContracts, spentToday, lastResetLedger>>

WindowElapsed == seq >= lastResetLedger + DAY_IN_LEDGERS

SpentInWindow == IF WindowElapsed THEN 0 ELSE spentToday

(* A variant that never moves the window on.                               *)
VerifyAndRecordActionInOldWindow(agent, target, amount) ==
    /\ agent \in authorizedAgents
    /\ target \in allowedContracts
    /\ amount <= maxTxAmount
    /\ SpentInWindow + amount <= dailySpendLimit
    /\ spentToday' = SpentInWindow + amount
    /\ UNCHANGED <<authorizedAgents, allowedContracts, maxTxAmount, dailySpendLimit,
                   lastResetLedger>>

VerifyAndRecordAction(agent, target, amount) ==
    /\ agent \in authorizedAgents
    /\ target \in allowedContracts
    /\ amount <= maxTxAmount
    /\ SpentInWindow + amount <= dailySpendLimit
    /\ spentToday' = SpentInWindow + amount
    /\ lastResetLedger' = IF WindowElapsed THEN seq ELSE lastResetLedger
    /\ UNCHANGED <<authorizedAgents, allowedContracts, maxTxAmount, dailySpendLimit>>
====
