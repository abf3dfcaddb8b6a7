---- MODULE PolicyVerifier ----
(***************************************************************************)
(* engine/src/policy_verifier.ts: the deterministic rules that every       *)
(* proposal of an agent must pass before it may touch the chain.  Each     *)
(* process of the control loop constructs a verifier of its own, so the    *)
(* daily total lives and dies with the process.                            *)
(***************************************************************************)
EXTENDS Integers

CONSTANTS
    Processes,      \* the processes that construct a verifier
    Rules           \* Rules[p]: the PolicyRules the verifier of p is given

ASSUME RulesAssumption ==
    \A p \in Processes :
        /\ Rules[p].maxTransactionSize \in Nat
        /\ Rules[p].dailySpendCap \in Nat
        /\ Rules[p].minIdleReservePercentage \in Nat
        /\ Rules[p].humanApprovalThreshold \in Nat

VARIABLES
    day,            \* the UTC day, Math.floor(Date.now() / 86400000)
    dailySpent,     \* dailySpentStroops, of each process
    lastResetDay    \* lastResetDay, of each process

verifierVars == <<dailySpent, lastResetDay>>

VerifierInit ==
    /\ day = 0
    /\ dailySpent = [p \in Processes |-> 0]
    /\ lastResetDay = [p \in Processes |-> day]

(* checkDailyReset: yesterday's total does not count today.                *)
SpentThisDay(p) == IF day > lastResetDay[p] THEN 0 ELSE dailySpent[p]

(* The idle assets an allocation leaves, as a percentage rounded down.     *)
LeavesReserve(p, amount, state) ==
    /\ amount <= state.idle
    /\ state.total > 0 =>
        ((state.idle - amount) * 100) \div state.total >= Rules[p].minIdleReservePercentage

Approved(p, proposal, state) ==
    /\ proposal.agent \in Rules[p].allowedAgents
    /\ proposal.strategy \in Rules[p].allowedStrategies
    /\ proposal.amount <= Rules[p].maxTransactionSize
    /\ SpentThisDay(p) + proposal.amount <= Rules[p].dailySpendCap
    /\ proposal.maxSlippageBps <= Rules[p].maxSlippageBps
    /\ LeavesReserve(p, proposal.amount, state)

RequiresHuman(p, proposal) == proposal.amount >= Rules[p].humanApprovalThreshold

(* What evaluateProposal returns of a proposal, given the protocol state   *)
(* its caller holds.                                                       *)
Evaluation(p, proposal, state) ==
    [approved      |-> Approved(p, proposal, state),
     requiresHuman |-> RequiresHuman(p, proposal)]

Automatic(evaluation) == evaluation.approved /\ ~evaluation.requiresHuman

(* A variant that counts what still waits for an operator.                 *)
CountGranted(p, proposal, evaluation) ==
    /\ dailySpent' = [dailySpent EXCEPT ![p] =
           SpentThisDay(p) + (IF evaluation.approved THEN proposal.amount ELSE 0)]
    /\ lastResetDay' = [lastResetDay EXCEPT ![p] = day]

(* The verifier's own state after an evaluation: the reset of the day, and *)
(* the amount when the approval needs nobody.                              *)
CountAutomatic(p, proposal, evaluation) ==
    /\ dailySpent' = [dailySpent EXCEPT ![p] =
           SpentThisDay(p) + (IF Automatic(evaluation) THEN proposal.amount ELSE 0)]
    /\ lastResetDay' = [lastResetDay EXCEPT ![p] = day]

(* A process that starts constructs its verifier anew.                     *)
NewVerifier(p) ==
    /\ dailySpent' = [dailySpent EXCEPT ![p] = 0]
    /\ lastResetDay' = [lastResetDay EXCEPT ![p] = day]
====
