---- MODULE ControlLoop ----
(***************************************************************************)
(* The off-chain control loop and the part of the chain it acts on: the    *)
(* agent daemon (agents/src/daemon.ts) whose interval starts cycles while  *)
(* earlier ones still wait for the network, the single cycle the API       *)
(* server runs as a process of its own (daemon.ts --once), the keeper      *)
(* (engine/src/keeper_daemon.ts), and the policy account that every        *)
(* allocation must pass on chain.                                          *)
(*                                                                         *)
(* JavaScript runs to the next await without interruption.  An action is   *)
(* therefore the code between two awaits, and an answer of the network, or *)
(* its failure, is what lets a cycle go on.                                *)
(***************************************************************************)
EXTENDS PolicyVerifier, AuditLog, YieldAgents, KeeperBot, MevBackrun,
        PolicyAccount, Totals

CONSTANTS
    Daemons,            \* processes that run HikariAutonomousDaemon.start
    Onces,              \* processes that run daemon.js --once
    Keepers,            \* processes that run keeper cycles
    MaxCycles,          \* bound: cycles started by all processes together
    MaxAttempts,        \* how often executeOnChain polls (15)
    MoreEntries,        \* bound: how much longer a log may get
    MaxDay,             \* bound: the last UTC day
    DaemonState,        \* DaemonState[p]: the protocolState field, never refreshed
    VaultTotals,        \* what runDaemon may find in the vault when it starts
    KeeperInputs,       \* what else a caller of runKeeperCycle may hand it
    BlendPool,          \* the address behind the three Blend strategies
    PhoenixPool,
    SoroswapPool,
    TxLimits,           \* the limits the policy account may have been given
    DailyLimits,
    AgentAccount        \* the account of AGENT_SECRET_KEY, shared by all processes

ASSUME ControlLoopAssumption ==
    /\ Processes = Daemons \cup Onces \cup Keepers
    /\ AgentAccount \in Agents
    /\ MaxAttempts \in Nat \ {0}
    /\ MaxCycles \in Nat
    /\ MaxDay \in Nat
    /\ MoreEntries \in Nat
    /\ \A p \in Processes : DaemonState[p].total \in Nat /\ DaemonState[p].idle \in Nat
    /\ DailyLimits \subseteq Nat

ASSUME KeeperInputAssumption ==
    /\ VaultTotals \subseteq Nat
    /\ \A input \in KeeperInputs :
         /\ input.state.total \in Nat /\ input.state.idle \in Nat
         /\ \A s \in DOMAIN input.state.allocated : input.state.allocated[s] \in Nat
         /\ input.metrics.drawdownBps \in Nat
    /\ Thresholds.maxDrawdownBps \in Nat /\ Thresholds.bunkerDrawdownBps \in Nat

VARIABLES
    cycles,     \* the cycles of all processes, in the order of their start
    txs,        \* the transaction each cycle handed to the network, if any
    granted,    \* history: the proposals approved without a human, and on what
    seen,       \* history: the total assets a process was shown in this life
    landedAt    \* history: how much landed in each ledger

processVars == <<dailySpent, lastResetDay, chain, peakValue, seen>>
loopVars == <<day, cycles, txs, granted, landedAt, processVars>>
chainVars == <<seq, policyVars>>
vars == <<loopVars, chainVars>>

Slots == 1..MaxCycles

(* The awaits at which a cycle stands.                                     *)
Waiting == {"prices", "market", "account", "send", "poll"}

Reports == {"none", "nothing", "rejected", "human", "audited",
            "notice", "refused", "failed", "confirmed", "lost"}

NoProposal == [cycle |-> 0, agent |-> "none", strategy |-> "none", amount |-> 0,
               maxSlippageBps |-> 0]

Unused == [proc |-> "none", pc |-> "unused", proposal |-> NoProposal,
           accountSeq |-> 0, attempts |-> 0, report |-> "none"]

NoTx == [status |-> "none", accountSeq |-> 0]

(* Every account transaction that was included moved the sequence number   *)
(* on, whether it succeeded or failed.                                     *)
Included == {i \in Slots : txs[i].status \in {"success", "failed"}}
AccountSeq == Cardinality(Included)

CyclesOf(p) == {i \in Slots : cycles[i].proc = p /\ cycles[i].pc \in Waiting}

Begin(p, i, await) ==
    /\ cycles[i].pc = "unused"
    /\ \A k \in 1..(i - 1) : cycles[k].pc # "unused"
    /\ cycles' = [cycles EXCEPT ![i].proc = p, ![i].pc = await]

GoOn(i, await) == cycles' = [cycles EXCEPT ![i].pc = await]

(* The cycle is over; what it reported is what its log says.               *)
End(i, report) ==
    cycles' = [cycles EXCEPT ![i].pc = "done", ![i].report = report,
                             ![i].accountSeq = 0, ![i].attempts = 0]

----
(* Processes                                                               *)

StartProcess(p) ==
    /\ NewVerifier(p)
    /\ NewLog(p)
    /\ NewRiskEngine(p)
    /\ seen' = [seen EXCEPT ![p] = {}]

(* runSingleCycle up to the await of the prices.  The timer does not look  *)
(* at cycles that are still running.                                       *)
StartDaemonCycle(p, i) ==
    /\ Begin(p, i, "prices")
    /\ UNCHANGED <<day, txs, granted, landedAt, processVars, chainVars>>

(* POST /api/trigger-cycle: a process with a verifier, a log and a risk    *)
(* engine of its own, for one cycle.                                       *)
TriggerCycle(p, i) ==
    /\ CyclesOf(p) = {}
    /\ Begin(p, i, "prices")
    /\ StartProcess(p)
    /\ UNCHANGED <<day, txs, granted, landedAt, chainVars>>

(* A turn of runDaemon's loop, up to the await of the order book; the loop *)
(* is sequential.                                                          *)
StartKeeperCycle(p, i) ==
    /\ CyclesOf(p) = {}
    /\ Begin(p, i, "prices")
    /\ UNCHANGED <<day, txs, granted, landedAt, processVars, chainVars>>

(* The process dies and is started again: what it held in memory is gone,  *)
(* a transaction it sent is not.                                           *)
Restart(p) ==
    /\ CyclesOf(p) # {} \/ chain[p] # <<>>
    /\ StartProcess(p)
    /\ cycles' = [i \in Slots |->
           IF i \in CyclesOf(p) THEN [cycles[i] EXCEPT !.pc = "done", !.report = "lost",
                                                       !.accountSeq = 0, !.attempts = 0]
           ELSE cycles[i]]
    /\ UNCHANGED <<day, txs, granted, landedAt, chainVars>>

----
(* What the rules say of a proposal, counted, logged and remembered.       *)

Grant(p, proposal, state, evaluation) ==
    granted' = IF Automatic(evaluation)
               THEN granted \cup {[proc |-> p, proposal |-> proposal, state |-> state,
                                   seen |-> seen'[p]]}
               ELSE granted

Evaluate(p, proposal, state, evaluation) ==
    /\ CountAutomatic(p, proposal, evaluation)
    /\ Grant(p, proposal, state, evaluation)

----
(* The cycle of the daemon                                                 *)

(* What the scans say of a price Horizon may answer: the daemon's, of its  *)
(* two feeds, and the keeper's, of its three venues.                       *)
DaemonFindsNothing == \E price \in TradePrices : ScanArbitrage(Feeds(price)) = {}

KeeperFindsNothing ==
    \E price \in TradePrices : ScanMevOpportunities(VenuePrices(price)) = {}

(* The price came, or the constant instead of it.  What the daemon does    *)
(* with an opportunity is not modelled: the scan finds none.  The risk     *)
(* engine is asked, then the orchestrator starts, has a query to pay that  *)
(* costs more than it may spend on one, and asks the market.               *)
PricesAnswered(i) ==
    LET p == cycles[i].proc IN
    /\ p \notin Keepers
    /\ cycles[i].pc = "prices"
    /\ DaemonFindsNothing
    /\ ~CanPay(0, RiskFeedPrice)
    /\ RaisePeak(p, DaemonState[p].total)
    /\ seen' = [seen EXCEPT ![p] = @ \cup {DaemonState[p].total}]
    /\ GoOn(i, "market")
    /\ UNCHANGED <<day, txs, granted, landedAt, dailySpent, lastResetDay, chain, chainVars>>

(* A cycle that goes on to the chain whenever the rules were kept.         *)
AfterDecisionUnattended(i, proposal, evaluation) ==
    cycles' = [cycles EXCEPT ![i] =
        [@ EXCEPT !.proposal = proposal,
                  !.pc = IF evaluation.approved THEN "account" ELSE "done",
                  !.report = IF evaluation.approved THEN "none" ELSE "rejected"]]

(* Only an approval that needs nobody is executed.                         *)
AfterDecision(i, proposal, evaluation) ==
    cycles' = [cycles EXCEPT ![i] =
        [@ EXCEPT !.proposal = proposal,
                  !.pc = IF Automatic(evaluation) THEN "account" ELSE "done",
                  !.report = IF Automatic(evaluation) THEN "none"
                             ELSE IF evaluation.approved THEN "human" ELSE "rejected"]]

(* The market's answers: from the ranking to the decision and its entry in *)
(* the log nothing is awaited.                                             *)
MarketAnswered(i) ==
    LET p == cycles[i].proc IN
    /\ cycles[i].pc = "market"
    /\ UNCHANGED <<day, txs, landedAt, peakValue, seen, chainVars>>
    /\ \E proposal \in {Proposal(i, DaemonState[p], strategy) : strategy \in TopStrategies} :
       \E evaluation \in {Evaluation(p, proposal, DaemonState[p])} :
         IF proposal.amount = 0
         THEN /\ End(i, "nothing")
              /\ UNCHANGED <<granted, dailySpent, lastResetDay, chain>>
         ELSE /\ Evaluate(p, proposal, DaemonState[p], evaluation)
              /\ LogDecision(p, proposal, evaluation, day)
              /\ AfterDecision(i, proposal, evaluation)

(* getAccount and prepareTransaction: the sequence number is the one of    *)
(* now, the transaction is sent later.                                     *)
AccountAnswered(i) ==
    /\ cycles[i].pc = "account"
    /\ cycles' = [cycles EXCEPT ![i].pc = "send", ![i].accountSeq = AccountSeq]
    /\ UNCHANGED <<day, txs, granted, landedAt, processVars, chainVars>>

(* No key is configured, a call failed, or the simulation was refused.     *)
AccountFailed(i) ==
    /\ cycles[i].pc = "account"
    /\ End(i, "notice")
    /\ UNCHANGED <<day, txs, granted, landedAt, processVars, chainVars>>

Reaches(i) == txs' = [txs EXCEPT ![i] = [status |-> "pending", accountSeq |-> cycles[i].accountSeq]]

SendAccepted(i) ==
    /\ cycles[i].pc = "send"
    /\ Reaches(i)
    /\ GoOn(i, "poll")
    /\ UNCHANGED <<day, granted, landedAt, processVars, chainVars>>

(* The status ERROR: the network did not take the transaction.             *)
SendRefused(i) ==
    /\ cycles[i].pc = "send"
    /\ txs' = [txs EXCEPT ![i].status = "refused"]
    /\ End(i, "refused")
    /\ UNCHANGED <<day, granted, landedAt, processVars, chainVars>>

(* Any other status than PENDING and ERROR skips the polling, and the hash *)
(* is returned as that of a confirmed transaction.                         *)
SendDeferred(i) ==
    /\ cycles[i].pc = "send"
    /\ txs' = [txs EXCEPT ![i].status = "refused"]
    /\ End(i, "confirmed")
    /\ UNCHANGED <<day, granted, landedAt, processVars, chainVars>>

(* The answer is lost, with the transaction or without it.                 *)
SendLost(i) ==
    /\ cycles[i].pc = "send"
    /\ Reaches(i) \/ UNCHANGED txs
    /\ End(i, "notice")
    /\ UNCHANGED <<day, granted, landedAt, processVars, chainVars>>

(* A variant that takes an unknown transaction for a failed one.           *)
PollEndsImpatient(i, status) ==
    CASE status = "SUCCESS"                 -> End(i, "confirmed")
      [] status \in {"FAILED", "NOT_FOUND"} -> End(i, "failed")
      [] OTHER -> IF cycles[i].attempts + 1 < MaxAttempts
                  THEN cycles' = [cycles EXCEPT ![i].attempts = @ + 1]
                  ELSE End(i, "confirmed")

(* A variant whose counter starts over.                                    *)
PollEndsPatient(i, status) ==
    CASE status = "SUCCESS"   -> End(i, "confirmed")
      [] status = "FAILED"    -> End(i, "failed")
      [] status = "NOT_FOUND" -> End(i, "confirmed")
      [] OTHER -> cycles' = [cycles EXCEPT ![i].attempts = (@ + 1) % MaxAttempts]

(* The loop goes on only for PENDING; when it ends without an answer the   *)
(* hash is returned all the same.                                          *)
PollEnds(i, status) ==
    CASE status = "SUCCESS"   -> End(i, "confirmed")
      [] status = "FAILED"    -> End(i, "failed")
      [] status = "NOT_FOUND" -> End(i, "confirmed")
      [] OTHER -> IF cycles[i].attempts + 1 < MaxAttempts
                  THEN cycles' = [cycles EXCEPT ![i].attempts = @ + 1]
                  ELSE End(i, "confirmed")

PollAnswers(i) ==
    CASE txs[i].status = "success" -> {"SUCCESS"}
      [] txs[i].status = "failed"  -> {"FAILED"}
      [] OTHER                     -> {"PENDING", "NOT_FOUND"}

PollAnswered(i) ==
    /\ cycles[i].pc = "poll"
    /\ \E status \in PollAnswers(i) : PollEnds(i, status)
    /\ UNCHANGED <<day, txs, granted, landedAt, processVars, chainVars>>

PollFailed(i) ==
    /\ cycles[i].pc = "poll"
    /\ End(i, "notice")
    /\ UNCHANGED <<day, txs, granted, landedAt, processVars, chainVars>>

----
(* The cycle of the keeper: one run without an await after the order book. *)

KeeperRuns ==
    KeeperInputs \cup {[state |-> InitialState(total), metrics |-> NominalMetrics] :
                          total \in VaultTotals}

Emergency(risk) == risk.seal \/ risk.bunker

(* Only approved proposals reach the keeper's log, and nothing is sent.    *)
KeeperDecides(i, p, state) ==
    \E proposal \in {RebalanceProposal(i, state)} :
    \E evaluation \in {Evaluation(p, proposal, state)} :
        /\ Evaluate(p, proposal, state, evaluation)
        /\ IF evaluation.approved
           THEN LogDecision(p, proposal, evaluation, day) /\ End(i, "audited")
           ELSE UNCHANGED chain /\ End(i, "rejected")

RunKeeperCycle(i) ==
    LET p == cycles[i].proc IN
    /\ p \in Keepers
    /\ cycles[i].pc = "prices"
    /\ \E input \in KeeperRuns :
         LET state == input.state
             risk == EvaluateRisk(PeakAfter(peakValue[p], state.total), state.total,
                                  input.metrics)
         IN  /\ ~Emergency(risk) => KeeperFindsNothing
             /\ RaisePeak(p, state.total)
             /\ seen' = [seen EXCEPT ![p] = @ \cup {state.total}]
             /\ IF ~Emergency(risk) /\ WantsRebalance(state)
                THEN KeeperDecides(i, p, state)
                ELSE /\ End(i, "nothing")
                     /\ UNCHANGED <<granted, dailySpent, lastResetDay, chain>>
    /\ UNCHANGED <<day, txs, landedAt, chainVars>>

----
(* The network                                                             *)

StrategyMap ==
    [strat_blend_backstop_01    |-> BlendPool,
     strat_blend_xlm_01         |-> BlendPool,
     strat_blend_xlm_lending_01 |-> BlendPool,
     strat_phoenix_xlm_usdc_01  |-> PhoenixPool,
     strat_soroswap_xlm_usdc_01 |-> SoroswapPool]

(* An identifier the map lacks goes to the Blend pool.                     *)
TargetAddress(strategy) ==
    IF strategy \in DOMAIN StrategyMap THEN StrategyMap[strategy] ELSE BlendPool

(* A pending transaction is included only when its sequence number is the  *)
(* next one of the account.                                                *)
Includable(i) == txs[i].status = "pending" /\ txs[i].accountSeq = AccountSeq

(* allocate_to_strategy succeeds, as far as the policy account goes.       *)
Land(i) ==
    LET proposal == cycles[i].proposal IN
    /\ Includable(i)
    /\ VerifyAndRecordAction(AgentAccount, TargetAddress(proposal.strategy), proposal.amount)
    /\ txs' = [txs EXCEPT ![i].status = "success"]
    /\ landedAt' = [landedAt EXCEPT ![seq] = @ + proposal.amount]
    /\ UNCHANGED <<seq, day, cycles, granted, processVars>>

(* The call is refused: by the policy account, or by what the vault holds  *)
(* by then.                                                                *)
FailOnChain(i) ==
    /\ Includable(i)
    /\ txs' = [txs EXCEPT ![i].status = "failed"]
    /\ UNCHANGED <<day, cycles, granted, landedAt, processVars, chainVars>>

(* The time bound of 60 seconds passes, or the sequence number is taken.   *)
Expire(i) ==
    /\ txs[i].status = "pending"
    /\ txs' = [txs EXCEPT ![i].status = "expired"]
    /\ UNCHANGED <<day, cycles, granted, landedAt, processVars, chainVars>>

NextLedger ==
    /\ CloseLedger
    /\ UNCHANGED <<loopVars, policyVars>>

NextDay ==
    /\ day < MaxDay
    /\ day' = day + 1
    /\ UNCHANGED <<cycles, txs, granted, landedAt, processVars, chainVars>>

----

Init ==
    /\ LedgerInit
    /\ authorizedAgents = {AgentAccount}
    /\ allowedContracts = Strategies
    /\ maxTxAmount \in TxLimits
    /\ dailySpendLimit \in DailyLimits
    /\ spentToday = 0
    /\ lastResetLedger = seq
    /\ VerifierInit
    /\ chain = [p \in Processes |-> <<>>]
    /\ peakValue = [p \in Processes |-> 0]
    /\ seen = [p \in Processes |-> {}]
    /\ cycles = [i \in Slots |-> Unused]
    /\ txs = [i \in Slots |-> NoTx]
    /\ granted = {}
    /\ landedAt = [n \in 0..MaxLedger |-> 0]

(* What lets a waiting cycle go on.                                        *)
Answer(i) ==
    \/ PricesAnswered(i)
    \/ MarketAnswered(i)
    \/ AccountAnswered(i)
    \/ AccountFailed(i)
    \/ SendAccepted(i)
    \/ SendRefused(i)
    \/ SendDeferred(i)
    \/ SendLost(i)
    \/ PollAnswered(i)
    \/ PollFailed(i)
    \/ RunKeeperCycle(i)

Next ==
    \/ \E p \in Daemons, i \in Slots : StartDaemonCycle(p, i)
    \/ \E p \in Onces, i \in Slots : TriggerCycle(p, i)
    \/ \E p \in Keepers, i \in Slots : StartKeeperCycle(p, i)
    \/ \E p \in Processes : Restart(p)
    \/ \E i \in Slots : Answer(i)
    \/ \E i \in Slots : Land(i)
    \/ \E i \in Slots : FailOnChain(i)
    \/ \E i \in Slots : Expire(i)
    \/ NextLedger
    \/ NextDay

(* Every call to the network is answered or fails in the end, and the      *)
(* event loop runs what was waiting for it.                                *)
Fairness == \A i \in Slots : WF_vars(Answer(i))

Spec == Init /\ [][Next]_vars /\ Fairness

----
(* Properties                                                              *)

CountsToday(entry) == entry.day = day /\ Automatic(entry.evaluation)

AuditedToday(p) ==
    Total([n \in DOMAIN chain[p] |->
              IF CountsToday(chain[p][n]) THEN chain[p][n].proposal.amount ELSE 0])

(* A log is intact, and the total its verifier keeps of today is what it   *)
(* shows as approved automatically today, however cycles overlap and       *)
(* whenever midnight falls, and it is within the cap.                      *)
DailyTotalsMatchAudit ==
    \A p \in Processes :
        /\ VerifyChainIntegrity(chain[p])
        /\ SpentThisDay(p) = AuditedToday(p)
        /\ SpentThisDay(p) <= Rules[p].dailySpendCap

(* What lands was approved without a human, by the process that sent it    *)
(* and with the same amount and target.                                    *)
OnlyApprovedLands ==
    \A i \in Slots : txs[i].status = "success" =>
        \E grant \in granted : grant.proc = cycles[i].proc
                               /\ grant.proposal = cycles[i].proposal

(* A cycle that reports a failed or a refused transaction is never proved  *)
(* wrong by the chain.                                                     *)
FailuresAreFinal ==
    \A i \in Slots :
        /\ cycles[i].report = "failed" => txs[i].status = "failed"
        /\ cycles[i].report = "refused" => txs[i].status = "refused"

(* Whatever the senders overlap, what the policy account has counted is    *)
(* what landed since its window began.                                     *)
LandedSince(first) ==
    Total([n \in 0..MaxLedger |-> IF first <= n THEN landedAt[n] ELSE 0])

WindowCountsWhatLanded ==
    /\ spentToday = LandedSince(lastResetLedger)
    /\ spentToday <= dailySpendLimit

(* A keeper approves nothing while the assets it is shown lie the bunker   *)
(* drawdown or more below any value it was shown since it started.         *)
NoAllocationInDrawdown ==
    \A grant \in granted : grant.proc \in Keepers =>
        \A total \in grant.seen :
            (total - grant.state.total) * BpsScale < Thresholds.bunkerDrawdownBps * total

(* However a log goes on, by up to MoreEntries entries, every entry has a  *)
(* proof that verifies it against the root, at odd levels too, in the form *)
(* of either of the two engines.                                           *)
ProvesEveryLeaf(leaves) ==
    LET root == MerkleRoot(leaves) IN
    \A n \in DOMAIN leaves :
        /\ VerifyProof(leaves[n], GenerateProof(leaves, n - 1), root, n - 1)
        /\ VerifyInclusion(leaves[n], InclusionProof(leaves, n - 1), root)

AuditProofsVerify ==
    \A p \in Processes, more \in 0..MoreEntries :
        ProvesEveryLeaf(EntryHashes(chain[p]) \o [n \in 1..more |-> <<"later", n>>])

(* A cycle that was started ends: with a report, or with its process.      *)
EveryCycleEnds ==
    \A i \in Slots : (cycles[i].pc \in Waiting) ~> (cycles[i].pc = "done")
====
