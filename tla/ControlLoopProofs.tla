---- MODULE ControlLoopProofs ----
(***************************************************************************)
(* Proofs about ControlLoop, for any number of processes, cycles, polls,   *)
(* ledgers and days, any rules and any answers of the market.              *)
(***************************************************************************)
EXTENDS ControlLoop, ArithmeticProofs

----
(* Types                                                                   *)

Proposals ==
    [cycle : Nat, agent : {"none", "agent_execution_01"},
     strategy : TopStrategies \cup {"none"}, amount : Nat, maxSlippageBps : Nat]

CycleType ==
    [proc : Processes \cup {"none"}, pc : Waiting \cup {"unused", "done"},
     proposal : Proposals, accountSeq : Nat, attempts : Nat, report : Reports]

TxType ==
    [status : {"none", "pending", "refused", "success", "failed", "expired"}, accountSeq : Nat]

HasGrant(cycle) ==
    \E grant \in granted : grant.proc = cycle.proc /\ grant.proposal = cycle.proposal

(* What holds of a cycle and its transaction: before the send there is no  *)
(* transaction, from the decision on there is an approval, and a report of *)
(* a failure is made once, when the failure is final.                      *)
SlotInv(i) ==
    /\ cycles[i].pc # "unused" => cycles[i].proc \in Processes
    /\ cycles[i].pc \in {"unused", "prices", "market", "account", "send"} => txs[i].status = "none"
    /\ cycles[i].pc \in {"account", "send"} \/ txs[i].status # "none" => HasGrant(cycles[i])
    /\ cycles[i].report \in {"failed", "refused"} => cycles[i].pc = "done"
    /\ cycles[i].report = "failed" => txs[i].status = "failed"
    /\ cycles[i].report = "refused" => txs[i].status = "refused"

LoopInv ==
    /\ cycles \in [Slots -> CycleType]
    /\ txs \in [Slots -> TxType]
    /\ \A i \in Slots : SlotInv(i)

LEMMA LoopInitially == Init => LoopInv
<1> SUFFICES ASSUME Init PROVE LoopInv
  OBVIOUS
<1>1. Unused \in CycleType /\ NoTx \in TxType
  BY DEF Unused, NoProposal, NoTx, CycleType, TxType, Proposals, Reports
<1> QED
  BY <1>1 DEF Init, LoopInv, SlotInv, Unused, NoTx

(* A step that is about one slot is judged by what it makes of that slot.  *)
LEMMA OneSlot ==
  ASSUME LoopInv, NEW i \in Slots, granted \subseteq granted',
         NEW c \in CycleType, cycles' = [cycles EXCEPT ![i] = c],
         NEW t \in TxType, txs' = [txs EXCEPT ![i] = t],
         SlotInv(i)'
  PROVE  LoopInv'
<1>1. cycles' \in [Slots -> CycleType] /\ txs' \in [Slots -> TxType]
  BY DEF LoopInv
<1>2. ASSUME NEW k \in Slots, k # i
      PROVE  SlotInv(k)'
  BY <1>2 DEF LoopInv, SlotInv, HasGrant
<1> QED
  BY <1>1, <1>2 DEF LoopInv

(* The amount an agent recommends is a natural number.                     *)
LEMMA ProposalType ==
  ASSUME NEW i \in Slots, NEW p \in Processes, NEW strategy \in TopStrategies
  PROVE  Proposal(i, DaemonState[p], strategy) \in Proposals
<1> DEFINE total == DaemonState[p].total
           idle == DaemonState[p].idle
           reserve == (total * 15) \div 100
<1>1. total \in Nat /\ idle \in Nat /\ reserve \in Int
  BY ControlLoopAssumption
<1>2. RecommendedAllocation(DaemonState[p]) =
        IF idle <= reserve THEN 0 ELSE ((idle - reserve) * 25) \div 100
  BY DEF RecommendedAllocation
<1>3. RecommendedAllocation(DaemonState[p]) \in Nat
  <2> HIDE DEF total, idle, reserve
  <2> QED
    BY <1>1, <1>2
<1> QED
  BY <1>3, ControlLoopAssumption DEF Proposal, Proposals, Slots

LEMMA AccountSeqType == AccountSeq \in Nat
<1>1. IsFiniteSet(Slots)
  BY ControlLoopAssumption, FS_Interval DEF Slots
<1>2. Included \in SUBSET Slots
  BY DEF Included
<1>3. IsFiniteSet(Included)
  BY <1>1, <1>2, FS_Subset
<1> QED
  BY <1>3, FS_CardinalityType DEF AccountSeq

----
(* Steps                                                                   *)

(* The end of a cycle whose report is no failure, or a final one.          *)
LEMMA EndKeeps ==
  ASSUME LoopInv, NEW i \in Slots, granted \subseteq granted', NEW report \in Reports,
         cycles[i].pc # "unused", End(i, report), NEW t \in TxType, txs' = [txs EXCEPT ![i] = t],
         t.status # "none" => HasGrant(cycles[i]),
         report = "failed" => t.status = "failed",
         report = "refused" => t.status = "refused"
  PROVE  LoopInv'
<1> DEFINE c == [cycles[i] EXCEPT !.pc = "done", !.report = report, !.accountSeq = 0,
                                  !.attempts = 0]
<1>1. cycles' = [cycles EXCEPT ![i] = c] /\ cycles[i] \in CycleType
  BY DEF End, LoopInv
<1>2. /\ c \in CycleType
      /\ c.pc = "done" /\ c.report = report /\ c.proc = cycles[i].proc
      /\ c.proposal = cycles[i].proposal
  BY <1>1 DEF CycleType
<1> HIDE DEF c
<1>3. cycles'[i] = c /\ txs'[i] = t
  BY <1>1 DEF LoopInv
<1>4. SlotInv(i)'
  BY <1>2, <1>3 DEF LoopInv, SlotInv, HasGrant
<1> QED
  BY <1>1, <1>2, <1>4, OneSlot

LEMMA BeginKeeps ==
  ASSUME LoopInv, NEW i \in Slots, NEW p \in Processes, Begin(p, i, "prices"),
         UNCHANGED <<txs, granted>>
  PROVE  LoopInv'
<1> DEFINE c == [cycles[i] EXCEPT !.proc = p, !.pc = "prices"]
<1>1. cycles' = [cycles EXCEPT ![i] = c] /\ cycles[i] \in CycleType /\ cycles[i].pc = "unused"
  BY DEF Begin, LoopInv
<1>2. c \in CycleType /\ c.pc = "prices" /\ c.report = cycles[i].report /\ c.proc = p
  BY <1>1 DEF CycleType, Waiting
<1> HIDE DEF c
<1>3. cycles'[i] = c /\ txs' = [txs EXCEPT ![i] = txs[i]] /\ txs[i] \in TxType /\ SlotInv(i)
  BY <1>1 DEF LoopInv
<1>4. SlotInv(i)'
  BY <1>1, <1>2, <1>3 DEF SlotInv
<1> QED
  BY <1>1, <1>2, <1>3, <1>4, OneSlot

(* A cycle that goes on from one await to a later one, with its approval.  *)
LEMMA GoOnKeeps ==
  ASSUME LoopInv, NEW i \in Slots, UNCHANGED granted,
         NEW await \in {"market", "send", "poll"},
         NEW c \in CycleType, cycles' = [cycles EXCEPT ![i] = c],
         c.pc = await, c.proc = cycles[i].proc, c.proposal = cycles[i].proposal,
         c.report = cycles[i].report,
         NEW t \in TxType, txs' = [txs EXCEPT ![i] = t],
         t = txs[i] \/ (await = "poll" /\ t.status = "pending"),
         await = "market" => cycles[i].pc = "prices",
         await = "send" => cycles[i].pc = "account",
         await = "poll" => cycles[i].pc \in {"send", "poll"} /\ HasGrant(cycles[i])
  PROVE  LoopInv'
<1>1. cycles[i] \in CycleType /\ SlotInv(i)
  BY DEF LoopInv
<1>2. cycles'[i] = c /\ txs'[i] = t
  BY DEF LoopInv
<1>3. SlotInv(i)'
  BY <1>1, <1>2 DEF SlotInv, HasGrant
<1> QED
  BY <1>3, OneSlot

(* A pending transaction finds its end on the ledger.                      *)
LEMMA LedgerKeeps ==
  ASSUME LoopInv, NEW i \in Slots, UNCHANGED <<cycles, granted>>, txs[i].status = "pending",
         NEW status \in {"success", "failed", "expired"}, txs' = [txs EXCEPT ![i].status = status]
  PROVE  LoopInv'
<1> DEFINE t == [txs[i] EXCEPT !.status = status]
<1>1. txs' = [txs EXCEPT ![i] = t] /\ txs[i] \in TxType /\ cycles[i] \in CycleType /\ SlotInv(i)
  BY DEF LoopInv
<1>2. t \in TxType /\ t.status = status
  BY <1>1 DEF TxType
<1> HIDE DEF t
<1>3. cycles' = [cycles EXCEPT ![i] = cycles[i]] /\ cycles'[i] = cycles[i] /\ txs'[i] = t
  BY <1>1 DEF LoopInv
<1>4. SlotInv(i)'
  BY <1>1, <1>2, <1>3 DEF SlotInv, HasGrant
<1> QED
  BY <1>1, <1>2, <1>3, <1>4, OneSlot

(* After the decision a cycle goes on only with an approval of its own.    *)
LEMMA DecisionKeeps ==
  ASSUME LoopInv, NEW i \in Slots, MarketAnswered(i)
  PROVE  LoopInv'
<1> DEFINE p == cycles[i].proc
<1>1. PICK strategy \in TopStrategies :
        LET proposal == Proposal(i, DaemonState[p], strategy)
            evaluation == Evaluation(p, proposal, DaemonState[p])
        IN  IF proposal.amount = 0
            THEN End(i, "nothing") /\ UNCHANGED granted
            ELSE /\ Grant(p, proposal, DaemonState[p], evaluation)
                 /\ AfterDecision(i, proposal, evaluation)
  BY DEF MarketAnswered, Evaluate
<1> DEFINE proposal == Proposal(i, DaemonState[p], strategy)
           evaluation == Evaluation(p, proposal, DaemonState[p])
           c == [cycles[i] EXCEPT
                    !.proposal = proposal,
                    !.pc = IF Automatic(evaluation) THEN "account" ELSE "done",
                    !.report = IF Automatic(evaluation) THEN "none"
                               ELSE IF evaluation.approved THEN "human" ELSE "rejected"]
<1>2. /\ cycles[i] \in CycleType /\ txs[i] \in TxType /\ SlotInv(i)
      /\ cycles[i].pc = "market" /\ txs' = txs /\ txs[i].status = "none" /\ p \in Processes
  BY DEF MarketAnswered, LoopInv, SlotInv
<1>3. txs' = [txs EXCEPT ![i] = txs[i]] /\ txs'[i] = txs[i]
  BY <1>2 DEF LoopInv
<1>4. CASE End(i, "nothing") /\ UNCHANGED granted
  BY <1>2, <1>3, <1>4, EndKeeps DEF Reports
<1>5. CASE /\ Grant(p, proposal, DaemonState[p], evaluation)
           /\ AfterDecision(i, proposal, evaluation)
  <2>1. proposal \in Proposals
    BY <1>2, ProposalType
  <2>2. granted \subseteq granted'
    BY <1>5 DEF Grant
  <2>3. /\ cycles' = [cycles EXCEPT ![i] = c] /\ cycles'[i] = c
        /\ c.proc = p /\ c.proposal = proposal
        /\ c.pc = IF Automatic(evaluation) THEN "account" ELSE "done"
        /\ c.report \in {"none", "human", "rejected"}
    BY <1>2, <1>5 DEF AfterDecision, LoopInv, CycleType
  <2>4. c \in CycleType
    BY <1>2, <2>1, <2>3 DEF CycleType, Waiting, Reports
  <2>5. Automatic(evaluation) =>
          \E grant \in granted' : grant.proc = p /\ grant.proposal = proposal
    <3> DEFINE grant == [proc |-> p, proposal |-> proposal, state |-> DaemonState[p],
                         seen |-> seen'[p]]
    <3>1. Automatic(evaluation) => grant \in granted'
      BY <1>5 DEF Grant
    <3>2. grant.proc = p /\ grant.proposal = proposal
      OBVIOUS
    <3> HIDE DEF grant
    <3> QED
      BY <3>1, <3>2
  <2> HIDE DEF c, proposal, evaluation
  <2>6. SlotInv(i)'
    BY <1>2, <1>3, <2>3, <2>5 DEF SlotInv, HasGrant
  <2> QED
    BY <1>2, <1>3, <2>2, <2>3, <2>4, <2>6, OneSlot
<1> QED
  BY <1>1, <1>4, <1>5

(* What a step makes of the cycles and their transactions.                 *)
LEMMA LoopSteps ==
  ASSUME LoopInv, [Next]_vars
  PROVE  LoopInv'
<1>1. ASSUME NEW p \in Processes, NEW i \in Slots, Begin(p, i, "prices"),
             UNCHANGED <<txs, granted>>
      PROVE  LoopInv'
  BY <1>1, BeginKeeps
<1>2. ASSUME NEW p \in Processes, Restart(p)
      PROVE  LoopInv'
  <2>1. ASSUME NEW i \in Slots
        PROVE  cycles'[i] \in CycleType /\ SlotInv(i)'
    <3>1. cycles[i] \in CycleType /\ SlotInv(i) /\ txs' = txs /\ granted' = granted
      BY <1>2 DEF LoopInv, Restart
    <3>2. CASE cycles'[i] = cycles[i]
      BY <3>1, <3>2 DEF SlotInv, HasGrant
    <3> DEFINE c == [cycles[i] EXCEPT !.pc = "done", !.report = "lost",
                                      !.accountSeq = 0, !.attempts = 0]
    <3>3. CASE cycles[i].pc \in Waiting /\ cycles'[i] = c
      <4>1. /\ c \in CycleType /\ c.pc = "done" /\ c.report = "lost"
            /\ c.proc = cycles[i].proc /\ c.proposal = cycles[i].proposal
        BY <3>1 DEF CycleType, Reports
      <4> HIDE DEF c
      <4> QED
        BY <3>1, <3>3, <4>1 DEF SlotInv, HasGrant, Waiting
    <3> QED
      BY <1>2, <3>2, <3>3 DEF Restart, CyclesOf
  <2>2. cycles' = [i \in Slots |-> cycles'[i]]
    BY <1>2 DEF Restart
  <2>3. cycles' \in [Slots -> CycleType]
    BY <2>1, <2>2
  <2> QED
    BY <1>2, <2>1, <2>3 DEF LoopInv, Restart
<1>3. ASSUME NEW i \in Slots, Answer(i)
      PROVE  LoopInv'
  <2>1. /\ cycles[i] \in CycleType /\ txs[i] \in TxType /\ SlotInv(i)
        /\ txs' = txs => txs' = [txs EXCEPT ![i] = txs[i]]
    BY DEF LoopInv
  <2>2. CASE PricesAnswered(i)
    <3> DEFINE c == [cycles[i] EXCEPT !.pc = "market"]
    <3>1. /\ c \in CycleType /\ c.pc = "market" /\ c.proc = cycles[i].proc
          /\ c.proposal = cycles[i].proposal /\ c.report = cycles[i].report
      BY <2>1 DEF CycleType, Waiting
    <3>2. cycles' = [cycles EXCEPT ![i] = c]
      BY <2>2 DEF PricesAnswered, GoOn
    <3> HIDE DEF c
    <3> QED
      BY <2>1, <2>2, <3>1, <3>2, GoOnKeeps DEF PricesAnswered
  <2>3. CASE MarketAnswered(i)
    BY <2>3, DecisionKeeps
  <2>4. CASE AccountAnswered(i)
    <3> DEFINE c == [cycles[i] EXCEPT !.pc = "send", !.accountSeq = AccountSeq]
    <3>1. /\ c \in CycleType /\ c.pc = "send" /\ c.proc = cycles[i].proc
          /\ c.proposal = cycles[i].proposal /\ c.report = cycles[i].report
      BY <2>1, AccountSeqType DEF CycleType, Waiting
    <3>2. cycles' = [cycles EXCEPT ![i] = c]
      BY <2>4 DEF AccountAnswered
    <3> HIDE DEF c
    <3> QED
      BY <2>1, <2>4, <3>1, <3>2, GoOnKeeps DEF AccountAnswered
  <2>5. CASE AccountFailed(i) \/ PollFailed(i)
    BY <2>1, <2>5, EndKeeps DEF AccountFailed, PollFailed, SlotInv, Reports
  <2>6. CASE SendAccepted(i)
    <3> DEFINE t == [status |-> "pending", accountSeq |-> cycles[i].accountSeq]
    <3>1. t \in TxType
      BY <2>1 DEF TxType, CycleType
    <3> DEFINE c == [cycles[i] EXCEPT !.pc = "poll"]
    <3>2. /\ c \in CycleType /\ c.pc = "poll" /\ c.proc = cycles[i].proc
          /\ c.proposal = cycles[i].proposal /\ c.report = cycles[i].report
      BY <2>1 DEF CycleType, Waiting
    <3>3. cycles' = [cycles EXCEPT ![i] = c] /\ txs' = [txs EXCEPT ![i] = t] /\ t.status = "pending"
      BY <2>6 DEF SendAccepted, GoOn, Reaches
    <3> HIDE DEF c, t
    <3> QED
      BY <2>1, <2>6, <3>1, <3>2, <3>3, GoOnKeeps DEF SendAccepted, SlotInv
  <2>7. CASE SendRefused(i) \/ SendDeferred(i)
    <3> DEFINE t == [txs[i] EXCEPT !.status = "refused"]
    <3>1. t \in TxType /\ t.status = "refused" /\ txs' = [txs EXCEPT ![i] = t]
      BY <2>1, <2>7 DEF TxType, SendRefused, SendDeferred
    <3> HIDE DEF t
    <3> QED
      BY <2>1, <2>7, <3>1, EndKeeps DEF SendRefused, SendDeferred, SlotInv, Reports
  <2>8. CASE SendLost(i)
    <3> DEFINE t == [status |-> "pending", accountSeq |-> cycles[i].accountSeq]
    <3>1. t \in TxType
      BY <2>1 DEF TxType, CycleType
    <3> QED
      BY <2>1, <2>8, <3>1, EndKeeps DEF SendLost, Reaches, SlotInv, Reports
  <2>9. CASE PollAnswered(i)
    <3>1. PICK status \in PollAnswers(i) : PollEnds(i, status)
      BY <2>9 DEF PollAnswered
    <3>2. \/ End(i, "confirmed")
          \/ End(i, "failed") /\ txs[i].status = "failed"
          \/ cycles' = [cycles EXCEPT ![i].attempts = @ + 1]
      BY <3>1 DEF PollEnds, PollAnswers
    <3>3. CASE End(i, "confirmed") \/ (End(i, "failed") /\ txs[i].status = "failed")
      BY <2>1, <2>9, <3>3, EndKeeps DEF PollAnswered, SlotInv, Reports
    <3>4. CASE cycles' = [cycles EXCEPT ![i].attempts = @ + 1]
      <4> DEFINE c == [cycles[i] EXCEPT !.attempts = @ + 1]
      <4>1. /\ c \in CycleType /\ c.pc = cycles[i].pc /\ c.proc = cycles[i].proc
            /\ c.proposal = cycles[i].proposal /\ c.report = cycles[i].report
        BY <2>1 DEF CycleType
      <4>2. cycles' = [cycles EXCEPT ![i] = c]
        BY <3>4
      <4> HIDE DEF c
      <4>3. SlotInv(i)'
        <5>1. cycles'[i] = c /\ txs'[i] = txs[i] /\ granted' = granted
          BY <2>9, <4>2 DEF PollAnswered, LoopInv
        <5> QED
          BY <2>1, <4>1, <5>1 DEF SlotInv, HasGrant
      <4> QED
        BY <2>1, <2>9, <4>1, <4>2, <4>3, OneSlot DEF PollAnswered
    <3> QED
      BY <3>2, <3>3, <3>4
  <2>10. CASE RunKeeperCycle(i)
    <3>1. granted \subseteq granted' /\ txs' = txs /\ cycles[i].pc = "prices"
      BY <2>10 DEF RunKeeperCycle, KeeperDecides, Evaluate, Grant
    <3>2. End(i, "audited") \/ End(i, "rejected") \/ End(i, "nothing")
      BY <2>10 DEF RunKeeperCycle, KeeperDecides
    <3> QED
      BY <2>1, <3>1, <3>2, EndKeeps DEF SlotInv, Reports
  <2> QED
    BY <1>3, <2>2, <2>3, <2>4, <2>5, <2>6, <2>7, <2>8, <2>9, <2>10 DEF Answer
<1>4. ASSUME NEW i \in Slots, Land(i) \/ FailOnChain(i) \/ Expire(i)
      PROVE  LoopInv'
  BY <1>4, LedgerKeeps DEF Land, FailOnChain, Expire, Includable
<1>5. CASE NextLedger \/ NextDay \/ UNCHANGED vars
  BY <1>5 DEF NextLedger, NextDay, vars, loopVars, LoopInv, SlotInv, HasGrant
<1>6. ASSUME NEW p \in Processes, NEW i \in Slots,
             StartDaemonCycle(p, i) \/ TriggerCycle(p, i) \/ StartKeeperCycle(p, i)
      PROVE  LoopInv'
  BY <1>1, <1>6 DEF StartDaemonCycle, TriggerCycle, StartKeeperCycle
<1> QED
  BY <1>2, <1>3, <1>4, <1>5, <1>6, ControlLoopAssumption DEF Next

(* What lands was approved without a human, by the process that sent it    *)
(* and with the amount and target it was approved with, whatever cycles    *)
(* overlap, answers get lost and processes die.                            *)
THEOREM WhatLandsWasApproved == Spec => []OnlyApprovedLands
<1>1. LoopInv /\ [Next]_vars => LoopInv'
  BY LoopSteps
<1>2. LoopInv => OnlyApprovedLands
  BY DEF LoopInv, SlotInv, HasGrant, OnlyApprovedLands
<1> QED
  BY LoopInitially, <1>1, <1>2, PTL DEF Spec

(* A transaction that a cycle reports as failed or refused never lands.    *)
THEOREM ReportedFailuresAreFinal == Spec => []FailuresAreFinal
<1>1. LoopInv /\ [Next]_vars => LoopInv'
  BY LoopSteps
<1>2. LoopInv => FailuresAreFinal
  BY DEF LoopInv, SlotInv, FailuresAreFinal
<1> QED
  BY LoopInitially, <1>1, <1>2, PTL DEF Spec

----
(* The spending window                                                     *)

LedgersSince(first) == [n \in 0..MaxLedger |-> IF first <= n THEN landedAt[n] ELSE 0]

(* Nothing landed in a ledger that is still to come, or that lies past the *)
(* window: the first that lands there begins the next one.                 *)
WindowInv ==
    /\ seq \in 0..MaxLedger
    /\ lastResetLedger \in 0..seq
    /\ dailySpendLimit \in Nat
    /\ landedAt \in [0..MaxLedger -> Nat]
    /\ \A n \in 0..MaxLedger :
         n > seq \/ n >= lastResetLedger + DAY_IN_LEDGERS => landedAt[n] = 0
    /\ WindowCountsWhatLanded

LEMMA LedgersFinite == IsFiniteSet(0..MaxLedger)
  BY MaxLedgerAssumption, FS_Interval

LEMMA WindowInitially == Init => WindowInv
<1> SUFFICES ASSUME Init PROVE WindowInv
  OBVIOUS
<1>1. /\ seq = 0 /\ lastResetLedger = 0 /\ spentToday = 0 /\ dailySpendLimit \in Nat
      /\ landedAt = [n \in 0..MaxLedger |-> 0]
  BY ControlLoopAssumption DEF Init, LedgerInit
<1>2. /\ LedgersSince(0) \in [0..MaxLedger -> Nat]
      /\ \A n \in 0..MaxLedger : LedgersSince(0)[n] = 0
  BY <1>1 DEF LedgersSince
<1>3. Total(LedgersSince(0)) = 0
  BY <1>2, TotalZero
<1> QED
  BY <1>1, <1>3, MaxLedgerAssumption
  DEF WindowInv, WindowCountsWhatLanded, LandedSince, LedgersSince

LEMMA LandKeepsWindow ==
  ASSUME WindowInv, NEW amount \in Nat, NEW agent, NEW target,
         VerifyAndRecordAction(agent, target, amount),
         landedAt' = [landedAt EXCEPT ![seq] = @ + amount], seq' = seq
  PROVE  WindowInv'
<1>1. /\ seq \in 0..MaxLedger /\ MaxLedger \in Nat /\ DAY_IN_LEDGERS \in Nat \ {0}
      /\ landedAt \in [0..MaxLedger -> Nat] /\ landedAt[seq] + amount \in Nat
      /\ lastResetLedger \in 0..seq
  BY MaxLedgerAssumption, DayAssumption DEF WindowInv
<1>2. landedAt' \in [0..MaxLedger -> Nat]
  BY <1>1
<1>3. /\ dailySpendLimit' = dailySpendLimit
      /\ spentToday' = SpentInWindow + amount /\ spentToday' <= dailySpendLimit
  BY DEF VerifyAndRecordAction
<1>4. CASE ~WindowElapsed
  (* The window goes on, and seq lies in it. *)
  <2> DEFINE f == LedgersSince(lastResetLedger)
  <2>1. lastResetLedger' = lastResetLedger /\ SpentInWindow = spentToday
    BY <1>4 DEF VerifyAndRecordAction, SpentInWindow
  <2>2. f \in [0..MaxLedger -> Nat] /\ f[seq] = landedAt[seq]
    BY <1>1 DEF LedgersSince
  <2>3. LedgersSince(lastResetLedger)' = [f EXCEPT ![seq] = landedAt[seq] + amount]
    <3> DEFINE h == [n \in 0..MaxLedger |-> IF lastResetLedger' <= n THEN landedAt'[n] ELSE 0]
               g == [f EXCEPT ![seq] = landedAt[seq] + amount]
    <3>1. ASSUME NEW n \in 0..MaxLedger
          PROVE  h[n] = g[n]
      <4>1. landedAt'[n] = IF n = seq THEN landedAt[seq] + amount ELSE landedAt[n]
        BY <1>1
      <4>2. g[n] = IF n = seq THEN landedAt[seq] + amount ELSE f[n]
        BY <2>2
      <4>3. h[n] = IF lastResetLedger <= n THEN landedAt'[n] ELSE 0
        BY <2>1
      <4>4. f[n] = IF lastResetLedger <= n THEN landedAt[n] ELSE 0
        BY DEF LedgersSince
      <4> HIDE DEF f, g, h
      <4> QED
        BY <1>1, <4>1, <4>2, <4>3, <4>4
    <3>2. h \in [0..MaxLedger -> Nat]
      BY <1>1, <1>2, <2>1
    <3>3. g \in [0..MaxLedger -> Nat]
      BY <1>1, <2>2
    <3>4. LedgersSince(lastResetLedger)' = h
      BY DEF LedgersSince
    <3> HIDE DEF g, h
    <3>5. h = g
      BY <1>1, <3>1, <3>2, <3>3
    <3> QED
      BY <3>4, <3>5 DEF g
  <2>4. Total(LedgersSince(lastResetLedger)') = Total(f) - f[seq] + (landedAt[seq] + amount)
    <3> DEFINE v == landedAt[seq] + amount
    <3>1. v \in Nat
      BY <1>1
    <3> HIDE DEF f, v
    <3>2. Total([f EXCEPT ![seq] = v]) = Total(f) - f[seq] + v
      BY <1>1, <2>2, <3>1, LedgersFinite, TotalUpdate
    <3> QED
      BY <2>3, <3>2 DEF v
  <2>5. Total(f) = spentToday /\ Total(f) \in Nat
    BY <2>2, LedgersFinite, TotalBounds
    DEF WindowInv, WindowCountsWhatLanded, LandedSince, LedgersSince
  <2>6. spentToday' = Total(LedgersSince(lastResetLedger)')
    <3> HIDE DEF f
    <3> QED
      BY <1>1, <1>3, <2>1, <2>2, <2>4, <2>5
  <2>7. \A n \in 0..MaxLedger :
          n > seq \/ n >= lastResetLedger + DAY_IN_LEDGERS => landedAt'[n] = 0
    BY <1>1, <1>4 DEF WindowElapsed, WindowInv
  <2> QED
    BY <1>1, <1>2, <1>3, <2>1, <2>6, <2>7
    DEF WindowInv, WindowCountsWhatLanded, LandedSince, LedgersSince
<1>5. CASE WindowElapsed
  (* The next window begins with this amount. *)
  <2> DEFINE zero == [n \in 0..MaxLedger |-> 0]
  <2>1. lastResetLedger' = seq /\ spentToday' = amount
    BY <1>3, <1>5 DEF VerifyAndRecordAction, SpentInWindow
  <2>2. \A n \in 0..MaxLedger : n >= seq => landedAt[n] = 0
    BY <1>1, <1>5 DEF WindowElapsed, WindowInv
  <2>3. LedgersSince(lastResetLedger)' = [zero EXCEPT ![seq] = amount]
    <3> DEFINE h == [n \in 0..MaxLedger |-> IF lastResetLedger' <= n THEN landedAt'[n] ELSE 0]
               g == [zero EXCEPT ![seq] = amount]
    <3>1. ASSUME NEW n \in 0..MaxLedger
          PROVE  h[n] = g[n]
      <4>1. landedAt'[n] = IF n = seq THEN landedAt[seq] + amount ELSE landedAt[n]
        BY <1>1
      <4>2. g[n] = IF n = seq THEN amount ELSE 0
        OBVIOUS
      <4>3. h[n] = IF seq <= n THEN landedAt'[n] ELSE 0
        BY <2>1
      <4> HIDE DEF g, h
      <4> QED
        BY <1>1, <2>2, <4>1, <4>2, <4>3
    <3>2. h \in [0..MaxLedger -> Nat]
      BY <1>1, <1>2, <2>1
    <3>3. g \in [0..MaxLedger -> Nat]
      BY <1>1
    <3>4. LedgersSince(lastResetLedger)' = h
      BY DEF LedgersSince
    <3> HIDE DEF g, h
    <3>5. h = g
      BY <1>1, <3>1, <3>2, <3>3
    <3> QED
      BY <3>4, <3>5 DEF g
  <2>4. /\ Total(zero) = 0
        /\ Total([zero EXCEPT ![seq] = amount]) = Total(zero) - zero[seq] + amount
    <3>1. zero \in [0..MaxLedger -> Nat] /\ \A n \in 0..MaxLedger : zero[n] = 0
      OBVIOUS
    <3> HIDE DEF zero
    <3> QED
      BY <1>1, <3>1, LedgersFinite, TotalZero, TotalUpdate
  <2>5. spentToday' = Total(LedgersSince(lastResetLedger)')
    BY <1>1, <2>1, <2>3, <2>4
  <2>6. \A n \in 0..MaxLedger :
          n > seq \/ n >= lastResetLedger' + DAY_IN_LEDGERS => landedAt'[n] = 0
    BY <1>1, <2>1, <2>2
  <2> QED
    BY <1>1, <1>2, <1>3, <2>1, <2>5, <2>6
    DEF WindowInv, WindowCountsWhatLanded, LandedSince, LedgersSince
<1> QED
  BY <1>4, <1>5

LEMMA WindowSteps ==
  ASSUME LoopInv, WindowInv, [Next]_vars
  PROVE  WindowInv'
<1> USE DEF WindowInv, WindowCountsWhatLanded, LandedSince
<1>1. ASSUME UNCHANGED <<landedAt, chainVars>>
      PROVE  WindowInv'
  BY <1>1 DEF chainVars, policyVars
<1>2. ASSUME NEW i \in Slots, Land(i)
      PROVE  WindowInv'
  <2>1. cycles[i].proposal.amount \in Nat
    BY DEF LoopInv, CycleType, Proposals
  <2> QED
    BY <1>2, <2>1, LandKeepsWindow DEF Land
<1>3. CASE NextLedger
  BY <1>3, MaxLedgerAssumption DEF NextLedger, CloseLedger, loopVars, policyVars
<1>4. ASSUME NEW i \in Slots, Answer(i)
      PROVE  WindowInv'
  BY <1>1, <1>4
  DEF Answer, PricesAnswered, MarketAnswered, AccountAnswered, AccountFailed, SendAccepted,
      SendRefused, SendDeferred, SendLost, PollAnswered, PollFailed, RunKeeperCycle
<1>5. ASSUME NEW p \in Processes, NEW i \in Slots,
             \/ StartDaemonCycle(p, i) \/ TriggerCycle(p, i) \/ StartKeeperCycle(p, i)
             \/ Restart(p) \/ FailOnChain(i) \/ Expire(i) \/ NextDay
      PROVE  WindowInv'
  BY <1>1, <1>5 DEF StartDaemonCycle, TriggerCycle, StartKeeperCycle, Restart, FailOnChain, Expire,
                    NextDay
<1>6. CASE UNCHANGED vars
  BY <1>1, <1>6 DEF vars, loopVars
<1> QED
  BY <1>1, <1>2, <1>3, <1>4, <1>5, <1>6, ControlLoopAssumption
  DEF Next, StartDaemonCycle, TriggerCycle, StartKeeperCycle, Restart, FailOnChain, Expire, NextDay

(* The policy account has counted exactly what landed since its window     *)
(* began, and that is within the daily limit, whatever the senders do.     *)
THEOREM TheWindowCountsWhatLands == Spec => []WindowCountsWhatLanded
<1>1. LoopInv /\ WindowInv /\ [Next]_vars => (LoopInv /\ WindowInv)'
  BY LoopSteps, WindowSteps
<1>2. WindowInv => WindowCountsWhatLanded
  BY DEF WindowInv
<1> QED
  BY LoopInitially, WindowInitially, <1>1, <1>2, PTL DEF Spec

----
(* Drawdowns                                                               *)

LEMMA MaxOfTwo ==
  ASSUME NEW a \in Int, NEW b \in Int
  PROVE  Max({a, b}) \in {a, b} /\ Max({a, b}) >= a /\ Max({a, b}) >= b
<1>1. \E x \in {a, b} : \A y \in {a, b} : x >= y
  <2>1. CASE a >= b
    BY <2>1
  <2>2. CASE b > a
    BY <2>2
  <2> QED
    BY <2>1, <2>2
<1>2. Max({a, b}) \in {a, b} /\ \A y \in {a, b} : Max({a, b}) >= y
  BY <1>1, Zenon DEF Max
<1> QED
  BY <1>2

(* A drawdown from the peak that rounds to less than a bound is less than  *)
(* it, and so is the one from any lower value.                             *)
LEMMA BelowThePeak ==
  ASSUME NEW peak \in Nat, NEW total \in Nat \ {0}, NEW value \in Nat, value <= peak,
         NEW bound \in Nat, DrawdownBps(peak, total) < bound
  PROVE  (value - total) * BpsScale < bound * value
<1> USE DEF BpsScale
<1>1. CASE total >= peak
  <2>1. bound > 0 /\ value <= total
    BY <1>1 DEF DrawdownBps
  <2>2. CASE value = 0
    BY <2>2
  <2>3. CASE value > 0
    <3>1. bound * value > 0
      BY <2>1, <2>3, Z3
    <3>2. (value - total) * 10000 <= 0
      BY <2>1
    <3> QED
      BY <3>1, <3>2
  <2> QED
    BY <2>2, <2>3
<1>2. CASE total < peak
  <2> DEFINE loss == (peak - total) * 10000
             quotient == loss \div peak
  <2>1. loss \in Nat /\ peak \in Nat \ {0} /\ quotient < bound
    BY <1>2 DEF DrawdownBps
  <2> HIDE DEF loss
  <2>2. quotient \in Nat /\ loss < (quotient + 1) * peak
    BY <2>1, DivFloor
  <2> HIDE DEF quotient
  <2>3. (quotient + 1) * peak <= bound * peak
    BY <2>1, <2>2, Z3
  <2>4. loss < bound * peak
    <3> DEFINE x == (quotient + 1) * peak
               y == bound * peak
    <3>1. x \in Int /\ y \in Int /\ loss < x /\ x <= y
      BY <2>1, <2>2, <2>3
    <3> HIDE DEF x, y
    <3>2. loss < y
      BY <2>1, <3>1
    <3> QED
      BY <3>2 DEF y
  <2>5. (peak - total) * 10000 < bound * peak
    BY <2>4 DEF loss
  <2>6. CASE bound >= 10000
    <3>1. bound * value >= 10000 * value
      BY <2>6, Z3
    <3> QED
      BY <3>1
  <2>7. CASE bound < 10000
    <3>1. (10000 - bound) * value <= (10000 - bound) * peak
      BY <2>7, Z3
    <3>2. /\ (10000 - bound) * value = 10000 * value - bound * value
          /\ (10000 - bound) * peak = 10000 * peak - bound * peak
      BY Z3
    <3> DEFINE x == bound * value
               y == bound * peak
    <3>3. x \in Int /\ y \in Int
      OBVIOUS
    <3>4. 10000 * value - x <= 10000 * peak - y /\ (peak - total) * 10000 < y
      BY <2>5, <3>1, <3>2
    <3> HIDE DEF x, y
    <3>5. (value - total) * 10000 < x
      BY <3>3, <3>4
    <3> QED
      BY <3>5 DEF x
  <2> QED
    BY <2>6, <2>7
<1> QED
  BY <1>1, <1>2

(* The peak of a process is above all it was shown, and no keeper runs the *)
(* daemon's cycle.                                                         *)
PeakInv ==
    /\ peakValue \in [Processes -> Nat]
    /\ seen \in [Processes -> SUBSET Nat]
    /\ \A p \in Processes : \A total \in seen[p] : total <= peakValue[p]
    /\ \A i \in Slots : cycles[i].pc = "market" => cycles[i].proc \notin Keepers
    /\ NoAllocationInDrawdown

LEMMA PeakInitially == Init => PeakInv
BY DEF Init, PeakInv, NoAllocationInDrawdown, Unused

(* A process is shown a value, and its peak follows.                       *)
LEMMA ShownKeeps ==
  ASSUME PeakInv, NEW p \in Processes, NEW total \in Nat,
         RaisePeak(p, total), seen' = [seen EXCEPT ![p] = @ \cup {total}]
  PROVE  /\ peakValue' \in [Processes -> Nat]
         /\ peakValue'[p] = PeakAfter(peakValue[p], total)
         /\ seen' \in [Processes -> SUBSET Nat]
         /\ \A q \in Processes : \A value \in seen'[q] : value <= peakValue'[q]
<1> DEFINE peak == PeakAfter(peakValue[p], total)
<1>1. peak \in Nat /\ peak >= peakValue[p] /\ peak >= total
  <2>1. peakValue[p] \in Nat /\ peakValue[p] \in Int /\ total \in Int
    BY DEF PeakInv
  <2>2. peak \in {peakValue[p], total} /\ peak >= peakValue[p] /\ peak >= total
    BY <2>1, MaxOfTwo, Zenon DEF PeakAfter
  <2> HIDE DEF peak
  <2> QED
    BY <2>1, <2>2
<1>2. peakValue' = [peakValue EXCEPT ![p] = peak]
  BY DEF RaisePeak
<1> HIDE DEF peak
<1>3. peakValue' \in [Processes -> Nat] /\ peakValue'[p] = peak
  BY <1>1, <1>2 DEF PeakInv
<1>4. seen' \in [Processes -> SUBSET Nat] /\ seen'[p] = seen[p] \cup {total}
  BY DEF PeakInv
<1>5. ASSUME NEW q \in Processes, NEW value \in seen'[q]
      PROVE  value <= peakValue'[q]
  <2>1. CASE q # p
    BY <1>2, <1>5, <2>1 DEF PeakInv
  <2>2. CASE q = p
    <3>1. value = total \/ value \in seen[p]
      BY <1>4, <1>5, <2>2
    <3>2. value \in seen[p] => value \in Nat /\ value <= peakValue[p] /\ peakValue[p] \in Nat
      BY DEF PeakInv
    <3> QED
      BY <1>1, <1>3, <2>2, <3>1, <3>2
  <2> QED
    BY <2>1, <2>2
<1> QED
  BY <1>3, <1>4, <1>5 DEF peak

NoneEnters ==
    \A k \in Slots : cycles'[k].pc = "market" =>
        cycles[k].pc = "market" /\ cycles'[k].proc = cycles[k].proc

(* A step of one cycle that does not enter the market.                     *)
LEMMA OneEntersNot ==
  ASSUME LoopInv, NEW i \in Slots, NEW c, cycles' = [cycles EXCEPT ![i] = c],
         c.pc # "market"
  PROVE  NoneEnters
BY DEF LoopInv, NoneEnters

LEMMA EndEntersNot ==
  ASSUME LoopInv, NEW i \in Slots, NEW report, End(i, report)
  PROVE  NoneEnters
<1> DEFINE c == [cycles[i] EXCEPT !.pc = "done", !.report = report, !.accountSeq = 0,
                                  !.attempts = 0]
<1>1. cycles' = [cycles EXCEPT ![i] = c] /\ cycles[i] \in CycleType
  BY DEF End, LoopInv
<1>2. c.pc = "done"
  BY <1>1 DEF CycleType
<1> HIDE DEF c
<1> QED
  BY <1>1, <1>2, OneEntersNot

(* What a keeper is handed.                                                *)
LEMMA KeeperRunsType ==
  ASSUME NEW input \in KeeperRuns
  PROVE  input.state.total \in Nat /\ input.metrics.drawdownBps \in Nat
<1>1. CASE input \in KeeperInputs
  BY <1>1, KeeperInputAssumption
<1>2. ASSUME NEW total \in VaultTotals,
             input = [state |-> InitialState(total), metrics |-> NominalMetrics]
      PROVE  input.state.total \in Nat /\ input.metrics.drawdownBps \in Nat
  <2>1. input.state.total = total /\ input.metrics.drawdownBps = 240
    BY <1>2 DEF InitialState, NominalMetrics
  <2> QED
    BY <2>1, KeeperInputAssumption
<1> QED
  BY <1>1, <1>2 DEF KeeperRuns

(* When no breaker trips, the drawdown from the peak is below the bunker's.*)
LEMMA NoEmergency ==
  ASSUME NEW peak \in Nat, NEW total \in Nat, NEW metrics, metrics.drawdownBps \in Nat,
         ~Emergency(EvaluateRisk(peak, total, metrics))
  PROVE  DrawdownBps(peak, total) < Thresholds.bunkerDrawdownBps
<1> DEFINE fall == DrawdownBps(peak, total)
           drawdown == Max({metrics.drawdownBps, fall})
<1>1. fall \in Int
  BY DEF DrawdownBps, BpsScale
<1>2. ~(drawdown >= Thresholds.bunkerDrawdownBps)
  BY Zenon DEF Emergency, EvaluateRisk
<1> HIDE DEF fall
<1>3. drawdown \in {metrics.drawdownBps, fall} /\ drawdown >= fall
  <2>1. metrics.drawdownBps \in Int
    OBVIOUS
  <2> QED
    BY <1>1, <2>1, MaxOfTwo, Zenon
<1> HIDE DEF drawdown
<1>4. fall < Thresholds.bunkerDrawdownBps
  BY <1>1, <1>2, <1>3, KeeperInputAssumption
<1> QED
  BY <1>4 DEF fall

LEMMA KeeperKeepsPeak ==
  ASSUME LoopInv, PeakInv, NEW i \in Slots, RunKeeperCycle(i)
  PROVE  PeakInv'
<1> DEFINE p == cycles[i].proc
<1>1. /\ p \in Processes /\ p \in Keepers /\ cycles[i].pc = "prices"
  BY ControlLoopAssumption DEF RunKeeperCycle
<1>2. PICK input \in KeeperRuns :
        LET state == input.state
            risk == EvaluateRisk(PeakAfter(peakValue[p], state.total), state.total,
                                 input.metrics)
        IN  /\ RaisePeak(p, state.total)
            /\ seen' = [seen EXCEPT ![p] = @ \cup {state.total}]
            /\ IF ~Emergency(risk) /\ WantsRebalance(state)
               THEN KeeperDecides(i, p, state)
               ELSE UNCHANGED granted
  BY Zenon DEF RunKeeperCycle
<1> DEFINE state == input.state
           peak == PeakAfter(peakValue[p], state.total)
           risk == EvaluateRisk(peak, state.total, input.metrics)
<1>3. state.total \in Nat /\ input.metrics.drawdownBps \in Nat
  BY KeeperRunsType
<1>4. /\ peakValue' \in [Processes -> Nat] /\ peakValue'[p] = peak
      /\ seen' \in [Processes -> SUBSET Nat]
      /\ \A q \in Processes : \A value \in seen'[q] : value <= peakValue'[q]
  BY <1>1, <1>2, <1>3, ShownKeeps
<1>5. \A k \in Slots : cycles'[k].pc = "market" => cycles'[k].proc \notin Keepers
  <2>1. \E report : End(i, report)
    BY DEF RunKeeperCycle, KeeperDecides
  <2> QED
    BY <2>1, EndEntersNot DEF NoneEnters, PeakInv
<1>6. ASSUME NEW grant \in granted', grant \notin granted
      PROVE  /\ ~Emergency(risk) /\ state.total > 0
             /\ grant.state = state /\ grant.seen = seen'[p]
  <2>1. ~Emergency(risk) /\ WantsRebalance(state) /\ KeeperDecides(i, p, state)
    BY <1>2, <1>6
  <2>2. PICK proposal, evaluation : Grant(p, proposal, state, evaluation)
    BY <2>1 DEF KeeperDecides, Evaluate
  <2>3. grant = [proc |-> p, proposal |-> proposal, state |-> state, seen |-> seen'[p]]
    BY <1>6, <2>2 DEF Grant
  <2> QED
    BY <2>1, <2>3 DEF WantsRebalance
<1>7. ASSUME NEW grant \in granted', grant.proc \in Keepers, NEW value \in grant.seen
      PROVE  (value - grant.state.total) * BpsScale < Thresholds.bunkerDrawdownBps * value
  <2>1. CASE grant \in granted
    BY <1>7, <2>1 DEF PeakInv, NoAllocationInDrawdown
  <2>2. CASE grant \notin granted
    <3>1. /\ ~Emergency(risk) /\ state.total > 0
          /\ grant.state = state /\ grant.seen = seen'[p]
      BY <1>6, <2>2
    <3>2. value \in Nat /\ value <= peak /\ peak \in Nat
      BY <1>1, <1>4, <1>7, <3>1
    <3>3. DrawdownBps(peak, state.total) < Thresholds.bunkerDrawdownBps
      BY <1>3, <3>1, <3>2, NoEmergency
    <3>4. state.total \in Nat \ {0} /\ Thresholds.bunkerDrawdownBps \in Nat
      BY <1>3, <3>1, KeeperInputAssumption
    <3> HIDE DEF state, peak
    <3>5. (value - state.total) * BpsScale < Thresholds.bunkerDrawdownBps * value
      BY <3>2, <3>3, <3>4, BelowThePeak
    <3> QED
      BY <3>1, <3>5
  <2> QED
    BY <2>1, <2>2
<1> QED
  BY <1>4, <1>5, <1>7, Zenon DEF PeakInv, NoAllocationInDrawdown

LEMMA PeakSteps ==
  ASSUME LoopInv, PeakInv, [Next]_vars
  PROVE  PeakInv'
<1>1. ASSUME UNCHANGED <<peakValue, seen, granted>>,
             NoneEnters
      PROVE  PeakInv'
  BY <1>1 DEF PeakInv, NoAllocationInDrawdown, NoneEnters
<1>2. ASSUME NEW p \in Processes, NEW i \in Slots, Begin(p, i, "prices")
      PROVE  NoneEnters
  BY <1>2 DEF Begin, LoopInv, CycleType, NoneEnters
<1>3. ASSUME NEW p \in Processes, StartProcess(p), UNCHANGED granted,
             NoneEnters
      PROVE  PeakInv'
  <2>1. /\ peakValue' = [peakValue EXCEPT ![p] = 0]
        /\ seen' = [seen EXCEPT ![p] = {}]
    BY <1>3 DEF StartProcess, NewRiskEngine
  <2> QED
    BY <1>3, <2>1 DEF PeakInv, NoAllocationInDrawdown, NoneEnters
<1>4. ASSUME NEW p \in Processes, Restart(p)
      PROVE  PeakInv'
  <2>1. ASSUME NEW i \in Slots
        PROVE  cycles'[i] = cycles[i] \/ cycles'[i].pc = "done"
    <3>1. cycles[i] \in CycleType
      BY DEF LoopInv
    <3> DEFINE c == [cycles[i] EXCEPT !.pc = "done", !.report = "lost",
                                      !.accountSeq = 0, !.attempts = 0]
    <3>2. c.pc = "done"
      BY <3>1 DEF CycleType
    <3>3. cycles'[i] = cycles[i] \/ cycles'[i] = c
      BY <1>4, Zenon DEF Restart
    <3> HIDE DEF c
    <3> QED
      BY <3>2, <3>3
  <2>2. NoneEnters
    BY <2>1 DEF NoneEnters
  <2>3. StartProcess(p) /\ UNCHANGED granted
    BY <1>4, Zenon DEF Restart
  <2> QED
    BY <1>3, <2>2, <2>3
<1>5. ASSUME NEW p \in Processes, NEW i \in Slots,
             StartDaemonCycle(p, i) \/ TriggerCycle(p, i) \/ StartKeeperCycle(p, i)
      PROVE  PeakInv'
  BY <1>1, <1>2, <1>3, <1>5
  DEF StartDaemonCycle, TriggerCycle, StartKeeperCycle, processVars
<1>6. ASSUME NEW i \in Slots, PricesAnswered(i)
      PROVE  PeakInv'
  <2> DEFINE p == cycles[i].proc
  <2>1. p \in Processes /\ p \notin Keepers /\ DaemonState[p].total \in Nat
    BY <1>6, ControlLoopAssumption DEF PricesAnswered, LoopInv, SlotInv
  <2>2. /\ RaisePeak(p, DaemonState[p].total)
        /\ seen' = [seen EXCEPT ![p] = @ \cup {DaemonState[p].total}]
        /\ GoOn(i, "market") /\ UNCHANGED granted
    BY <1>6 DEF PricesAnswered
  <2>3. \A k \in Slots : cycles'[k].pc = "market" => cycles'[k].proc \notin Keepers
    BY <2>1, <2>2 DEF GoOn, LoopInv, CycleType, PeakInv
  <2> QED
    BY <2>1, <2>2, <2>3, ShownKeeps DEF PeakInv, NoAllocationInDrawdown
<1>7. ASSUME NEW i \in Slots, MarketAnswered(i)
      PROVE  PeakInv'
  <2> DEFINE p == cycles[i].proc
  <2>1. p \notin Keepers /\ UNCHANGED <<peakValue, seen>>
    BY <1>7 DEF MarketAnswered, PeakInv
  <2>2. \A grant \in granted' : grant \in granted \/ grant.proc = p
    BY <1>7 DEF MarketAnswered, Evaluate, Grant
  <2>3. NoneEnters
    <3>1. \/ End(i, "nothing")
          \/ \E proposal, evaluation : AfterDecision(i, proposal, evaluation)
      BY <1>7 DEF MarketAnswered
    <3>2. ASSUME NEW proposal, NEW evaluation, AfterDecision(i, proposal, evaluation)
          PROVE  NoneEnters
      <4> DEFINE c == [cycles[i] EXCEPT
                          !.proposal = proposal,
                          !.pc = IF Automatic(evaluation) THEN "account" ELSE "done",
                          !.report = IF Automatic(evaluation) THEN "none"
                                     ELSE IF evaluation.approved THEN "human" ELSE "rejected"]
      <4>1. cycles' = [cycles EXCEPT ![i] = c] /\ cycles[i] \in CycleType
        BY <3>2 DEF AfterDecision, LoopInv
      <4>2. c.pc # "market"
        BY <4>1 DEF CycleType
      <4> HIDE DEF c
      <4> QED
        BY <4>1, <4>2, OneEntersNot
    <3> QED
      BY <3>1, <3>2, EndEntersNot
  <2> QED
    BY <2>1, <2>2, <2>3 DEF PeakInv, NoAllocationInDrawdown, NoneEnters
<1>8. ASSUME NEW i \in Slots,
             \/ AccountAnswered(i) \/ AccountFailed(i) \/ SendAccepted(i) \/ SendRefused(i)
             \/ SendDeferred(i) \/ SendLost(i) \/ PollAnswered(i) \/ PollFailed(i)
      PROVE  PeakInv'
  <2>1. UNCHANGED <<peakValue, seen, granted>>
    BY <1>8 DEF AccountAnswered, AccountFailed, SendAccepted, SendRefused, SendDeferred, SendLost,
                PollAnswered, PollFailed, processVars
  <2>2. \/ \E report : End(i, report)
        \/ cycles[i].pc = "poll" /\ cycles' = [cycles EXCEPT ![i].attempts = @ + 1]
        \/ GoOn(i, "poll")
        \/ cycles' = [cycles EXCEPT ![i].pc = "send", ![i].accountSeq = AccountSeq]
    BY <1>8 DEF AccountAnswered, AccountFailed, SendAccepted, SendRefused, SendDeferred, SendLost,
                PollAnswered, PollFailed, PollEnds
  <2>3. NoneEnters
    <3>1. cycles[i] \in CycleType
      BY DEF LoopInv
    <3>2. CASE cycles[i].pc = "poll" /\ cycles' = [cycles EXCEPT ![i].attempts = @ + 1]
      <4> DEFINE c == [cycles[i] EXCEPT !.attempts = @ + 1]
      <4>1. c.pc # "market"
        BY <3>1, <3>2 DEF CycleType
      <4> QED
        BY <3>2, <4>1, OneEntersNot
    <3>3. CASE GoOn(i, "poll")
      <4> DEFINE c == [cycles[i] EXCEPT !.pc = "poll"]
      <4>1. c.pc # "market"
        BY <3>1 DEF CycleType
      <4>2. cycles' = [cycles EXCEPT ![i] = c]
        BY <3>3 DEF GoOn
      <4> QED
        BY <4>1, <4>2, OneEntersNot
    <3>4. CASE cycles' = [cycles EXCEPT ![i].pc = "send", ![i].accountSeq = AccountSeq]
      <4> DEFINE c == [cycles[i] EXCEPT !.pc = "send", !.accountSeq = AccountSeq]
      <4>1. c.pc # "market"
        BY <3>1 DEF CycleType
      <4>2. cycles' = [cycles EXCEPT ![i] = c]
        BY <3>4 DEF LoopInv
      <4> HIDE DEF c
      <4> QED
        BY <4>1, <4>2, OneEntersNot
    <3> QED
      BY <2>2, <3>2, <3>3, <3>4, EndEntersNot
  <2> QED
    BY <1>1, <2>1, <2>3
<1>9. ASSUME NEW i \in Slots,
             Land(i) \/ FailOnChain(i) \/ Expire(i)
      PROVE  PeakInv'
  <2>1. UNCHANGED <<cycles, peakValue, seen, granted>>
    BY <1>9 DEF Land, FailOnChain, Expire, processVars
  <2> QED
    BY <1>1, <2>1 DEF NoneEnters
<1>10. CASE NextLedger \/ NextDay \/ UNCHANGED vars
  <2>1. UNCHANGED <<cycles, peakValue, seen, granted>>
    BY <1>10 DEF NextLedger, NextDay, loopVars, processVars, vars
  <2> QED
    BY <1>1, <2>1 DEF NoneEnters
<1> QED
  BY <1>4, <1>5, <1>6, <1>7, <1>8, <1>9, <1>10, KeeperKeepsPeak, ControlLoopAssumption
  DEF Next, Answer

(* A keeper approves nothing while what it is shown lies the bunker        *)
(* drawdown or more below anything it was shown since it started, whatever *)
(* is handed to it, in whatever order, and however often it restarts.      *)
THEOREM NothingIsApprovedInDrawdown == Spec => []NoAllocationInDrawdown
<1>1. LoopInv /\ PeakInv /\ [Next]_vars => (LoopInv /\ PeakInv)'
  BY LoopSteps, PeakSteps
<1>2. PeakInv => NoAllocationInDrawdown
  BY DEF PeakInv
<1> QED
  BY LoopInitially, PeakInitially, <1>1, <1>2, PTL DEF Spec

----
(* The day's total and the audit log                                       *)

IsList(entries) == \E S : entries \in Seq(S)

(* The logs, and what a verifier remembers: no day lies in the future.     *)
AuditType ==
    /\ day \in Nat
    /\ dailySpent \in [Processes -> Nat]
    /\ lastResetDay \in [Processes -> Nat]
    /\ DOMAIN chain = Processes
    /\ \A p \in Processes :
         /\ lastResetDay[p] <= day
         /\ IsList(chain[p])
         /\ \A n \in DOMAIN chain[p] :
              /\ chain[p][n].day \in Nat /\ chain[p][n].day <= day
              /\ chain[p][n].proposal.amount \in Nat

AuditInv == AuditType /\ DailyTotalsMatchAudit

(* What each entry of a log adds to the total of the day.                  *)
CountedToday(p) ==
    [n \in DOMAIN chain[p] |->
        IF CountsToday(chain[p][n]) THEN chain[p][n].proposal.amount ELSE 0]

LEMMA CountedType ==
  ASSUME AuditType, NEW p \in Processes
  PROVE  /\ DOMAIN chain[p] = 1..Len(chain[p]) /\ Len(chain[p]) \in Nat
         /\ IsFiniteSet(DOMAIN chain[p])
         /\ CountedToday(p) \in [DOMAIN chain[p] -> Nat]
         /\ AuditedToday(p) = Total(CountedToday(p))
         /\ SpentThisDay(p) \in Nat
<1>1. PICK S : chain[p] \in Seq(S)
  BY DEF AuditType, IsList
<1>2. DOMAIN chain[p] = 1..Len(chain[p]) /\ Len(chain[p]) \in Nat
  BY <1>1
<1>3. IsFiniteSet(DOMAIN chain[p])
  BY <1>2, FS_Interval
<1>4. CountedToday(p) \in [DOMAIN chain[p] -> Nat]
  BY DEF AuditType, CountedToday
<1>5. AuditedToday(p) = Total(CountedToday(p))
  BY DEF AuditedToday, CountedToday
<1>6. SpentThisDay(p) \in Nat
  BY DEF SpentThisDay, AuditType
<1> QED
  BY <1>2, <1>3, <1>4, <1>5, <1>6

EmptyLogsCountNothing ==
  \A p \in Processes :
      chain[p] = <<>> => VerifyChainIntegrity(chain[p]) /\ AuditedToday(p) = 0

LEMMA EmptyLog == EmptyLogsCountNothing
<1> SUFFICES ASSUME NEW p \in Processes, chain[p] = <<>>
             PROVE  VerifyChainIntegrity(chain[p]) /\ AuditedToday(p) = 0
  BY DEF EmptyLogsCountNothing
<1> DEFINE counted == CountedToday(p)
<1>1. DOMAIN chain[p] = {}
  OBVIOUS
<1>2. counted \in [{} -> Nat]
  BY <1>1 DEF CountedToday
<1>3. AuditedToday(p) = Total(counted)
  BY DEF AuditedToday, CountedToday
<1> HIDE DEF counted
<1>4. Total(counted) = 0
  BY <1>2, TotalZero
<1> QED
  BY <1>1, <1>3, <1>4 DEF VerifyChainIntegrity

LEMMA AuditInitially == Init => AuditInv
<1> SUFFICES ASSUME Init PROVE AuditInv
  OBVIOUS
<1>1. /\ day = 0 /\ dailySpent = [p \in Processes |-> 0]
      /\ lastResetDay = [p \in Processes |-> 0] /\ chain = [p \in Processes |-> <<>>]
  BY DEF Init, VerifierInit
<1>2. ASSUME NEW p \in Processes
      PROVE  chain[p] = <<>> /\ IsList(chain[p]) /\ DOMAIN chain[p] = {} /\ SpentThisDay(p) = 0
  <2>1. chain[p] = <<>> /\ SpentThisDay(p) = 0
    BY <1>1 DEF SpentThisDay
  <2>2. <<>> \in Seq({}) /\ DOMAIN <<>> = {}
    OBVIOUS
  <2> QED
    BY <2>1, <2>2 DEF IsList
<1>3. AuditType
  BY <1>1, <1>2 DEF AuditType
<1>4. ASSUME NEW p \in Processes
      PROVE  /\ VerifyChainIntegrity(chain[p]) /\ SpentThisDay(p) = AuditedToday(p)
             /\ SpentThisDay(p) <= Rules[p].dailySpendCap
  <2>1. chain[p] = <<>> /\ SpentThisDay(p) = 0
    BY <1>2
  <2>2. VerifyChainIntegrity(chain[p]) /\ AuditedToday(p) = 0
    BY <2>1, EmptyLog DEF EmptyLogsCountNothing
  <2> QED
    BY <2>1, <2>2, RulesAssumption
<1> QED
  BY <1>3, <1>4 DEF AuditInv, DailyTotalsMatchAudit

(* An entry that is logged on the day it was decided.                      *)
LEMMA LogGoesOn ==
  ASSUME AuditInv, NEW p \in Processes, NEW proposal, proposal.amount \in Nat, NEW evaluation,
         LogDecision(p, proposal, evaluation, day), UNCHANGED day
  PROVE  /\ DOMAIN chain' = Processes /\ \A q \in Processes \ {p} : chain'[q] = chain[q]
         /\ IsList(chain'[p])
         /\ \A n \in DOMAIN chain'[p] :
              /\ chain'[p][n].day \in Nat /\ chain'[p][n].day <= day
              /\ chain'[p][n].proposal.amount \in Nat
         /\ VerifyChainIntegrity(chain'[p])
         /\ AuditedToday(p)' =
              AuditedToday(p) + IF Automatic(evaluation) THEN proposal.amount ELSE 0
<1> DEFINE log == chain[p]
           previous == LastHash(log)
           entry == [day |-> day, previousHash |-> previous, proposal |-> proposal,
                     evaluation |-> evaluation,
                     entryHash |-> EntryHash(previous, proposal, evaluation)]
           longer == Append(log, entry)
           counted == CountedToday(p)
           recounted == [n \in DOMAIN longer |->
                            IF longer[n].day = day /\ Automatic(longer[n].evaluation)
                            THEN longer[n].proposal.amount ELSE 0]
<1>1. AuditType /\ VerifyChainIntegrity(log)
  BY DEF AuditInv, DailyTotalsMatchAudit
<1>2. chain' = [chain EXCEPT ![p] = longer]
  BY DEF LogDecision
<1>3. /\ DOMAIN chain' = Processes /\ \A q \in Processes \ {p} : chain'[q] = chain[q]
      /\ chain'[p] = longer
  BY <1>1, <1>2 DEF AuditType
<1>4. /\ entry.day = day /\ entry.previousHash = previous /\ entry.proposal = proposal
      /\ entry.evaluation = evaluation
  OBVIOUS
<1>5. /\ DOMAIN log = 1..Len(log) /\ Len(log) \in Nat /\ IsFiniteSet(DOMAIN log)
      /\ counted \in [DOMAIN log -> Nat] /\ AuditedToday(p) = Total(counted)
  BY <1>1, CountedType
<1>6. previous = IF log = <<>> THEN Genesis ELSE log[Len(log)].entryHash
  BY DEF LastHash
<1>7. PICK S : log \in Seq(S)
  BY <1>1 DEF AuditType, IsList
<1>8. AuditedToday(p)' = Total(recounted)
  BY <1>3 DEF AuditedToday, CountsToday
<1> HIDE DEF entry, previous
<1>9. longer \in Seq(S \cup {entry})
  <2>1. log \in Seq(S \cup {entry}) /\ entry \in S \cup {entry}
    BY <1>5, <1>7
  <2> QED
    BY <2>1
<1>10. /\ Len(longer) = Len(log) + 1 /\ DOMAIN longer = 1..(Len(log) + 1)
       /\ \A n \in DOMAIN log : longer[n] = log[n]
       /\ longer[Len(log) + 1] = entry
  BY <1>5, <1>7, <1>9
<1>11. IsList(longer)
  BY <1>9 DEF IsList
<1> HIDE DEF longer
<1>12. ASSUME NEW n \in DOMAIN longer
       PROVE  longer[n] = entry \/ (n \in DOMAIN log /\ longer[n] = log[n])
  BY <1>5, <1>10
<1>13. ASSUME NEW n \in DOMAIN longer
       PROVE  /\ longer[n].day \in Nat /\ longer[n].day <= day
              /\ longer[n].proposal.amount \in Nat
  BY <1>1, <1>4, <1>12 DEF AuditType
<1>14. VerifyChainIntegrity(longer)
  <2>1. ASSUME NEW n \in DOMAIN log
        PROVE  longer[n].previousHash = IF n = 1 THEN Genesis ELSE longer[n - 1].entryHash
    <3>1. log[n].previousHash = IF n = 1 THEN Genesis ELSE log[n - 1].entryHash
      BY <1>1 DEF VerifyChainIntegrity
    <3>2. n # 1 => n - 1 \in DOMAIN log
      BY <1>5
    <3> QED
      BY <1>10, <3>1, <3>2
  <2>2. entry.previousHash =
          IF Len(log) + 1 = 1 THEN Genesis ELSE longer[Len(log)].entryHash
    <3>1. Len(log) + 1 = 1 <=> log = <<>>
      BY <1>5, <1>7
    <3>2. Len(log) + 1 # 1 => Len(log) \in DOMAIN log
      BY <1>5
    <3> QED
      BY <1>4, <1>6, <1>10, <3>1, <3>2
  <2>3. (Len(log) + 1) - 1 = Len(log)
    BY <1>5
  <2> QED
    BY <1>5, <1>10, <2>1, <2>2, <2>3 DEF VerifyChainIntegrity
<1>15. Total(recounted) = Total(counted) + recounted[Len(log) + 1]
  <2>1. DOMAIN longer = DOMAIN log \cup {Len(log) + 1} /\ Len(log) + 1 \notin DOMAIN log
    BY <1>5, <1>10
  <2>2. recounted \in [DOMAIN log \cup {Len(log) + 1} -> Nat]
    BY <1>13, <2>1
  <2>3. \A n \in DOMAIN log : recounted[n] = counted[n]
    BY <1>10, <2>1 DEF CountedToday, CountsToday
  <2> DEFINE D == DOMAIN log
             x == Len(log) + 1
  <2>4. /\ IsFiniteSet(D) /\ x \notin D /\ counted \in [D -> Nat]
        /\ recounted \in [D \cup {x} -> Nat] /\ \A n \in D : recounted[n] = counted[n]
    BY <1>5, <2>1, <2>2, <2>3
  <2> HIDE DEF recounted, counted, D, x
  <2>5. Total(recounted) = Total(counted) + recounted[x]
    BY <2>4, TotalExtend
  <2> QED
    BY <2>5 DEF x
<1>16. recounted[Len(log) + 1] = IF Automatic(evaluation) THEN proposal.amount ELSE 0
  <2>1. Len(log) + 1 \in DOMAIN longer
    BY <1>5, <1>10
  <2> QED
    BY <1>4, <1>10, <2>1
<1> HIDE DEF recounted, counted
<1> QED
  BY <1>3, <1>5, <1>8, <1>11, <1>13, <1>14, <1>15, <1>16

(* What an evaluation makes of the verifier: it keeps to the cap.          *)
LEMMA VerifierCounts ==
  ASSUME AuditType, NEW p \in Processes, NEW proposal, proposal.amount \in Nat, NEW state,
         CountAutomatic(p, proposal, Evaluation(p, proposal, state)), UNCHANGED day,
         SpentThisDay(p) <= Rules[p].dailySpendCap
  PROVE  LET counts == Automatic(Evaluation(p, proposal, state)) IN
         /\ dailySpent' \in [Processes -> Nat] /\ lastResetDay' \in [Processes -> Nat]
         /\ lastResetDay'[p] = day
         /\ \A q \in Processes \ {p} :
              lastResetDay'[q] = lastResetDay[q] /\ SpentThisDay(q)' = SpentThisDay(q)
         /\ SpentThisDay(p)' = SpentThisDay(p) + IF counts THEN proposal.amount ELSE 0
         /\ SpentThisDay(p)' <= Rules[p].dailySpendCap
<1> DEFINE counts == Automatic(Evaluation(p, proposal, state))
           total == SpentThisDay(p) + IF counts THEN proposal.amount ELSE 0
<1>1. SpentThisDay(p) \in Nat /\ day \in Nat
  BY CountedType DEF AuditType
<1>2. total \in Nat
  BY <1>1
<1>3. total <= Rules[p].dailySpendCap
  <2>1. counts => SpentThisDay(p) + proposal.amount <= Rules[p].dailySpendCap
    BY DEF Automatic, Evaluation, Approved
  <2> HIDE DEF counts
  <2> QED
    BY <1>1, <2>1
<1>4. /\ dailySpent' = [dailySpent EXCEPT ![p] = total]
      /\ lastResetDay' = [lastResetDay EXCEPT ![p] = day]
  BY DEF CountAutomatic
<1> HIDE DEF total
<1>5. /\ dailySpent' \in [Processes -> Nat] /\ lastResetDay' \in [Processes -> Nat]
      /\ dailySpent'[p] = total /\ lastResetDay'[p] = day
      /\ \A q \in Processes \ {p} :
           lastResetDay'[q] = lastResetDay[q] /\ dailySpent'[q] = dailySpent[q]
  BY <1>1, <1>2, <1>4 DEF AuditType
<1>6. SpentThisDay(p)' = total
  BY <1>1, <1>5 DEF SpentThisDay
<1>7. \A q \in Processes \ {p} : SpentThisDay(q)' = SpentThisDay(q)
  BY <1>5 DEF SpentThisDay
<1> QED
  BY <1>3, <1>5, <1>6, <1>7 DEF total

(* A decision: counted, and logged unless it is the keeper's refusal.      *)
LEMMA DecisionKeepsAudit ==
  ASSUME AuditInv, NEW p \in Processes, NEW proposal, proposal.amount \in Nat, NEW state,
         CountAutomatic(p, proposal, Evaluation(p, proposal, state)), UNCHANGED day,
         \/ LogDecision(p, proposal, Evaluation(p, proposal, state), day)
         \/ ~Evaluation(p, proposal, state).approved /\ UNCHANGED chain
  PROVE  AuditInv'
<1> DEFINE evaluation == Evaluation(p, proposal, state)
           addition == IF Automatic(evaluation) THEN proposal.amount ELSE 0
<1>1. AuditType /\ DailyTotalsMatchAudit
  BY DEF AuditInv
<1>2. /\ dailySpent' \in [Processes -> Nat] /\ lastResetDay' \in [Processes -> Nat]
      /\ lastResetDay'[p] = day
      /\ \A q \in Processes \ {p} :
           lastResetDay'[q] = lastResetDay[q] /\ SpentThisDay(q)' = SpentThisDay(q)
      /\ SpentThisDay(p)' = SpentThisDay(p) + addition
      /\ SpentThisDay(p)' <= Rules[p].dailySpendCap
  BY <1>1, VerifierCounts DEF DailyTotalsMatchAudit
<1>3. /\ DOMAIN chain' = Processes /\ \A q \in Processes \ {p} : chain'[q] = chain[q]
      /\ IsList(chain'[p])
      /\ \A n \in DOMAIN chain'[p] :
           /\ chain'[p][n].day \in Nat /\ chain'[p][n].day <= day
           /\ chain'[p][n].proposal.amount \in Nat
      /\ VerifyChainIntegrity(chain'[p])
      /\ AuditedToday(p)' = AuditedToday(p) + addition
  <2>1. CASE LogDecision(p, proposal, evaluation, day)
    BY <2>1, LogGoesOn
  <2>2. CASE ~evaluation.approved /\ UNCHANGED chain
    <3>1. ~Automatic(evaluation)
      BY <2>2 DEF Automatic
    <3> HIDE DEF evaluation
    <3>2. addition = 0
      BY <3>1
    <3>3. AuditedToday(p)' = AuditedToday(p) /\ AuditedToday(p) \in Nat
      <4>1. AuditedToday(p) \in Nat
        BY <1>1, CountedType DEF DailyTotalsMatchAudit
      <4>2. AuditedToday(p)' = AuditedToday(p)
        BY <2>2 DEF AuditedToday, CountsToday
      <4> QED
        BY <4>1, <4>2
    <3> QED
      BY <1>1, <2>2, <3>2, <3>3 DEF AuditType, DailyTotalsMatchAudit
  <2> QED
    BY <2>1, <2>2
<1> HIDE DEF addition
<1>4. AuditType'
  <2>1. day' = day /\ day \in Nat
    BY <1>1 DEF AuditType
  <2>2. ASSUME NEW q \in Processes
        PROVE  /\ lastResetDay'[q] <= day
               /\ IsList(chain'[q])
               /\ \A n \in DOMAIN chain'[q] :
                    /\ chain'[q][n].day \in Nat /\ chain'[q][n].day <= day
                    /\ chain'[q][n].proposal.amount \in Nat
    <3>1. CASE q = p
      BY <1>2, <1>3, <2>1, <3>1
    <3>2. CASE q # p
      BY <1>1, <1>2, <1>3, <3>2 DEF AuditType
    <3> QED
      BY <3>1, <3>2
  <2> QED
    BY <1>2, <1>3, <2>1, <2>2 DEF AuditType
<1>5. ASSUME NEW q \in Processes
      PROVE  /\ VerifyChainIntegrity(chain'[q])
             /\ SpentThisDay(q)' = AuditedToday(q)'
             /\ SpentThisDay(q)' <= Rules[q].dailySpendCap
  <2>1. CASE q = p
    BY <1>1, <1>2, <1>3, <2>1 DEF DailyTotalsMatchAudit
  <2>2. CASE q # p
    <3>1. AuditedToday(q)' = AuditedToday(q)
      BY <1>3, <2>2 DEF AuditedToday, CountsToday
    <3> QED
      BY <1>1, <1>2, <1>3, <2>2, <3>1 DEF DailyTotalsMatchAudit
  <2> QED
    BY <2>1, <2>2
<1> QED
  BY <1>4, <1>5 DEF AuditInv, DailyTotalsMatchAudit

(* What a keeper wants to move is a natural number: of the drifts, which   *)
(* are integers, one is the first largest.                                 *)
LEMMA RebalanceType ==
  ASSUME NEW state, state.total \in Nat, state.idle \in Nat,
         \A s \in DOMAIN state.allocated : state.allocated[s] \in Nat,
         WantsRebalance(state)
  PROVE  RebalanceAmount(state) \in Nat
<1> DEFINE drifts == [n \in DOMAIN KeeperTargets |-> DriftBps(state, KeeperTargets[n])]
           best == LargestDrift(state)
           drift == DriftBps(state, KeeperTargets[best])
           half == (state.total * drift) \div 20000
           free == Allocatable(state)
<1>1. state.total \in Nat \ {0} /\ KeeperTargets # <<>> /\ RebalanceAmount(state) > 0
  BY DEF WantsRebalance
<1>2. PICK strategies :
        /\ strategies = {KeeperTargets[n].strategy : n \in DOMAIN KeeperTargets}
        /\ KeeperTargets \in Seq([strategy : strategies, bps : Nat])
  BY KeeperAssumption
<1>3. /\ DOMAIN KeeperTargets = 1..Len(KeeperTargets) /\ Len(KeeperTargets) \in Nat \ {0}
      /\ \A n \in DOMAIN KeeperTargets : KeeperTargets[n].bps \in Nat
  <2>1. DOMAIN KeeperTargets = 1..Len(KeeperTargets) /\ Len(KeeperTargets) \in Nat
    BY <1>2
  <2>2. Len(KeeperTargets) # 0
    BY <1>1, <1>2
  <2>3. \A n \in DOMAIN KeeperTargets : KeeperTargets[n] \in [strategy : strategies, bps : Nat]
    <3> DEFINE Targets == [strategy : strategies, bps : Nat]
    <3>1. KeeperTargets \in Seq(Targets)
      BY <1>2
    <3> HIDE DEF Targets
    <3>2. \A n \in DOMAIN KeeperTargets : KeeperTargets[n] \in Targets
      BY <2>1, <3>1
    <3> QED
      BY <3>2 DEF Targets
  <2> QED
    BY <2>1, <2>2, <2>3
<1>4. ASSUME NEW n \in DOMAIN KeeperTargets
      PROVE  DriftBps(state, KeeperTargets[n]) \in Int
  <2>1. Held(state, KeeperTargets[n].strategy) \in Nat
    BY DEF Held
  <2> HIDE DEF drift
  <2> QED
    BY <1>1, <1>3, <2>1 DEF DriftBps
<1>5. drifts \in [1..Len(KeeperTargets) -> Int]
  BY <1>3, <1>4
<1>6. \E n \in DOMAIN KeeperTargets :
        /\ \A m \in DOMAIN KeeperTargets : drifts[m] <= drifts[n]
        /\ \A m \in 1..(n - 1) : drifts[m] < drifts[n]
  <2> HIDE DEF drifts
  <2> QED
    BY <1>3, <1>5, FirstLargest
<1>7. \E n \in DOMAIN KeeperTargets :
        /\ \A m \in DOMAIN KeeperTargets :
             DriftBps(state, KeeperTargets[m]) <= DriftBps(state, KeeperTargets[n])
        /\ \A m \in 1..(n - 1) :
             DriftBps(state, KeeperTargets[m]) < DriftBps(state, KeeperTargets[n])
  <2>1. PICK n \in DOMAIN KeeperTargets :
          /\ \A m \in DOMAIN KeeperTargets : drifts[m] <= drifts[n]
          /\ \A m \in 1..(n - 1) : drifts[m] < drifts[n]
    BY <1>6
  <2>2. \A m \in 1..(n - 1) : m \in DOMAIN KeeperTargets
    BY <1>3
  <2>3. \A m \in DOMAIN KeeperTargets : drifts[m] = DriftBps(state, KeeperTargets[m])
    OBVIOUS
  <2> HIDE DEF drifts
  <2>4. /\ \A m \in DOMAIN KeeperTargets :
             DriftBps(state, KeeperTargets[m]) <= DriftBps(state, KeeperTargets[n])
        /\ \A m \in 1..(n - 1) :
             DriftBps(state, KeeperTargets[m]) < DriftBps(state, KeeperTargets[n])
    BY <2>1, <2>2, <2>3
  <2> QED
    BY <2>4
<1>8. best \in DOMAIN KeeperTargets
  BY <1>7 DEF LargestDrift
<1>9. drift \in Int
  BY <1>4, <1>8
<1>10. free \in Nat
  BY KeeperAssumption DEF Allocatable, ReserveFloor
<1>11. RebalanceAmount(state) =
         IF drift < RebalanceThresholdBps THEN 0 ELSE IF half > free THEN free ELSE half
  BY DEF RebalanceAmount
<1> HIDE DEF drift, free
<1>12. half \in Int
  BY <1>1, <1>9
<1> HIDE DEF half
<1> QED
  BY <1>1, <1>10, <1>11, <1>12

LEMMA InitialStateType ==
  ASSUME NEW total \in Nat
  PROVE  /\ InitialState(total).total = total /\ InitialState(total).idle \in Nat
         /\ \A s \in DOMAIN InitialState(total).allocated :
              InitialState(total).allocated[s] \in Nat
<1>1. /\ InitialState(total).total = total
      /\ InitialState(total).idle = (total * 2280) \div 10000
      /\ InitialState(total).allocated =
           [s \in DOMAIN InitialBps |-> (total * InitialBps[s]) \div 10000]
  BY DEF InitialState
<1>2. ASSUME NEW s \in DOMAIN InitialBps
      PROVE  (total * InitialBps[s]) \div 10000 \in Nat
  <2> DEFINE share == total * InitialBps[s]
  <2>1. InitialBps[s] \in Nat
    BY KeeperAssumption
  <2>2. share \in Nat
    BY <2>1
  <2> HIDE DEF share
  <2>3. share \div 10000 \in Nat
    BY <2>2
  <2> QED
    BY <2>3 DEF share
<1> QED
  BY <1>1, <1>2

LEMMA AuditSteps ==
  ASSUME LoopInv, AuditInv, [Next]_vars
  PROVE  AuditInv'
<1>1. AuditType /\ DailyTotalsMatchAudit
  BY DEF AuditInv
<1>2. ASSUME UNCHANGED <<day, dailySpent, lastResetDay, chain>>
      PROVE  AuditInv'
  <2>1. AuditType'
    BY <1>1, <1>2 DEF AuditType
  <2>2. \A p \in Processes : SpentThisDay(p)' = SpentThisDay(p)
                             /\ AuditedToday(p)' = AuditedToday(p)
    BY <1>2 DEF SpentThisDay, AuditedToday, CountsToday
  <2> QED
    BY <1>1, <1>2, <2>1, <2>2 DEF AuditInv, DailyTotalsMatchAudit
<1>3. ASSUME NEW p \in Processes, StartProcess(p), UNCHANGED day
      PROVE  AuditInv'
  <2>1. /\ dailySpent' = [dailySpent EXCEPT ![p] = 0]
        /\ lastResetDay' = [lastResetDay EXCEPT ![p] = day]
        /\ chain' = [chain EXCEPT ![p] = <<>>]
    BY <1>3 DEF StartProcess, NewVerifier, NewLog
  <2>2. /\ dailySpent' \in [Processes -> Nat] /\ lastResetDay' \in [Processes -> Nat]
        /\ dailySpent'[p] = 0 /\ lastResetDay'[p] = day /\ chain'[p] = <<>>
        /\ DOMAIN chain' = Processes /\ day \in Nat
        /\ \A q \in Processes \ {p} : /\ dailySpent'[q] = dailySpent[q]
                                      /\ lastResetDay'[q] = lastResetDay[q]
                                      /\ chain'[q] = chain[q]
    BY <1>1, <2>1 DEF AuditType
  <2>3. chain'[p] = <<>> /\ DOMAIN chain'[p] = {} /\ IsList(chain'[p])
    <3>1. <<>> \in Seq({}) /\ DOMAIN <<>> = {}
      OBVIOUS
    <3> QED
      BY <2>2, <3>1 DEF IsList
  <2>4. ASSUME NEW q \in Processes
        PROVE  /\ lastResetDay'[q] <= day
               /\ IsList(chain'[q])
               /\ \A n \in DOMAIN chain'[q] :
                    /\ chain'[q][n].day \in Nat /\ chain'[q][n].day <= day
                    /\ chain'[q][n].proposal.amount \in Nat
    <3>1. CASE q = p
      BY <2>2, <2>3, <3>1
    <3>2. CASE q # p
      BY <1>1, <2>2, <3>2 DEF AuditType
    <3> QED
      BY <3>1, <3>2
  <2>5. AuditType'
    BY <1>3, <2>2, <2>4 DEF AuditType
  <2>6. ASSUME NEW q \in Processes
        PROVE  /\ VerifyChainIntegrity(chain'[q])
               /\ SpentThisDay(q)' = AuditedToday(q)'
               /\ SpentThisDay(q)' <= Rules[q].dailySpendCap
    <3>1. CASE q = p
      <4>1. VerifyChainIntegrity(chain'[p]) /\ AuditedToday(p)' = 0
        <5>1. EmptyLogsCountNothing'
          BY EmptyLog, PTL
        <5> QED
          BY <2>3, <5>1 DEF EmptyLogsCountNothing
      <4>2. SpentThisDay(p)' = 0
        BY <1>3, <2>2 DEF SpentThisDay
      <4> QED
        BY <3>1, <4>1, <4>2, RulesAssumption
    <3>2. CASE q # p
      <4>1. AuditedToday(q)' = AuditedToday(q) /\ SpentThisDay(q)' = SpentThisDay(q)
        BY <1>3, <2>2, <3>2 DEF AuditedToday, CountsToday, SpentThisDay
      <4> QED
        BY <1>1, <2>2, <3>2, <4>1 DEF DailyTotalsMatchAudit
    <3> QED
      BY <3>1, <3>2
  <2> QED
    BY <2>5, <2>6 DEF AuditInv, DailyTotalsMatchAudit
<1>4. ASSUME NEW p \in Processes, NEW i \in Slots,
             StartDaemonCycle(p, i) \/ TriggerCycle(p, i) \/ StartKeeperCycle(p, i)
      PROVE  AuditInv'
  <2>1. UNCHANGED <<day, dailySpent, lastResetDay, chain>> \/ (StartProcess(p) /\ UNCHANGED day)
    BY <1>4, Zenon DEF StartDaemonCycle, TriggerCycle, StartKeeperCycle, processVars
  <2> QED
    BY <1>2, <1>3, <2>1
<1>5. ASSUME NEW i \in Slots, MarketAnswered(i)
      PROVE  AuditInv'
  <2> DEFINE p == cycles[i].proc
  <2>1. p \in Processes
    BY <1>5 DEF MarketAnswered, LoopInv, SlotInv
  <2>2. PICK strategy \in TopStrategies :
          LET proposal == Proposal(i, DaemonState[p], strategy)
              evaluation == Evaluation(p, proposal, DaemonState[p])
          IN  \/ UNCHANGED <<dailySpent, lastResetDay, chain>>
              \/ /\ CountAutomatic(p, proposal, evaluation)
                 /\ LogDecision(p, proposal, evaluation, day)
    BY <1>5 DEF MarketAnswered, Evaluate
  <2> DEFINE proposal == Proposal(i, DaemonState[p], strategy)
  <2>3. day' = day
    BY <1>5 DEF MarketAnswered
  <2>4. proposal.amount \in Nat
    BY <2>1, ProposalType DEF Proposals
  <2> HIDE DEF proposal
  <2>5. CASE UNCHANGED <<dailySpent, lastResetDay, chain>>
    BY <1>2, <2>3, <2>5
  <2>6. CASE /\ CountAutomatic(p, proposal, Evaluation(p, proposal, DaemonState[p]))
             /\ LogDecision(p, proposal, Evaluation(p, proposal, DaemonState[p]), day)
    BY <2>1, <2>3, <2>4, <2>6, DecisionKeepsAudit
  <2> QED
    BY <2>2, <2>5, <2>6 DEF proposal
<1>6. ASSUME NEW i \in Slots, RunKeeperCycle(i)
      PROVE  AuditInv'
  <2> DEFINE p == cycles[i].proc
  <2>1. p \in Processes /\ day' = day
    BY <1>6, ControlLoopAssumption DEF RunKeeperCycle
  <2>2. PICK input \in KeeperRuns :
          \/ UNCHANGED <<dailySpent, lastResetDay, chain>>
          \/ WantsRebalance(input.state) /\ KeeperDecides(i, p, input.state)
    BY <1>6, Zenon DEF RunKeeperCycle
  <2> DEFINE state == input.state
             proposal == RebalanceProposal(i, state)
  <2>3. CASE UNCHANGED <<dailySpent, lastResetDay, chain>>
    BY <1>2, <2>1, <2>3
  <2>4. CASE WantsRebalance(state) /\ KeeperDecides(i, p, state)
    <3>1. /\ state.total \in Nat /\ state.idle \in Nat
          /\ \A s \in DOMAIN state.allocated : state.allocated[s] \in Nat
      <4>1. CASE input \in KeeperInputs
        BY <4>1, KeeperInputAssumption
      <4>2. ASSUME NEW total \in VaultTotals,
                   input = [state |-> InitialState(total), metrics |-> NominalMetrics]
            PROVE  /\ state.total \in Nat /\ state.idle \in Nat
                   /\ \A s \in DOMAIN state.allocated : state.allocated[s] \in Nat
        <5>1. total \in Nat /\ state = InitialState(total)
          BY <4>2, KeeperInputAssumption
        <5> QED
          BY <5>1, InitialStateType
      <4> QED
        BY <4>1, <4>2 DEF KeeperRuns
    <3>2. RebalanceAmount(state) \in Nat
      BY <2>4, <3>1, RebalanceType
    <3>3. proposal.amount \in Nat
      BY <3>2 DEF RebalanceProposal
    <3>4. /\ CountAutomatic(p, proposal, Evaluation(p, proposal, state))
          /\ \/ LogDecision(p, proposal, Evaluation(p, proposal, state), day)
             \/ ~Evaluation(p, proposal, state).approved /\ UNCHANGED chain
      BY <2>4 DEF KeeperDecides, Evaluate
    <3> HIDE DEF proposal, state
    <3> QED
      BY <2>1, <3>3, <3>4, DecisionKeepsAudit
  <2> QED
    BY <2>2, <2>3, <2>4
<1>7. ASSUME NEW i \in Slots,
             \/ PricesAnswered(i)
             \/ AccountAnswered(i) \/ AccountFailed(i) \/ SendAccepted(i) \/ SendRefused(i)
             \/ SendDeferred(i) \/ SendLost(i) \/ PollAnswered(i) \/ PollFailed(i)
             \/ Land(i) \/ FailOnChain(i) \/ Expire(i)
      PROVE  AuditInv'
  <2>1. UNCHANGED <<day, dailySpent, lastResetDay, chain>>
    BY <1>7 DEF PricesAnswered, AccountAnswered, AccountFailed, SendAccepted, SendRefused,
                SendDeferred, SendLost, PollAnswered, PollFailed, Land, FailOnChain, Expire,
                processVars
  <2> QED
    BY <1>2, <2>1
<1>8. CASE NextLedger \/ UNCHANGED vars
  BY <1>2, <1>8 DEF NextLedger, vars, loopVars, processVars
<1>9. CASE NextDay
  <2>1. day' = day + 1 /\ day \in Nat /\ UNCHANGED <<dailySpent, lastResetDay, chain>>
    BY <1>1, <1>9 DEF NextDay, processVars, AuditType
  <2>2. AuditType'
    <3>1. ASSUME NEW p \in Processes
          PROVE  /\ lastResetDay[p] <= day'
                 /\ \A n \in DOMAIN chain[p] : chain[p][n].day <= day'
      BY <1>1, <2>1 DEF AuditType
    <3> QED
      BY <1>1, <2>1, <3>1 DEF AuditType
  <2>3. ASSUME NEW p \in Processes
        PROVE  SpentThisDay(p)' = 0 /\ AuditedToday(p)' = 0
    <3>1. SpentThisDay(p)' = 0
      BY <1>1, <2>1 DEF SpentThisDay, AuditType
    <3> DEFINE counted == [n \in DOMAIN chain[p] |->
                 IF chain[p][n].day = day + 1 /\ Automatic(chain[p][n].evaluation)
                 THEN chain[p][n].proposal.amount ELSE 0]
    <3>2. AuditedToday(p)' = Total(counted)
      BY <2>1 DEF AuditedToday, CountsToday
    <3>3. ASSUME NEW n \in DOMAIN chain[p]
          PROVE  chain[p][n].day # day + 1
      BY <1>1, <2>1 DEF AuditType
    <3>4. counted \in [DOMAIN chain[p] -> Nat] /\ \A n \in DOMAIN chain[p] : counted[n] = 0
      BY <3>3
    <3> HIDE DEF counted
    <3>5. Total(counted) = 0
      BY <3>4, TotalZero
    <3> QED
      BY <3>1, <3>2, <3>5
  <2>4. ASSUME NEW p \in Processes
        PROVE  /\ VerifyChainIntegrity(chain'[p]) /\ SpentThisDay(p)' = AuditedToday(p)'
               /\ SpentThisDay(p)' <= Rules[p].dailySpendCap
    BY <1>1, <2>1, <2>3, RulesAssumption DEF DailyTotalsMatchAudit
  <2> QED
    BY <2>2, <2>4 DEF AuditInv, DailyTotalsMatchAudit
<1> QED
  <2>1. Daemons \subseteq Processes /\ Onces \subseteq Processes /\ Keepers \subseteq Processes
    BY ControlLoopAssumption
  <2>2. ASSUME NEW p \in Processes, Restart(p)
        PROVE  AuditInv'
    <3>1. StartProcess(p) /\ UNCHANGED day
      BY <2>2, Zenon DEF Restart
    <3> QED
      BY <1>3, <3>1
  <2> QED
    BY <1>4, <1>5, <1>6, <1>7, <1>8, <1>9, <2>1, <2>2 DEF Next, Answer

(* A log is intact, and the day's total of a verifier is what the log      *)
(* shows as approved automatically that day and within the cap, however    *)
(* cycles overlap, whenever midnight falls and processes restart.          *)
THEOREM TotalsMatchTheLog == Spec => []DailyTotalsMatchAudit
<1>1. LoopInv /\ AuditInv /\ [Next]_vars => (LoopInv /\ AuditInv)'
  BY LoopSteps, AuditSteps
<1>2. AuditInv => DailyTotalsMatchAudit
  BY DEF AuditInv
<1> QED
  BY LoopInitially, AuditInitially, <1>1, <1>2, PTL DEF Spec

----
(* The hash tree                                                           *)

LEMMA LengthOf ==
  ASSUME NEW k \in Nat, NEW s, s = [i \in 1..k |-> s[i]]
  PROVE  IsList(s) /\ Len(s) = k /\ DOMAIN s = 1..k
<1> DEFINE S == {s[i] : i \in 1..k}
<1>1. s \in [1..k -> S]
  <2>1. DOMAIN s = 1..k
    OBVIOUS
  <2>2. \A i \in 1..k : s[i] \in S
    OBVIOUS
  <2> HIDE DEF S
  <2> QED
    BY <2>1, <2>2
<1> HIDE DEF S
<1>2. s \in Seq(S)
  BY <1>1
<1>3. DOMAIN s = 1..Len(s) /\ Len(s) \in Nat
  BY <1>2
<1>4. 1..Len(s) = 1..k
  BY <1>1, <1>3
<1>5. Len(s) = k
  BY <1>3, <1>4
<1> QED
  BY <1>1, <1>2, <1>5 DEF IsList

LEMMA ListShape ==
  ASSUME NEW s, IsList(s)
  PROVE  DOMAIN s = 1..Len(s) /\ Len(s) \in Nat /\ s = [i \in 1..Len(s) |-> s[i]]
<1>1. PICK S : s \in Seq(S)
  BY DEF IsList
<1> QED
  BY <1>1

(* The next level is half as long, rounded up.                             *)
LEMMA NextLevelShape ==
  ASSUME NEW level, IsList(level)
  PROVE  /\ IsList(NextLevel(level))
         /\ Len(NextLevel(level)) = (Len(level) + 1) \div 2
<1> DEFINE k == (Len(level) + 1) \div 2
<1>1. Len(level) \in Nat
  BY ListShape
<1>2. k \in Nat
  BY <1>1
<1>3. NextLevel(level) = [i \in 1..k |-> NextLevel(level)[i]]
  BY Zenon DEF NextLevel
<1> HIDE DEF k
<1>4. IsList(NextLevel(level)) /\ Len(NextLevel(level)) = k
  <2> DEFINE next == NextLevel(level)
  <2>1. next = [i \in 1..k |-> next[i]]
    BY <1>3
  <2> HIDE DEF next
  <2>2. IsList(next) /\ Len(next) = k
    BY <1>2, <2>1, LengthOf
  <2> QED
    BY <2>2 DEF next
<1> QED
  BY <1>4 DEF k

(* The recursive functions exist: the one up to m extends that up to m - 1.*)
AreLevels(level, leaves, m) ==
    level = [h \in 0..m |-> IF h = 0 THEN leaves ELSE NextLevel(level[h - 1])]

LEMMA LevelsExist ==
  ASSUME NEW leaves, NEW n \in Nat
  PROVE  \E level : AreLevels(level, leaves, n)
<1> DEFINE Bad == {m \in Nat : ~\E level : AreLevels(level, leaves, m)}
<1>1. SUFFICES ASSUME Bad # {} PROVE FALSE
  OBVIOUS
<1>2. PICK m \in Bad : \A k \in Bad : m <= k
  <2>1. Bad \subseteq Nat
    OBVIOUS
  <2> HIDE DEF Bad
  <2> QED
    BY <1>1, <2>1, LeastNatural
<1>3. m # 0
  <2> DEFINE base == [h \in 0..0 |-> leaves]
  <2>1. base = [h \in 0..0 |-> IF h = 0 THEN leaves ELSE NextLevel(base[h - 1])]
    OBVIOUS
  <2> HIDE DEF base
  <2>2. AreLevels(base, leaves, 0)
    BY <2>1 DEF AreLevels
  <2>3. 0 \notin Bad
    BY <2>2
  <2> QED
    BY <2>3
<1>4. m - 1 \in Nat /\ m - 1 \notin Bad
  BY <1>2, <1>3
<1>5. PICK level : AreLevels(level, leaves, m - 1)
  BY <1>4
<1> DEFINE more == [h \in 0..m |-> IF h = 0 THEN leaves ELSE NextLevel(level[h - 1])]
<1>6. ASSUME NEW h \in 0..(m - 1)
      PROVE  more[h] = level[h]
  <2>1. level[h] = IF h = 0 THEN leaves ELSE NextLevel(level[h - 1])
    BY <1>5, Zenon DEF AreLevels
  <2>2. h \in 0..m
    BY <1>4
  <2> QED
    BY <2>1, <2>2
<1>7. more = [h \in 0..m |-> IF h = 0 THEN leaves ELSE NextLevel(more[h - 1])]
  <2>1. \A h \in 0..m : h # 0 => h - 1 \in 0..(m - 1)
    BY <1>4
  <2>2. \A h \in 0..m : h # 0 => more[h - 1] = level[h - 1]
    BY <1>6, <2>1
  <2>3. \A h \in 0..m : (IF h = 0 THEN leaves ELSE NextLevel(level[h - 1]))
                          = (IF h = 0 THEN leaves ELSE NextLevel(more[h - 1]))
    BY <2>2
  <2> QED
    BY <2>3
<1> HIDE DEF more
<1>8. AreLevels(more, leaves, m)
  BY <1>7 DEF AreLevels
<1> QED
  BY <1>2, <1>8

LEMMA LevelsShape ==
  ASSUME NEW leaves, IsList(leaves)
  PROVE  /\ DOMAIN Levels(leaves) = 0..Len(leaves)
         /\ Levels(leaves)[0] = leaves
         /\ \A h \in 1..Len(leaves) : Levels(leaves)[h] = NextLevel(Levels(leaves)[h - 1])
<1> DEFINE level == Levels(leaves)
           n == Len(leaves)
<1>1. n \in Nat
  BY ListShape
<1>2. \E g : AreLevels(g, leaves, n)
  <2> HIDE DEF n
  <2> QED
    BY <1>1, LevelsExist
<1>3. AreLevels(level, leaves, n)
  <2>1. \E g : g = [h \in 0..n |-> IF h = 0 THEN leaves ELSE NextLevel(g[h - 1])]
    BY <1>2 DEF AreLevels
  <2>2. level = CHOOSE g : g = [h \in 0..n |-> IF h = 0 THEN leaves ELSE NextLevel(g[h - 1])]
    BY Zenon DEF Levels
  <2> HIDE DEF level
  <2>3. level = [h \in 0..n |-> IF h = 0 THEN leaves ELSE NextLevel(level[h - 1])]
    BY <2>1, <2>2, Zenon
  <2> QED
    BY <2>3 DEF AreLevels
<1> HIDE DEF level
<1>4. level = [h \in 0..n |-> IF h = 0 THEN leaves ELSE NextLevel(level[h - 1])]
  BY <1>3 DEF AreLevels
<1>5. DOMAIN level = 0..n
  BY <1>4, Zenon
<1>6. \A h \in 0..n : level[h] = IF h = 0 THEN leaves ELSE NextLevel(level[h - 1])
  BY <1>4, Zenon
<1>7. 0 \in 0..n /\ \A h \in 1..n : h \in 0..n /\ h # 0
  BY <1>1
<1> QED
  BY <1>5, <1>6, <1>7 DEF level

(* A level is shorter than the one below it until one node is left.        *)
LEMMA LevelsShrink ==
  ASSUME NEW leaves, IsList(leaves), Len(leaves) > 0, NEW h \in 0..Len(leaves)
  PROVE  /\ IsList(Levels(leaves)[h]) /\ Len(Levels(leaves)[h]) \in Nat \ {0}
         /\ Len(Levels(leaves)[h]) = 1 \/ Len(Levels(leaves)[h]) + h <= Len(leaves)
<1> DEFINE level == Levels(leaves)
           n == Len(leaves)
           Fine(k) == /\ IsList(level[k]) /\ Len(level[k]) \in Nat \ {0}
                      /\ Len(level[k]) = 1 \/ Len(level[k]) + k <= n
           Bad == {k \in 0..n : ~Fine(k)}
<1>1. /\ n \in Nat \ {0} /\ level[0] = leaves
      /\ \A k \in 1..n : level[k] = NextLevel(level[k - 1])
  BY ListShape, LevelsShape
<1>2. SUFFICES ASSUME Bad # {} PROVE FALSE
  BY Zenon
<1> HIDE DEF level, n
<1>3. PICK m \in Bad : \A k \in Bad : m <= k
  <2>1. Bad \subseteq Nat
    BY <1>1
  <2> HIDE DEF Bad
  <2> QED
    BY <1>2, <2>1, LeastNatural
<1>4. m \in 0..n /\ ~Fine(m)
  BY <1>3
<1>5. CASE m = 0
  <2>1. IsList(level[0]) /\ Len(level[0]) = n
    BY <1>1 DEF n
  <2>2. Fine(0)
    BY <1>1, <2>1
  <2> QED
    BY <1>4, <1>5, <2>2
<1>6. CASE m # 0
  <2>1. m \in 1..n /\ m - 1 \in 0..n /\ m - 1 \notin Bad
    BY <1>1, <1>3, <1>4, <1>6
  <2>2. Fine(m - 1)
    BY <2>1
  <2>3. IsList(level[m]) /\ Len(level[m]) = (Len(level[m - 1]) + 1) \div 2
    BY <1>1, <2>1, <2>2, NextLevelShape
  <2> DEFINE above == Len(level[m])
             below == Len(level[m - 1])
  <2>4. below \in Nat \ {0} /\ (below = 1 \/ below + (m - 1) <= n) /\ above = (below + 1) \div 2
    BY <2>2, <2>3
  <2> HIDE DEF above, below
  <2>5. above \in Nat \ {0} /\ (above = 1 \/ above + m <= n)
    BY <1>1, <2>1, <2>4
  <2>6. Fine(m)
    BY <2>3, <2>5 DEF above
  <2> QED
    BY <1>4, <2>6
<1> QED
  BY <1>5, <1>6

LEMMA HeightIsReached ==
  ASSUME NEW leaves, IsList(leaves), Len(leaves) > 0
  PROVE  /\ Height(leaves) \in 0..Len(leaves)
         /\ Len(Levels(leaves)[Height(leaves)]) = 1
<1> DEFINE level == Levels(leaves)
           n == Len(leaves)
           Short == {k \in 0..n : Len(level[k]) <= 1}
<1>1. n \in Nat \ {0} /\ DOMAIN level = 0..n
  BY ListShape, LevelsShape
<1>2. ASSUME NEW h \in 0..n
      PROVE  Len(level[h]) \in Nat \ {0} /\ (Len(level[h]) = 1 \/ Len(level[h]) + h <= n)
  BY LevelsShrink
<1> HIDE DEF level, n
<1>3. n \in Short
  <2> DEFINE last == Len(level[n])
  <2>1. n \in 0..n
    BY <1>1
  <2>2. last \in Nat \ {0} /\ (last = 1 \/ last + n <= n)
    BY <1>2, <2>1
  <2> HIDE DEF last
  <2>3. last <= 1
    BY <1>1, <2>2
  <2> QED
    BY <2>1, <2>3 DEF last
<1>4. PICK m \in Short : \A k \in Short : m <= k
  <2>1. Short \subseteq Nat /\ Short # {}
    BY <1>1, <1>3
  <2> HIDE DEF Short
  <2> QED
    BY <2>1, LeastNatural
<1>5. \A k \in 0..(m - 1) : Len(level[k]) > 1
  <2> TAKE k \in 0..(m - 1)
  <2>1. k \in 0..n /\ k \notin Short
    BY <1>1, <1>4
  <2> QED
    BY <1>2, <2>1
<1>6. \E h \in DOMAIN level : Len(level[h]) <= 1 /\ \A k \in 0..(h - 1) : Len(level[k]) > 1
  <2>1. m \in DOMAIN level /\ Len(level[m]) <= 1
    BY <1>1, <1>4
  <2> QED
    BY <1>5, <2>1
<1>7. Height(leaves) =
        CHOOSE h \in DOMAIN level : Len(level[h]) <= 1 /\ \A k \in 0..(h - 1) : Len(level[k]) > 1
  BY Zenon DEF Height, level
<1>8. Height(leaves) \in DOMAIN level /\ Len(level[Height(leaves)]) <= 1
  BY <1>6, <1>7, Zenon
<1>9. Height(leaves) \in 0..n /\ Len(level[Height(leaves)]) = 1
  <2> DEFINE top == Len(level[Height(leaves)])
  <2>1. Height(leaves) \in 0..n
    BY <1>1, <1>8
  <2>2. top \in Nat \ {0} /\ top <= 1
    BY <1>2, <1>8, <2>1
  <2> HIDE DEF top
  <2>3. top = 1
    BY <2>2
  <2> QED
    BY <2>1, <2>3 DEF top
<1> QED
  BY <1>9 DEF level, n

ArePositions(at, index, m) ==
    at = [h \in 0..m |-> IF h = 0 THEN index ELSE at[h - 1] \div 2]

LEMMA PositionsExist ==
  ASSUME NEW index \in Nat, NEW n \in Nat
  PROVE  \E at : ArePositions(at, index, n)
<1> DEFINE Bad == {m \in Nat : ~\E at : ArePositions(at, index, m)}
<1>1. SUFFICES ASSUME Bad # {} PROVE FALSE
  OBVIOUS
<1>2. PICK m \in Bad : \A k \in Bad : m <= k
  <2>1. Bad \subseteq Nat
    OBVIOUS
  <2> HIDE DEF Bad
  <2> QED
    BY <1>1, <2>1, LeastNatural
<1>3. m # 0
  <2> DEFINE base == [h \in 0..0 |-> index]
  <2>1. base = [h \in 0..0 |-> IF h = 0 THEN index ELSE base[h - 1] \div 2]
    OBVIOUS
  <2> HIDE DEF base
  <2>2. ArePositions(base, index, 0)
    BY <2>1 DEF ArePositions
  <2>3. 0 \notin Bad
    BY <2>2
  <2> QED
    BY <2>3
<1>4. m - 1 \in Nat /\ m - 1 \notin Bad
  BY <1>2, <1>3
<1>5. PICK at : ArePositions(at, index, m - 1)
  BY <1>4
<1> DEFINE more == [h \in 0..m |-> IF h = 0 THEN index ELSE at[h - 1] \div 2]
<1>6. ASSUME NEW h \in 0..(m - 1)
      PROVE  more[h] = at[h]
  <2>1. at[h] = IF h = 0 THEN index ELSE at[h - 1] \div 2
    BY <1>5, Zenon DEF ArePositions
  <2>2. h \in 0..m
    BY <1>4
  <2> QED
    BY <2>1, <2>2
<1>7. more = [h \in 0..m |-> IF h = 0 THEN index ELSE more[h - 1] \div 2]
  <2>1. \A h \in 0..m : h # 0 => h - 1 \in 0..(m - 1)
    BY <1>4
  <2>2. \A h \in 0..m : h # 0 => more[h - 1] = at[h - 1]
    BY <1>6, <2>1
  <2>3. \A h \in 0..m : (IF h = 0 THEN index ELSE at[h - 1] \div 2)
                          = (IF h = 0 THEN index ELSE more[h - 1] \div 2)
    BY <2>2
  <2> QED
    BY <2>3
<1> HIDE DEF more
<1>8. ArePositions(more, index, m)
  BY <1>7 DEF ArePositions
<1> QED
  BY <1>2, <1>8

LEMMA PositionsShape ==
  ASSUME NEW index \in Nat, NEW n \in Nat
  PROVE  /\ Positions(index, n)[0] = index
         /\ \A h \in 1..n : Positions(index, n)[h] = Positions(index, n)[h - 1] \div 2
<1> DEFINE at == Positions(index, n)
<1>1. ArePositions(at, index, n)
  <2>1. \E g : g = [h \in 0..n |-> IF h = 0 THEN index ELSE g[h - 1] \div 2]
    BY PositionsExist DEF ArePositions
  <2>2. at = CHOOSE g : g = [h \in 0..n |-> IF h = 0 THEN index ELSE g[h - 1] \div 2]
    BY Zenon DEF Positions
  <2> HIDE DEF at
  <2>3. at = [h \in 0..n |-> IF h = 0 THEN index ELSE at[h - 1] \div 2]
    BY <2>1, <2>2, Zenon
  <2> QED
    BY <2>3 DEF ArePositions
<1> HIDE DEF at
<1>2. at = [h \in 0..n |-> IF h = 0 THEN index ELSE at[h - 1] \div 2]
  BY <1>1 DEF ArePositions
<1>3. \A h \in 0..n : at[h] = IF h = 0 THEN index ELSE at[h - 1] \div 2
  BY <1>2, Zenon
<1>4. 0 \in 0..n /\ \A h \in 1..n : h \in 0..n /\ h # 0
  OBVIOUS
<1> QED
  BY <1>3, <1>4 DEF at

(* A node hashes the one on the way with its sibling, on the side that the *)
(* position names; the last node of an odd level is its own sibling.       *)
LEMMA ParentOf ==
  ASSUME NEW level, IsList(level), NEW a \in 0..(Len(level) - 1)
  PROVE  /\ a \div 2 \in 0..(Len(NextLevel(level)) - 1)
         /\ NextLevel(level)[a \div 2 + 1] =
              IF a % 2 = 0 THEN Node(level[a + 1], Sibling(level, a))
                           ELSE Node(Sibling(level, a), level[a + 1])
<1> DEFINE n == Len(level)
           i == a \div 2 + 1
           k == (n + 1) \div 2
<1>1. n \in Nat /\ Len(NextLevel(level)) = k
  BY ListShape, NextLevelShape
<1>2. i \in 1..k
  BY <1>1
<1>3. NextLevel(level) =
        [j \in 1..k |-> Node(level[2*j - 1], IF 2*j <= n THEN level[2*j] ELSE level[2*j - 1])]
  BY Zenon DEF NextLevel
<1>4. NextLevel(level)[i] = Node(level[2*i - 1], IF 2*i <= n THEN level[2*i] ELSE level[2*i - 1])
  <2> HIDE DEF i, k, n
  <2> QED
    BY <1>2, <1>3, Zenon
<1>5. CASE a % 2 = 0
  <2>1. 2*i - 1 = a + 1 /\ 2*i = a + 2
    BY <1>1, <1>5
  <2>2. Sibling(level, a) = IF a + 1 < n THEN level[a + 1 + 1] ELSE level[a + 1]
    BY <1>5 DEF Sibling
  <2>3. a + 1 + 1 = a + 2 /\ (2*i <= n <=> a + 1 < n)
    BY <1>1, <2>1
  <2> HIDE DEF i, n
  <2>4. NextLevel(level)[i] = Node(level[a + 1], Sibling(level, a))
    BY <1>4, <2>1, <2>2, <2>3
  <2> QED
    BY <1>1, <1>2, <1>5, <2>4 DEF i
<1>6. CASE a % 2 # 0
  <2>1. 2*i - 1 = a /\ 2*i = a + 1 /\ a - 1 < n /\ a - 1 + 1 = a /\ 2*i <= n
    BY <1>1, <1>6
  <2>2. Sibling(level, a) = level[a]
    BY <1>6, <2>1 DEF Sibling
  <2> HIDE DEF i, n
  <2>3. NextLevel(level)[i] = Node(Sibling(level, a), level[a + 1])
    BY <1>4, <2>1, <2>2
  <2> QED
    BY <1>1, <1>2, <1>6, <2>3 DEF i
<1> QED
  BY <1>5, <1>6

(* What a proof climbs through: on every level, the node on the way up.    *)
OnTheWay(leaves, index) ==
    [h \in 0..Height(leaves) |->
        Levels(leaves)[h][Positions(index, Height(leaves))[h] + 1]]

LEMMA TheWayUp ==
  ASSUME NEW leaves, IsList(leaves), NEW index \in 0..(Len(leaves) - 1)
  PROVE  LET at == Positions(index, Height(leaves))
             way == OnTheWay(leaves, index)
         IN  /\ Height(leaves) \in Nat
             /\ way[0] = leaves[index + 1]
             /\ way[Height(leaves)] = MerkleRoot(leaves)
             /\ \A h \in 1..Height(leaves) :
                  way[h] = IF at[h - 1] % 2 = 0
                           THEN Node(way[h - 1], Sibling(Levels(leaves)[h - 1], at[h - 1]))
                           ELSE Node(Sibling(Levels(leaves)[h - 1], at[h - 1]), way[h - 1])
<1> DEFINE level == Levels(leaves)
           n == Len(leaves)
           top == Height(leaves)
           at == Positions(index, top)
           way == OnTheWay(leaves, index)
           Bad == {h \in 0..top : at[h] \notin 0..(Len(level[h]) - 1)}
<1>1. n \in Nat \ {0}
  BY ListShape
<1>2. /\ top \in 0..n /\ Len(level[top]) = 1
  BY <1>1, HeightIsReached
<1>3. index \in Nat /\ at[0] = index /\ \A h \in 1..top : at[h] = at[h - 1] \div 2
  <2>1. index \in Nat /\ top \in Nat
    BY <1>1, <1>2
  <2> HIDE DEF top
  <2> QED
    BY <2>1, PositionsShape
<1>4. level[0] = leaves /\ \A h \in 1..n : level[h] = NextLevel(level[h - 1])
  BY LevelsShape
<1>5. \A h \in 0..n : IsList(level[h])
  BY <1>1, LevelsShrink
<1>6. \A h \in 0..top : way[h] = level[h][at[h] + 1]
  BY DEF OnTheWay
<1> HIDE DEF level, n, top, at, way
<1>7. ASSUME NEW h \in 1..top, at[h - 1] \in 0..(Len(level[h - 1]) - 1)
      PROVE  /\ at[h] \in 0..(Len(level[h]) - 1)
             /\ way[h] = IF at[h - 1] % 2 = 0
                         THEN Node(way[h - 1], Sibling(level[h - 1], at[h - 1]))
                         ELSE Node(Sibling(level[h - 1], at[h - 1]), way[h - 1])
  <2>1. h \in 1..n /\ h - 1 \in 0..n /\ h - 1 \in 0..top /\ h \in 0..top
    BY <1>1, <1>2
  <2> DEFINE below == level[h - 1]
             a == at[h - 1]
  <2>2. IsList(below) /\ a \in 0..(Len(below) - 1)
    BY <1>5, <1>7, <2>1
  <2>3. level[h] = NextLevel(below) /\ at[h] = a \div 2
    BY <1>3, <1>4, <2>1
  <2>4. way[h] = level[h][at[h] + 1] /\ way[h - 1] = below[a + 1]
    BY <1>6, <2>1
  <2> HIDE DEF below, a
  <2>5. /\ a \div 2 \in 0..(Len(NextLevel(below)) - 1)
        /\ NextLevel(below)[a \div 2 + 1] =
             IF a % 2 = 0 THEN Node(below[a + 1], Sibling(below, a))
                          ELSE Node(Sibling(below, a), below[a + 1])
    BY <2>2, ParentOf
  <2>6. way[h] = IF a % 2 = 0 THEN Node(way[h - 1], Sibling(below, a))
                              ELSE Node(Sibling(below, a), way[h - 1])
    BY <2>3, <2>4, <2>5
  <2> QED
    BY <2>3, <2>5, <2>6 DEF below, a
<1>8. Bad = {}
  <2>1. SUFFICES ASSUME Bad # {} PROVE FALSE
    OBVIOUS
  <2>2. PICK m \in Bad : \A k \in Bad : m <= k
    <3>1. Bad \subseteq Nat
      BY <1>1, <1>2
    <3> HIDE DEF Bad
    <3> QED
      BY <2>1, <3>1, LeastNatural
  <2>3. m # 0
    BY <1>3, <1>4 DEF n
  <2>4. m \in 1..top /\ m - 1 \in 0..top /\ m - 1 \notin Bad
    BY <1>1, <1>2, <2>2, <2>3
  <2>5. at[m - 1] \in 0..(Len(level[m - 1]) - 1)
    BY <2>4
  <2>6. at[m] \in 0..(Len(level[m]) - 1)
    BY <1>7, <2>4, <2>5
  <2> QED
    BY <2>2, <2>6
<1>9. \A h \in 0..top : at[h] \in 0..(Len(level[h]) - 1)
  BY <1>8
<1>10. \A h \in 1..top :
         way[h] = IF at[h - 1] % 2 = 0
                  THEN Node(way[h - 1], Sibling(level[h - 1], at[h - 1]))
                  ELSE Node(Sibling(level[h - 1], at[h - 1]), way[h - 1])
  <2> TAKE h \in 1..top
  <2>1. h - 1 \in 0..top
    BY <1>1, <1>2
  <2> QED
    BY <1>7, <1>9, <2>1
<1>11. way[0] = leaves[index + 1]
  BY <1>1, <1>2, <1>3, <1>4, <1>6
<1>12. way[top] = MerkleRoot(leaves)
  <2>1. at[top] = 0
    <3>1. top \in 0..top
      BY <1>1, <1>2
    <3>2. at[top] \in 0..(Len(level[top]) - 1)
      BY <1>9, <3>1, Zenon
    <3> QED
      BY <1>2, <3>2
  <2>2. way[top] = level[top][1]
    BY <1>1, <1>2, <1>6, <2>1
  <2>3. leaves # <<>>
    BY <1>1 DEF n
  <2> QED
    BY <2>2, <2>3 DEF MerkleRoot, level, top
<1>13. top \in Nat
  BY <1>1, <1>2
<1> QED
  BY <1>10, <1>11, <1>12, <1>13 DEF level, top, at, way

RunsTo(f, top) == f = [h \in 0..top |-> f[h]]

(* Two functions that start alike and go on alike are the same.            *)
LEMMA SameWay ==
  ASSUME NEW top \in Nat, NEW f, NEW g, RunsTo(f, top), RunsTo(g, top), f[0] = g[0],
         \A h \in 1..top : f[h - 1] = g[h - 1] => f[h] = g[h]
  PROVE  f = g
<1> DEFINE Bad == {h \in 0..top : f[h] # g[h]}
<1>1. Bad = {}
  <2>1. SUFFICES ASSUME Bad # {} PROVE FALSE
    OBVIOUS
  <2>2. PICK m \in Bad : \A k \in Bad : m <= k
    <3>1. Bad \subseteq Nat
      OBVIOUS
    <3> HIDE DEF Bad
    <3> QED
      BY <2>1, <3>1, LeastNatural
  <2>3. m \in 1..top /\ m - 1 \in 0..top /\ m - 1 \notin Bad
    BY <2>2
  <2> QED
    BY <2>2, <2>3
<1>2. \A h \in 0..top : f[h] = g[h]
  BY <1>1
<1> QED
  BY <1>2 DEF RunsTo

(* The auditor's proof of an entry leads to the root.                      *)
LEMMA GeneratedProofVerifies ==
  ASSUME NEW leaves, IsList(leaves), NEW index \in 0..(Len(leaves) - 1)
  PROVE  VerifyProof(leaves[index + 1], GenerateProof(leaves, index), MerkleRoot(leaves), index)
<1> DEFINE top == Height(leaves)
           at == Positions(index, top)
           way == OnTheWay(leaves, index)
           proof == GenerateProof(leaves, index)
           leaf == leaves[index + 1]
           IsClimb(g) == g = [h \in 0..top |->
                             IF h = 0 THEN leaf
                             ELSE IF at[h - 1] % 2 = 0 THEN Node(g[h - 1], proof[h])
                                                       ELSE Node(proof[h], g[h - 1])]
           climbed == CHOOSE g : IsClimb(g)
<1>1. /\ top \in Nat /\ way[0] = leaf /\ way[top] = MerkleRoot(leaves)
      /\ \A h \in 1..top :
           way[h] = IF at[h - 1] % 2 = 0
                    THEN Node(way[h - 1], Sibling(Levels(leaves)[h - 1], at[h - 1]))
                    ELSE Node(Sibling(Levels(leaves)[h - 1], at[h - 1]), way[h - 1])
  BY TheWayUp
<1>2. RunsTo(way, top)
  BY Zenon DEF OnTheWay, RunsTo
<1>3. proof = [h \in 1..top |-> Sibling(Levels(leaves)[h - 1], at[h - 1])]
  BY Zenon DEF GenerateProof
<1> HIDE DEF top, at, way, proof, leaf
<1>4. Len(proof) = top
  <2>1. proof = [h \in 1..top |-> proof[h]]
    BY <1>3, Zenon
  <2> QED
    BY <1>1, <2>1, LengthOf
<1>5. \A h \in 1..top : proof[h] = Sibling(Levels(leaves)[h - 1], at[h - 1])
  BY <1>3, Zenon
<1>6. IsClimb(way)
  <2>1. ASSUME NEW h \in 0..top
        PROVE  way[h] = IF h = 0 THEN leaf
                        ELSE IF at[h - 1] % 2 = 0 THEN Node(way[h - 1], proof[h])
                                                  ELSE Node(proof[h], way[h - 1])
    <3>1. h = 0 \/ h \in 1..top
      BY <1>1
    <3> QED
      BY <1>1, <1>5, <3>1
  <2> QED
    BY <1>2, <2>1, Zenon DEF RunsTo
<1>7. IsClimb(climbed)
  <2> HIDE DEF IsClimb
  <2> QED
    BY <1>6, Zenon
<1> HIDE DEF climbed
<1>8. climbed = way
  <2>1. RunsTo(climbed, top)
    BY <1>7, Zenon DEF RunsTo
  <2>2. \A h \in 0..top : climbed[h] = IF h = 0 THEN leaf
                        ELSE IF at[h - 1] % 2 = 0 THEN Node(climbed[h - 1], proof[h])
                                                  ELSE Node(proof[h], climbed[h - 1])
    BY <1>7, Zenon
  <2>3. 0 \in 0..top /\ \A h \in 1..top : h \in 0..top /\ h # 0
    BY <1>1
  <2>4. climbed[0] = way[0]
    BY <1>1, <2>2, <2>3
  <2>5. \A h \in 1..top : climbed[h - 1] = way[h - 1] => climbed[h] = way[h]
    BY <1>1, <1>5, <2>2, <2>3
  <2>6. top \in Nat
    BY <1>1
  <2> QED
    BY <1>2, <2>1, <2>4, <2>5, <2>6, SameWay
<1>9. VerifyProof(leaf, proof, MerkleRoot(leaves), index) <=> climbed[top] = MerkleRoot(leaves)
  <2>1. Positions(index, Len(proof)) = at
    BY <1>4 DEF at, top
  <2> QED
    BY <1>4, <2>1, ZenonT(90) DEF VerifyProof, climbed
<1> QED
  BY <1>1, <1>8, <1>9 DEF leaf, proof

(* So does the solvency engine's, which names the sides.                   *)
LEMMA InclusionProofVerifies ==
  ASSUME NEW leaves, IsList(leaves), NEW index \in 0..(Len(leaves) - 1)
  PROVE  VerifyInclusion(leaves[index + 1], InclusionProof(leaves, index), MerkleRoot(leaves))
<1> DEFINE top == Height(leaves)
           at == Positions(index, top)
           way == OnTheWay(leaves, index)
           proof == InclusionProof(leaves, index)
           leaf == leaves[index + 1]
           IsClimb(g) == g = [h \in 0..top |->
                             IF h = 0 THEN leaf
                             ELSE IF proof[h].position = "left" THEN Node(proof[h].hash, g[h - 1])
                                                   ELSE Node(g[h - 1], proof[h].hash)]
           climbed == CHOOSE g : IsClimb(g)
<1>1. /\ top \in Nat /\ way[0] = leaf /\ way[top] = MerkleRoot(leaves)
      /\ \A h \in 1..top :
           way[h] = IF at[h - 1] % 2 = 0
                    THEN Node(way[h - 1], Sibling(Levels(leaves)[h - 1], at[h - 1]))
                    ELSE Node(Sibling(Levels(leaves)[h - 1], at[h - 1]), way[h - 1])
  BY TheWayUp
<1>2. RunsTo(way, top)
  BY Zenon DEF OnTheWay, RunsTo
<1>3. proof = [h \in 1..top |-> [position |-> IF at[h - 1] % 2 = 0 THEN "right" ELSE "left",
                                 hash |-> Sibling(Levels(leaves)[h - 1], at[h - 1])]]
  BY Zenon DEF InclusionProof
<1> HIDE DEF top, at, way, proof, leaf
<1>4. Len(proof) = top
  <2>1. proof = [h \in 1..top |-> proof[h]]
    BY <1>3, Zenon
  <2> QED
    BY <1>1, <2>1, LengthOf
<1>5. ASSUME NEW h \in 1..top
      PROVE  /\ proof[h].position = "left" <=> at[h - 1] % 2 # 0
             /\ proof[h].hash = Sibling(Levels(leaves)[h - 1], at[h - 1])
  <2> DEFINE side == IF at[h - 1] % 2 = 0 THEN "right" ELSE "left"
             sibling == Sibling(Levels(leaves)[h - 1], at[h - 1])
  <2>1. proof[h] = [position |-> side, hash |-> sibling]
    BY <1>3, Zenon
  <2>2. proof[h].position = side /\ proof[h].hash = sibling
    <3> HIDE DEF side, sibling
    <3> QED
      BY <2>1
  <2> QED
    BY <2>2
<1>6. IsClimb(way)
  <2>1. ASSUME NEW h \in 0..top
        PROVE  way[h] = IF h = 0 THEN leaf
                        ELSE IF proof[h].position = "left" THEN Node(proof[h].hash, way[h - 1])
                                              ELSE Node(way[h - 1], proof[h].hash)
    <3>1. h = 0 \/ h \in 1..top
      BY <1>1
    <3>2. CASE h = 0
      BY <1>1, <3>2
    <3>3. CASE h \in 1..top
      <4>1. h # 0
        BY <1>1, <3>3
      <4> QED
        BY <1>1, <1>5, <3>3, <4>1, Zenon
    <3> QED
      BY <3>1, <3>2, <3>3
  <2> QED
    BY <1>2, <2>1, Zenon DEF RunsTo
<1>7. IsClimb(climbed)
  <2> HIDE DEF IsClimb
  <2> QED
    BY <1>6, Zenon
<1> HIDE DEF climbed
<1>8. climbed = way
  <2>1. RunsTo(climbed, top)
    BY <1>7, Zenon DEF RunsTo
  <2>2. \A h \in 0..top : climbed[h] = IF h = 0 THEN leaf
                        ELSE IF proof[h].position = "left" THEN Node(proof[h].hash, climbed[h - 1])
                                              ELSE Node(climbed[h - 1], proof[h].hash)
    BY <1>7, Zenon
  <2>3. way = [h \in 0..top |-> IF h = 0 THEN leaf
                        ELSE IF proof[h].position = "left" THEN Node(proof[h].hash, way[h - 1])
                                              ELSE Node(way[h - 1], proof[h].hash)]
    BY <1>6
  <2>4. \A h \in 0..top : way[h] = IF h = 0 THEN leaf
                        ELSE IF proof[h].position = "left" THEN Node(proof[h].hash, way[h - 1])
                                              ELSE Node(way[h - 1], proof[h].hash)
    BY <2>3, Zenon
  <2>5. 0 \in 0..top /\ \A h \in 1..top : h \in 0..top /\ h # 0
    BY <1>1
  <2>6. climbed[0] = way[0]
    BY <2>2, <2>4, <2>5, Zenon
  <2>7. \A h \in 1..top : climbed[h - 1] = way[h - 1] => climbed[h] = way[h]
    BY <2>2, <2>4, <2>5, Zenon
  <2>8. top \in Nat
    BY <1>1
  <2> QED
    BY <1>2, <2>1, <2>6, <2>7, <2>8, SameWay
<1>9. VerifyInclusion(leaf, proof, MerkleRoot(leaves)) <=> climbed[top] = MerkleRoot(leaves)
  BY <1>4, ZenonT(90) DEF VerifyInclusion, climbed
<1> QED
  BY <1>1, <1>8, <1>9 DEF leaf, proof

(* However many entries a log holds and however many more follow, every    *)
(* entry has a proof that verifies it against the root, in the form of     *)
(* either of the two engines.                                              *)
THEOREM EveryEntryIsProved == Spec => []AuditProofsVerify
<1>1. ASSUME NEW leaves, IsList(leaves)
      PROVE  ProvesEveryLeaf(leaves)
  <2>1. ASSUME NEW n \in DOMAIN leaves
        PROVE  n - 1 \in 0..(Len(leaves) - 1) /\ n - 1 + 1 = n
    BY <1>1, ListShape
  <2> QED
    BY <1>1, <2>1, GeneratedProofVerifies, InclusionProofVerifies DEF ProvesEveryLeaf
<1>2. ASSUME AuditInv, NEW p \in Processes, NEW more \in 0..MoreEntries
      PROVE  IsList(EntryHashes(chain[p]) \o [n \in 1..more |-> <<"later", n>>])
  <2> DEFINE hashes == EntryHashes(chain[p])
             later == [n \in 1..more |-> <<"later", n>>]
  <2>1. IsList(chain[p])
    BY <1>2 DEF AuditInv, AuditType
  <2>2. IsList(hashes)
    <3>1. hashes = [n \in 1..Len(chain[p]) |-> hashes[n]] /\ Len(chain[p]) \in Nat
      BY <2>1, ListShape DEF EntryHashes
    <3> HIDE DEF hashes
    <3> QED
      BY <3>1, LengthOf
  <2>3. IsList(later)
    <3>1. later = [n \in 1..more |-> later[n]] /\ more \in Nat
      BY ControlLoopAssumption
    <3> HIDE DEF later
    <3> QED
      BY <3>1, LengthOf
  <2>4. PICK S : hashes \in Seq(S)
    BY <2>2 DEF IsList
  <2>5. PICK T : later \in Seq(T)
    BY <2>3 DEF IsList
  <2> HIDE DEF hashes, later
  <2>6. hashes \in Seq(S \cup T) /\ later \in Seq(S \cup T)
    BY <2>4, <2>5
  <2>7. hashes \o later \in Seq(S \cup T)
    BY <2>6
  <2> QED
    BY <2>7 DEF hashes, later, IsList
<1>3. AuditInv => AuditProofsVerify
  BY <1>1, <1>2 DEF AuditProofsVerify
<1>4. LoopInv /\ AuditInv /\ [Next]_vars => (LoopInv /\ AuditInv)'
  BY LoopSteps, AuditSteps
<1> QED
  BY LoopInitially, AuditInitially, <1>3, <1>4, PTL DEF Spec

----
(* The scans between venues                                                *)

(* Whatever price the two feeds are made from, the daemon's scan answers   *)
(* nothing, and the keeper's answers nothing either, whatever minimum its  *)
(* configuration names: the branches that execute an opportunity           *)
(* (daemon.ts, keeper_bot.ts) are never taken.                             *)
THEOREM NothingToCapture ==
    ASSUME NEW price \in TradePrices
    PROVE  /\ ScanArbitrage(Feeds(price)) = {}
           /\ ScanMevOpportunities(VenuePrices(price)) = {}
<1>1. price \in Nat /\ price > 0
  BY MevAssumption
<1>2. ASSUME NEW way \in [buy : DOMAIN Feeds(price), sell : DOMAIN Feeds(price)],
             way.buy # way.sell
      PROVE  ~((Feeds(price)[way.sell].bid - Feeds(price)[way.buy].ask) * 10000
                 >= MinSpreadBps * Feeds(price)[way.buy].ask)
  <2>1. way.buy \in {"PhoenixCLAMM", "SoroswapAMM"} /\ way.sell \in {"PhoenixCLAMM", "SoroswapAMM"}
    BY DEF Feeds
  <2>2. CASE way.buy = "PhoenixCLAMM" /\ way.sell = "SoroswapAMM"
    <3>1. Feeds(price)[way.sell].bid = price /\ Feeds(price)[way.buy].ask = price + 2
      BY <2>2 DEF Feeds
    <3> QED  BY <1>1, <3>1 DEF MinSpreadBps
  <2>3. CASE way.buy = "SoroswapAMM" /\ way.sell = "PhoenixCLAMM"
    <3>1. Feeds(price)[way.sell].bid = price /\ Feeds(price)[way.buy].ask = price + 3
      BY <2>3 DEF Feeds
    <3> QED  BY <1>1, <3>1 DEF MinSpreadBps
  <2> QED  BY <1>2, <2>1, <2>2, <2>3
<1>3. ScanArbitrage(Feeds(price)) = {}
  BY <1>2 DEF ScanArbitrage
<1>4. ASSUME NEW way \in [buy : DOMAIN VenuePrices(price), sell : DOMAIN VenuePrices(price)]
      PROVE  ~((VenuePrices(price)[way.sell] - VenuePrices(price)[way.buy]) * 10000
                 >= (ExchangeFeesBps + 1) * VenuePrices(price)[way.buy])
  <2>1. /\ VenuePrices(price)[way.sell] \in {1999 * price, 2000 * price, 2001 * price}
        /\ VenuePrices(price)[way.buy] \in {1999 * price, 2000 * price, 2001 * price}
    BY DEF VenuePrices
  <2> QED  BY <1>1, <2>1 DEF ExchangeFeesBps
<1>5. ScanMevOpportunities(VenuePrices(price)) = {}
  BY <1>4 DEF ScanMevOpportunities
<1> QED  BY <1>3, <1>5
====
