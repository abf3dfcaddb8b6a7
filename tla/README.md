# Hikari: specifications, model checking and proofs

Hikari is a yield vault on Stellar: Soroban contracts (Rust, `src/contracts`) that hold
the funds, an off-chain control loop (TypeScript, `src/agents`, `src/engine`) that decides
where they go, and a web application (`src/frontend`, `src/services`, `src/sdk`) through
which people see and use them.  This directory specifies all three in TLA+, checks them with
TLC on small instances and proves the properties that matter most with TLAPS for every value
of the constants.

Contents: 1 inventory, 2 what is modelled and how it corresponds to the code, 3 the runs,
4 the proofs, 5 disagreements between documents and code, 6 what is not modelled,
7 the plan.

## 1. Inventory

### 1.1 On-chain

A contract call is atomic: it runs alone, and a panic or a returned error undoes
everything it did, in every contract it called.  All concurrency is therefore the order
in which calls of different parties are applied.  `require_auth` is the only notion of
identity.

| component | state | operations | interacts with |
|---|---|---|---|
| vault | `Paused`, `TotalIdleAssets`, `AllocatedAssets`, addresses | deposit, withdraw, allocate, deallocate, emergency exit, pause, unpause | calls asset, share token, policy account, registry and adapter in one call |
| token (hXLM) | `TotalSupply`, `Balance`, `Allowance`, `Vault` | transfer, transfer_from, approve, mint, burn, set_vault | mint and burn only by its vault |
| strategy_registry | per strategy: cap, allocated amount, status; `Vault` | add, update_cap, pause, unpause, revoke, record_allocation, record_deallocation, set_vault | the vault records, admin and guardian curate |
| policy_account | agents, allowed contracts, limits, `SpentToday`, `LastResetLedger` | set_agent_status, set_contract_allowed, set_limits, verify_and_record_action | the vault verifies every allocation |
| blend, soroswap, phoenix adapters, mock | principal, accrued yield, LP units, ticks, `Paused` | deposit, withdraw, harvest, emergency_exit, accrue_fees, recenter_ticks | hold the asset; only the vault moves it |
| withdrawal_queue | requests, next id, cooldown, mode, haircut | request, finalize, claim, claim_batch, cancel, bunker mode, set_vault | bound to a vault that in this code never calls it |
| governance | proposals, tallies, who voted, who vetoed | create, vote, veto, queue, execute | stands alone: executing only marks the proposal |
| streamer | streams with total, claimed, start, duration | add_yield_stream, harvest_claimable | holds the streamed tokens |
| fee_controller | rates, high-water mark, last accrual | assess_performance_fee, route_fee, update_fee_rates | pays treasury and reserve |
| oracle | one telemetry record | update_telemetry, set_publisher | read by clients |
| gate_seal | sealed flag, expiry | seal, unseal | read by nobody on chain |
| sentinel | pause flag, threshold | check_and_trigger, emergency_pause_all | calls the vault's pause |
| factory | vault records, WASM hashes | create_vault, register_wasm | deploys vaults |

What makes each correct: the **vault** never counts assets it or its strategies do not
hold, prices shares without favouring the caller, and only receives while paused; the
**token** neither loses nor invents shares; the **registry** record respects the cap and
covers what a strategy holds; an **adapter** that was exited stays empty; the **queue**
answers each request once, to its owner, after the cooldown; **governance** counts each
ballot once, freezes tallies at the end of voting and never undoes a decision; the
**streamer** keeps the pool that covers all streams; the **fee controller** charges no
gain twice; the **oracle** bounds what one update can do; the **gate seal** ends by
itself; the **sentinel** pauses what it says it pauses.

### 1.2 The control loop

JavaScript runs one callback at a time; between an `await` and what follows it anything may
happen.  A cycle is therefore cut into steps at its awaits and nowhere else.

| component | state | operations | hard behaviour |
|---|---|---|---|
| policy verifier (`engine/src/policy_verifier.ts`) | daily total, day of its last reset | evaluateProposal, checkDailyReset | counts approvals, not executions; forgets at midnight and with its process |
| risk engine (`engine/src/risk_engine.ts`) | peak value | evaluateRisk, updatePeakValue | the peak is known to one process only |
| audit log (`engine/src/audit_logger.ts`, `cryptographic_verifier.ts`) | hash chain | logDecision, verifyChainIntegrity, Merkle proofs | levels of odd length |
| keeper (`engine/src/agents/keeper_bot.ts`, `keeper_daemon.ts`) | the three above | runKeeperCycle | judges a state that was read once, at its start |
| daemon, orchestrator (`agents/src/daemon.ts`, `orchestrator.ts`) | protocol state (a constant), timer | runSingleCycle, runOrchestrationCycle | the timer starts a cycle while others still await the network; the API server starts processes of one cycle beside it |
| execution agent (`agents/src/execution_agent.ts`) | none | executeOnChain | one account, one sequence number; polling gives up while the transaction may still land |
| market, yield, risk, payment, MEV agents (`agents/src`) | none that changes | rankings, sizing, canPay, scans | |

Correct means: caps and logs agree however cycles overlap, only what was approved without a
human lands and lands once, a failure that was reported is one, the window of the policy
account counts what landed, an approval never follows a fall of the assets the process saw,
every entry of a log can be proved, and every cycle ends.

### 1.3 The web application

| component | state | operations | hard behaviour |
|---|---|---|---|
| API server (`frontend/server.js`) | lazily made services, a data file | some twenty routes | batches of reads of which some fail; a handler that throws ends the process |
| contract reader (`sdk/src/contract-reader.ts`) | a cache per process | simulateCall and its readers | entries of different ages in one answer |
| auth service (`services/database/src/auth-service.ts`) | challenges, consumed nonces, sessions | generateChallenge, verifySignature | expiry racing an answer, replays, restarts that empty the memory |
| portfolio store (`services/database/src/db-client.ts`) | tables, state file | profiles, deposits, history | a write that fails or tears; a crash between memory and file |
| dashboard (`frontend/public/app.js`) | figures, wallet, panels, buttons | timer, clicks, flows, rollup | answers out of order, chains of awaits any of which fails, an animation and two kinds of answer that write the same elements |
| solvency engine, points engine, social gateway (`services`, `engine`) | made per request | reports | |

Correct means: a session belongs to the address that signed its challenge, in time, once;
portfolio and history agree in memory and on disk and cover what was acknowledged; every figure
of the page can be traced to a value the chain or the market had, or is a stand-in that section 5
names (the zeros of a page that has read nothing, the NAV that follows from them, a holding of 0
or a nominal badge when a read failed); once the network stays up the page comes to show the
assets and the reserve of the chain; no button stays disabled.

### 1.4 What is hard here

* **One call, several contracts.** An allocation is four calls and two assignments; the
  vault reads `TotalIdleAssets` before them and writes it after.
* **Three sets of books.** `AllocatedAssets` of the vault, `allocated` of the registry and
  principal plus yield of the adapter are updated by different paths, each with its own
  clamp at zero.
* **Reported is not received.** The vault adds to its idle assets what an adapter says it
  returned.
* **Roles racing.** Admin, guardian, agents and users act on pause, status, caps and
  limits in any order; deallocation needs nobody's permission.
* **Rounding.** Share price with a virtual offset, linear unlocking, haircuts, fee halves.
* **Terms that change under a request.** Cooldown, mode and haircut at claim time.
* **Votes, vetoes and deadlines** that are evaluated only when somebody calls.
* **Overlapping cycles** of a timer that does not wait, of processes with memories of their
  own, all sending from one account.
* **Answers that are late, lost, cached or half failed**, and what is shown in their place.
* **Restarts** that empty a memory, and a file that is overwritten in place.

`PROJECT.json` lists each hazard at its line with the properties that cover it.

## 2. What is modelled

Common conventions: a call is one action; its guard is the conjunction of the checks the
code makes, a refused call is no step; a call into another contract is that contract's
operation conjoined, so that its refusal refuses the caller.  `require_auth` of a fixed
role is left implicit where only that role has an action, explicit (a `caller`) where
several may call.  Amounts are naturals; `i128` widths are not modelled because no amount
in reach approaches them and the contracts are built with overflow checks.  Storage TTLs
are abstracted: entries live for ever.  Events and errors carry no state.

| module | models | notes |
|---|---|---|
| `Ledger` | ledger sequence | `CloseLedger` is the passage of time, capped by `MaxLedger` |
| `Asset` | Stellar Asset Contract (external) | a transfer needs the balance; minting is out of scope |
| `Deployment` | the addresses of one deployment | constants and their assumptions |
| `ShareToken` | `contracts/token` | an absent allowance is one of amount 0 |
| `StrategyRegistry` | `contracts/strategy_registry` | an absent record has status `"None"` |
| `PolicyAccount` | `contracts/policy_account` | maps of booleans are the sets of keys mapped to true |
| `StrategyAdapters` | the three adapters and the mock | `Kind` tells which contract stands behind an address |
| `HikariVault` | `contracts/vault` | every vault call with all it invokes |
| `HikariSystem` | the capital core as one system | all parties, any order; its properties |
| `Governance` | `contracts/governance` | the history variable `ballots` is the published vote events |
| `WithdrawalQueue` | `contracts/withdrawal_queue` | the history variable `returned` is what calls returned |
| `RedemptionTickets` | abstract specification of a queue | implemented by `WithdrawalQueue` |
| `YieldStreamer`, `FeeController` | `contracts/streamer`, `contracts/fee_controller` | history variables sum the gains charged and count the routes |
| `Incentives` | both over one asset | |
| `GateSeal`, `Oracle`, `Sentinel` | the contracts of these names | history variables count seals and nav updates and name the vaults an alarm was answered for |
| `Safeguards` | the three side by side | the sentinel's trigger with the vault's `pause` and `unpause` |
| `PolicyVerifier` | `engine/src/policy_verifier.ts` | one per process: functions on `Processes` |
| `AuditLog` | the hash chain, the tree over it, both forms of a proof | SHA-256 is an injective constructor |
| `YieldAgents` | market, yield, risk and payment agents | floats are scaled to integers, see below |
| `KeeperBot` | the risk engine and evaluateRebalance | a strategy the caller does not list holds nothing (`Held`) |
| `MevBackrun` | both MEV scans | |
| `ControlLoop` | daemon, orchestrator, execution agent, keeper | extends the modules above and `PolicyAccount` |
| `AuthService`, `PortfolioStore`, `ContractReader` | the services behind the routes | |
| `ApiServer` | the routes | a handler is an operator from the reads that failed to its answer |
| `Dashboard` | the page | one state per button, per panel and per request of the timer |
| `WebApp` | page, server, services, chain and network together | |
| `Totals` | sums by counting pairs, powers by counting words | so that both can be proved about |
| `*MC` | TLC instances | constants only |
| `*Proofs` | TLAPS | section 4 |

**Vault.** `Deposit`, `Withdraw`, `AllocateToStrategy`, `DeallocateFromStrategy`,
`EmergencyExitStrategy`, `Pause`, `Unpause` are the functions of `vault/src/lib.rs`;
`ConvertToShares` and `ConvertToAssets` keep the virtual offset of 1000 shares and 1
asset and the direction of the rounding.  `CreditReturned` is the common tail of
deallocation and exit: idle grows by the reported amount, allocated shrinks by it, clamped
at zero.  A user may also send assets to the vault directly (a donation), which the vault
does not see.

**Adapters.** The books of the three contracts have the same shape; where they differ the
operator names the kind.  The difference that matters: Phoenix transfers only what its
token balance allows and reports the whole amount, and its `accrue_fees` can be called by
anyone.

**Governance.** Powers are inputs because the code takes them from the caller; a negative
power is among the inputs and must be refused.  `queue_proposal` of a proposal nobody
voted on writes `Defeated` and returns an error, which undoes the write: the action has no
step, and the proposal stays `Active`.

**Queue.** A batch is one call: all its claims or none.  Lists that repeat an id are among
the inputs and are refused, because the first claim removes the request.

**Safeguards.** The seal's expiry is a timestamp in the code and a ledger number here: both
grow together, and nothing compares the two.  `CheckAndTrigger` is one action with the
vault's pause, so a vault that does not name the sentinel as its guardian refuses the whole
trigger; below the threshold the call answers false and is no step.  Drawdown and vault are
arguments of whoever calls, with no authorization, as in the code.  Initialization is the
initial state.

**Control loop.** A slot of `cycles` is one cycle; its `pc` names what it awaits: the prices,
the market, the account, the answer to the send, the answer to a poll.  `Processes` are the
daemon, processes of one cycle (`POST /api/trigger-cycle` runs the daemon with `--once`) and
keepers.  `Restart` ends the cycles of a process and empties its verifier, log and risk
engine, but a transaction it sent is on its way.  `txs` is the network: a transaction lands
(`Land`), fails on chain or expires, and only when its sequence number is the next one of the
account.  `Land` is `verify_and_record_action` of the policy account; what else the vault may
refuse is `FailOnChain`.  `KeeperRuns` are the inputs `runDaemon` makes itself and, because
`runKeeperCycle` is public, some that another caller may hand it.  The telemetry the daemon
writes and the status its own risk evaluation puts into it are left out: nothing reads them.
Percentages and scores that the code computes as floats are integers of a scale at which they
are exact for the inputs of the runs.

**MEV and payments.** Both scans compute on prices made from one price of Horizon, so the
spread they can see is fixed (theorem `NothingToCapture`), and the query of the payment agent
costs ten times what one query may.  The branches behind them are dead, which is why
executing a bundle and settling a payment are not actions; the guards stay in the model.

**Web application.** What the handlers of the server share (the cache, the tables, the
challenges) is read and written without an await in between, so a handler is one step from the
request to its answer; the answers of the telemetry travel on their own, because only they can
overtake each other.  A request may outlive the process it was sent to, which allows more than
the code does.  An entry of the cache lives between one and two ticks of half its TTL.  A
panel, and a button, has one request in flight, as the page disables the button or replaces
the content.  `Failures(reads)` are the sets of reads that may fail together.  The routes of
the services are called by clients of the API: no page uses them.

**The cards.** `shown` keeps what `app.js` keeps (`state.totalAssets` and `idleAssets`, in whole
XLM) apart from what the cards display (`tvlDisplay`, `navDisplay`, `reserveDisplay`), because two
writers disagree on them: `updateMetrics`, called at load, by telemetry and by a change of tier,
and the rollup of `initGsapAnimations`, which for 1.2 seconds writes at every frame towards the
figures there were at load.  The cards start as `updateMetrics` leaves them at line 855: no
assets, no reserve and a NAV of 0.0010.  The NAV of the page is over the virtual shares alone,
since nothing assigns `state.totalShares`; the model computes it the same way.  The badge starts
nominal, as `app.html` says, and is written by telemetry, from the chain, and by the answer of a
cycle, from a file.  Tiers and vault pills change the unit beside a figure and nothing the
properties tell apart, so `SwitchTier` is the call of `updateMetrics` they all make.

**Wrong variants.** Some operators stand next to a wrong variant (`WithdrawKeepingIdle`,
`CarriedOnTie`, ...).  No specification uses them: each is a plausible slip in that code
which one of the properties detects when the variant is put in its place, and so documents
what the property is sensitive to.  `PROJECT.json` pairs them.

## 3. The runs

All instances are checked completely.  `CHECK_DEADLOCK FALSE` is stated everywhere because
each system may stop: the ledger, requests, proposals, streams and cycles are capped by
bounds, and nobody has to call.

| run | states | what it shows |
|---|---|---|
| `vault_core` | 342 thousand | With honest adapters (Blend and Soroswap), one user, an agent, admin, guardian and a stranger: idle assets are backed by the vault's balance (`IdleBacked`), positions by the strategies' (`PositionsBacked`), records stay within caps and cover positions (`CapRespected`), supply is the sum of balances (`SupplyIsSum`), shares never convert to more than is held (`Solvent`), a paused vault only receives (`PausedOnlyReceives`) |
| `vault_yield` | 796 thousand | With Blend and a Phoenix adapter that accrues unbacked fees: `NoPhantomAllocation`, `ExitedStaysEmpty`, `RoundTripNeverProfits`, `PriceNeverFalls` still hold |
| `phoenix_solvency` | counterexample | `Solvent` is violated with Phoenix fees (section 5) |
| `reserve_floor` | counterexample | An allocation may leave less than 15% idle (section 5) |
| `governance` | 156 thousand | Two proposals, two voters, powers -1 and 1: `TallyIsBallots`, `ProceedsOnlyIfCarried`, `TallyFrozenOnceClosed`, `DecisionsAreFinal` |
| `veto_share` | counterexample | A proposal vetoed by more than the share is queued (section 5) |
| `withdrawal_queue` | 251 thousand | Three requests of two users, two vaults, mode changes: `OnlyRipeOwnClaims`, and the queue implements `RedemptionTickets` |
| `incentives` | 1.68 million | Two streams for two vaults and for the streamer itself, tokens sent to it directly, moving nav and rates: `StreamsBacked`, `ClaimedWithinUnlocked`, `NoGainChargedTwice` |
| `safeguards` | 104 thousand | A committee, two publishers, two vaults of which one obeys the sentinel: `SealTimeBoxed`, `CommitteePowerEnds`, `TriggerReachesVault`, `NavMovesByTenths` |
| `control_loop` | 184 thousand | Two overlapping cycles of a daemon, of two processes of one cycle and of a keeper: `DailyTotalsMatchAudit`, `OnlyApprovedLands`, `FailuresAreFinal`, `WindowCountsWhatLanded`, `NoAllocationInDrawdown`, `AuditProofsVerify`; every cycle ends (`EveryCycleEnds`) |
| `web` | 33 thousand | Page, server, services, chain and network, a group of clients at a time: `SessionsEarned`, `DepositsSurvive`, `FiguresHaveASource`; the page comes to show assets, reserve and breaker of the chain (`ShowsTheChainAgain`) and buttons come back (`ButtonsComeBack`) |
| `seal_once` | counterexample | The seal is set again after it was lifted (section 5) |

**Bounds and why they are enough.**
*Core:* one holder with 2 units of the asset and amounts 1 and 2 give first deposits,
partial and full withdrawals, and donations; burning 1000 shares is a full withdrawal
or half of one (withdrawals that round are in the *Yield* run, where the price moves); caps 1 and 2 with amounts up to 2 give caps that bind and caps lowered under an
allocation; two adapters let returns of one draw on the counter of the other; one ledger
step with a one-ledger day lets the spending window elapse.  Sums over several holders are
what the proofs add.  *Yield:* one unit of yield while the vault counts at most 2
assets already moves the price off its initial value and lets a return exceed the
principal.  *Governance:* a voting period and a timelock of one ledger with three ledger
steps cover voting, queueing and execution and calls before and after each deadline; two
proposals show that ids do not interfere.  *Queue:* three requests give batches of two with
a third outside; a haircut above the maximum is among those asked for.  *Incentives:*
durations 2 and 3 with amounts 1 and 3 make every intermediate unlocking round; navs below
and above the mark, with the rate switched off in between, are the histories in which a
gain could be charged twice; the streamer is among the payees, because `add_yield_stream` does
not look at the vault it is given, and anyone may send it tokens that belong to no stream.  *Safeguards:*
a seal of two ledgers, an expiry at ledger 2 and four ledgers let the committee seal, lift, seal
again at its last moment and have that seal end;
two updates from a nav of 20 with every nav from -1 to 25 show compounding either way and
refused navs; drawdowns just below and at the threshold.  *Control loop:* two slots are two
overlapping cycles, of one process or of two; the daemon proposes 2 of its 20 and the larger
process 3, so that under a cap of 4 the second proposal of a day is refused, and the larger
amount needs a human; the transaction limit of the contract lets one of two transactions of a
window land; the day ends once, the window of two ledgers closes once; a keeper sees its
assets fall by a tenth, a reserve that rounds below the floor, and a depeg; one entry more
than the logs hold makes trees of one, two and three leaves.  *Web:* the state of the chain
changes once (the vault loses assets, is sealed, a proposal and a deposit come), the network
is troubled once before it recovers or stays down, a process is killed once and a handler
throws; three deposits overflow a history of two; two requests of the timer can overtake each
other; two challenges of two addresses; ten stroops to the XLM and assets of 45 and 29 stroops, so
that whole XLM round, and reserves of 50% and 40%.  `Init` picks one of
`Workloads`, groups of clients small enough to be explored: those of one flow or one panel with
the world that troubles them.  Three of them poll: one while chain and network change, one while
cycles are triggered (whose answers write the badge too), shocks sent and the process killed, one
while the rollup runs and tiers are chosen.  `ShowsTheChainAgain` is checked in these three groups
and claimed for no larger one; `SessionsEarned` and `FiguresHaveASource` are proved for all clients
together.

`SYMMETRY` is used for the voters of `governance` only: they are interchangeable and no
liveness property is checked there.

**Fairness and liveness.** On chain nothing happens unless somebody calls, and no caller is
obliged to; a fairness assumption there would be about people, and no run makes one.  Off chain
two runs do.  `ControlLoop` is weakly fair to `Answer(i)`: a call to the network is answered
or fails in the end, and the event loop runs what waited for it.  Starting cycles, closing
ledgers and including transactions are not assumed.  With that `EveryCycleEnds` says that each
cycle ends with a report, or with its process; what makes it true is the count of the polls.
`WebApp` is weakly fair to the timer (`setInterval`), to the requests of the timer and of the
flows (a fetch is answered or rejected), to the end of the rollup (a tween of 1.2 seconds; a tab
in the background draws no frames and is looked at by nobody), to time, and to the restart of the
container (`restart: unless-stopped` of `docker-compose.yml`).  It assumes neither that the user
clicks, nor that the wallet's prompt is answered, nor that the network recovers: the hypothesis
that it does, from some moment on, is part of `ShowsTheChainAgain`.  So is, for the badge alone,
that nobody triggers a cycle any more: the answer of a cycle carries the breaker of a file, and a
user who keeps triggering cycles keeps overwriting what telemetry says of the chain.

## 4. The proofs

All obligations are checked by TLAPS with no gap.  The constants range over what their
named assumptions allow: any finite sets of holders and strategies, any kinds, any limits,
any amounts.  The bounds of the runs (`MaxLedger`, `Amounts`, ...) are constants too, so a
theorem holds for every choice of them.

* `ArithmeticProofs`: `Total(f)` counts pairs; it is a natural, bounds each entry, is
  monotone, zero for zero, changes by the difference when one entry changes, adds up over sums
  of functions, grows by the value of a new element (`TotalExtend`) and does not depend on what
  the elements are called (`TotalReindex`).  Everything about sums rests on these.  `Power`
  counts words in the same way (`PowerZero`, `PowerStep`).  Then floor division; a deposit, a
  withdrawal and pure growth keep (assets + 1) / (supply + 1000) from falling; a round trip
  returns at most what went in; `LinearShare`: the share of a stream that time unlocks grows
  with time and never exceeds the stream.  `LeastNatural` (a set of naturals that is not empty
  has a least element) takes the place of induction wherever a function is defined by recursion:
  the least level at which a claim about a tree fails cannot exist.
* `HikariSystemProofs`: the inductive invariant is
  `TypeOK /\ SupplyIsSum /\ UnregisteredIsEmpty`.  `TypeOK` alone is not inductive: burning
  could drive the supply below zero unless the supply is the sum of balances.  The third
  conjunct says that an unregistered strategy has nothing recorded, which is why
  `add_strategy` may write a fresh record with allocation 0.  From it: `TypeCorrect`, `SupplyCorrect`, `ExitIsFinal`, `RoundTrip`,
  `PriceIsMonotone`, `PauseOnlyReceives`.  `NothingPhantom` adds that the vault's counter is
  bounded by both other books.  `IdleIsBacked`, `PositionsAreBacked`, `CapsRespected` and
  `AlwaysSolvent` assume `NoPhoenix` (no address of kind `"phoenix"`), which is exactly the
  case the run `phoenix_solvency` shows to be necessary.  The step lemmas (`DepositEffect`,
  `AllocateEffect`, ...) say once per call what it does to the three books; the invariants
  then argue about these effects and not about the code again.
* `GovernanceProofs`: the inductive invariant is
  `TypeOK /\ UnusedIsEmpty /\ TallyIsBallots /\ ProceedsOnlyIfCarried`; ids above the
  counter are unused and a voter who has not voted has no ballot, which is what makes a new
  proposal and a first vote safe to add.  `TalliesFreeze` and `FinalDecisions` follow from
  one lemma (`StepEffect`) about what a step may do to a proposal.

* `SafeguardsProofs`: the inductive invariant is
  `TypeOK /\ SealedInTime /\ TriggerReachesVault`; `SealedInTime` says that a set seal was
  set before the expiry, which `CommitteePowerEnds` needs and does not say itself.
  `NavIsBounded` multiplies the bounds by ten and by nine or eleven at each accepted update
  (`UpdateMovesByATenth`, `TenthStep`): the rounding of the allowed move, a tenth rounded down, is
  in the bound's favour both ways.
* `IncentivesProofs`: the inductive invariant is
  `TypeOK /\ StreamsBacked /\ ClaimedWithinUnlocked /\ MarkIsCharged`.  The pool covers what
  the streams owe; it is not equal to it, because tokens sent to the streamer directly, and what a
  stream that names the streamer as its vault pays to itself, stay in the pool and belong to no
  stream.  A harvest keeps it covered only because no claim exceeds what is owed, which is
  `ClaimedWithinUnlocked`; that in turn needs what is unlocked to grow with time
  (`UnlockedGrows`).  `MarkIsCharged` ties the gains charged to the high-water mark: the bound on
  the gains alone does not see the mark.  `NoHarvestIsShort` follows: the transfer a harvest makes
  always finds its tokens, in whatever order the vaults come.
* `WithdrawalQueueProofs`: `TypeOK` is inductive with one effect lemma per call (`RequestStep`,
  `CloseStep`, ...); it says that a stored request and an answered one are never the same, and that
  the ids of both are exactly those issued.  `OnlyOwnersAreServed` reads off the one operator
  that pays; a batch adds that all its claims are of one caller.  `QueueHonoursTickets` is the refinement: a
  step of the queue changes tickets the way `RedemptionTickets` allows or leaves them alone
  (`NextTickets`), because changes of mode, cooldown, vault and time touch no request and no
  answer (`SameTicket`), and the cut of a payment is at most half (`PayoutIsCut`).
* `ControlLoopProofs`: `LoopInv` types the cycles and transactions and says of each slot
  (`SlotInv`) that before the send there is no transaction, that from the decision on there is
  an approval, and that a report of a failure is made once, when the failure is final.  Neither
  property is inductive without it: `OnlyApprovedLands` needs to know that the approval was there
  before the transaction, `FailuresAreFinal` that nothing is polled after the report.
  `WindowInv` adds that nothing landed in a ledger still to come, which makes the first call
  after a window the first of the next.  `PeakInv` says that the peak of a process is above all
  it was shown since it started; `BelowThePeak` does the arithmetic: a drawdown from the peak
  whose rounded value is under the bunker's threshold is under it exactly, and so is the one
  from any lower value.  `NothingToCapture` computes both MEV scans for every
  price and every configured minimum.
  `AuditInv` adds to `DailyTotalsMatchAudit` that no entry of a log and no reset lies in a day to
  come, so that a new day, and a reset within one, starts both sums at zero; `LogGoesOn` says
  what one more entry does to the sum of a log (`TotalExtend`).
  `EveryEntryIsProved` is about the tree alone.  `LevelsShape` gives the length of each level
  from that of the leaves, `LevelsShrink` that a height is reached, `ParentOf` what a node and its
  sibling make of the next level, the odd last one included, and `TheWayUp` that the position of
  a leaf halves from level to level within the bounds of each; both verifiers then climb the same way
  (`SameWay`), so that both forms of a proof end at the root.
* `WebAppProofs`: `AuthInv` says that the challenge of a session given is no longer active.
  That, and not the list of consumed nonces, is what keeps a challenge from giving two sessions:
  a restart empties the list, and the challenges with it.  `FiguresAreTraced` rests on
  `CacheInv` (a cached value is one the chain had) and `PageInv` (what travels in an answer was
  read; the cards, and the figures a change of tier would put on them again, follow from it or are
  those of a page that has read nothing); `AnswersSeen` goes through the routes once, for every set
  of reads that may fail.  It says where the figures come from and not that they are current.
  `DepositsAreKept` rests on `StoreInv`: tables in memory and in a file that can be read are
  `WellKept` (history and portfolio agree), a process that runs covers what was acknowledged, and
  so does what the next one will load, unless the last write failed.  It is stated about what is
  loaded and not about the file, because a process that found a torn file runs on with empty
  tables while the file stays torn.  `NewestCounted`, `OldestDropped` and `RecentContinues` say what
  a deposit does to the sum of a history that moves by one and is cut at its cap.

Every invariant, every action property and the refinement that the runs check are theorems.
Only model-checked: the liveness properties `EveryCycleEnds`, `ShowsTheChainAgain` and
`ButtonsComeBack`, which need fairness and ENABLED and are out of the provers' reach.

What the theorems assume are the named assumptions of the modules (`StoreAssumption`,
`KeeperAssumption`, `ControlLoopAssumption`, ...), which the runs evaluate, and `NoPhoenix` where it is
written in the theorem.  An assumption types a constant or states what the code's configuration
fixes: `KeeperAssumption` types the targets and thresholds of the keeper, `KeeperInputAssumption`
the states and metrics a caller may hand it, whose amounts are naturals.

Induction over data is out of reach as a rule of inference; where it was needed a definition was
written so that it can be avoided: sums and powers are cardinalities, the tree is a recursive function
on levels, and the argument by least counterexample (`LeastNatural`) does the rest.

## 5. Documents and code

* **Phoenix yield** (`phoenix_solvency`).  `README.md:94` promises R >= S x P and
  `vault/src/lib.rs:195` comments that the strategy transfers funds back.  Phoenix's
  `withdraw` transfers only if its token balance suffices and reports the full amount
  anyway (`phoenix_adapter/src/lib.rs:119-126`), so fees accrued in its books become
  idle assets nobody holds.
* **Reserve floor** (`reserve_floor`).  `docs/INVARIANT_SPECIFICATION.md:50` says the smart
  account rejects allocations that leave less than 15% idle; on chain only
  `idle >= amount` is checked.
* **Veto share** (`veto_share`).  `docs/SECURITY_AUDIT_DOSSIER.md:138-142` says a proposal
  whose vetoes reach the share is blocked for ever; the share is looked at only while a veto
  is cast, and against a fixed amount before any vote.

* **One-time seal** (`seal_once`).  `docs/INVARIANT_SPECIFICATION.md:89` says the seal can be
  tripped once per deployment and `gate_seal/src/lib.rs:52` calls it one-time use; `unseal`
  clears the flag that `seal` tests, so until its expiry the committee can seal again.

Seen while reading and not stated as runs.  *Contracts:* the queue is called FIFO but nothing
orders it; `quorum_bps` is stored and never read; the haircut that applies is the one in force
when the owner claims, not when the request was finalized; the oracle's tenth is documented per
ledger (`oracle/src/lib.rs:195`, `docs/SECURITY_AUDIT_DOSSIER.md:128`) and enforced per update,
and `docs/ORACLE_SPEC.md:61` speaks of a clamp of 1% per ledger that no code has; a nav below 10
can never move again; no contract reads the seal, and the sentinel's own flag is never cleared;
`route_fee` restarts the management fee's accrual whichever fee it routes.

*Control loop:* the protocol state of the daemon is a constant that nothing refreshes; the daily
cap is one per life of a process; a hash is returned as confirmed when polling gave up and when
the status was neither PENDING nor ERROR; both MEV scans can never fire, and a query costs
1,000,000 stroops (`100_0000n`) where one may cost 100,000; the health factor the liquidation
watcher compares is a constant; `daemon_state.json`, which a cycle writes, is read by nobody.

*Server:* some reads failing while others do not throws in `/api/telemetry`, and a malformed
address in GET `/api/v1/user/profile`, and each ends the process; `/api/submit-tx` answers ok on
the status ERROR; the breaker is shown unsealed when the read of the seal fails; the list of
proposals is empty when one read of it fails; `readTokenBalance` turns a failure into 0, so its
503 cannot occur; tickets read fields `ready` and `amount` which the contract's struct lacks;
`/api/trigger-cycle` answers before its cycle has done anything; the liabilities of the solvency
report are always empty; the social feed and the telegram answers are seeded constants; every
address is ranked first by points; a market that does not move has an RSI of 100 and is to be
sold; a configured x402 query always fails, because the client exports no such function.

*Store:* a deposit that is sent again is counted again, a negative amount lowers the portfolio,
and after a refused amount the portfolio in memory is empty until a restart.

*Page:* a disconnect leaves the balances, and balances asked for before it are taken over after
it; a stake is limited by the balance last fetched; the payout to a bank lowers only the balance
shown; the inclusion check calls every failure of the report no failure; without a wallet the
buttons for the maximum enter 1250 and 450; the cards show no assets, no reserve and a NAV of
0.0010 from the start of the script (before it, the fixed figures of `app.html:477-491`) until
telemetry arrives, and for as long as it fails; every later NAV is over the 1000 virtual shares
alone, whatever the telemetry says of shares and nav; the rollup overwrites telemetry that
arrives within its 1.2 seconds until the next poll; the unit of the cards follows the chosen tier
while the figures stay those of the one vault; the badge is nominal at the start and when the seal
could not be read, and follows the file after a cycle; a balance that could not be read shows
as 0, and its points as those of a holding of 0; votes cast on the page are never sent, as the
helper they call first is out of scope there; the wrap button reports a transaction it does not make.

## 6. What is not modelled

* *Storage TTLs* (rent): an entry that expires can be restored by anyone; allowances, which
  are temporary entries, could vanish early.
* *Initialisation and wiring*: constructors run once before anybody calls; `set_vault` of
  token and registry and the allowance calls are written in their modules and join a
  specification in the plan below.  `harvest` and `recenter_ticks` admit only the vault
  and no vault call reaches them.
* *Metadata and views*: names, decimals, `calculate_management_fee`, telemetry formats.
* *Factory*: a counter and the host's deployer.
* *Widths*: `i128` and `bigint` amounts are unbounded naturals; floats of the agents and of the
  server are integers of a scale at which they are exact.
* *What nothing calls*: portfolio rules, vault tiers, the reputation and rationale records,
  `recordManualApproval`, `validateSession`, `revokeSession`, the loyalty table, several readers of the
  contract reader, the SDK client.  There is no behaviour of the system to state a property of.
* *Cryptography*: Ed25519 is a check that accepts the signature of the address over the challenge,
  SHA-256 an injective constructor.
* *Clocks*: the verifier (`policy_verifier.ts:103`) and the audit log (`audit_logger.ts:10`) read
  the clock one after the other in one callback; `ControlLoop` has one `day` for both.  Between the
  two reads lie microseconds; at the midnight in between, a proposal counts for the day before and
  is logged in the next.
* *Text and transport*: the social bots, the telegram routes, the x402 gateway, static files,
  the animations but the rollup (and its rerun when the preference for reduced motion is toggled),
  calculators, the preview of a conversion, charts, the old vault form whose elements no page has, scripts, and the
  Python agents (floating-point scores and prompts).
* *More than one tab, more than one server*: the page's requests are one user's, and the state file
  belongs to one process.

## 7. Plan

Done, in this order: the capital core with its proofs; governance with its proofs; the
withdrawal queue with its abstract specification, and the proof of that refinement; streamer
and fee controller with their proofs; the safeguards with their proofs; the control loop with its proofs and the liveness of its cycles; the web
application with its proofs and the liveness of the page.

Next, most important first:

1. An abstract tokenized vault (assets, shares, no strategies) that `HikariSystem`
   implements, as a PROPERTY and then as a theorem.
2. The control loop over the whole capital core instead of its policy account: a proposal that was
   approved on a stale state and lands in the vault.
3. Token allowances, re-binding of vaults, adapter harvests in a specification of their own
   components.

Each step brings its instance and its configuration; bounds follow the rule of section 3:
the smallest values at which every guard of the code can be true and false.
