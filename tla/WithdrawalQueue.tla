---- MODULE WithdrawalQueue ----
(***************************************************************************)
(* contracts/withdrawal_queue: redemption requests that the vault records  *)
(* and finalizes and that their owners claim after a cooldown, or cancel   *)
(* while they are not final.  The queue holds no tokens: a claim returns   *)
(* the payout, a cancellation the shares, and forgets the request.         *)
(***************************************************************************)
EXTENDS Ledger, Sequences, Functions

CONSTANTS
    MaxRequests,    \* bound: requests recorded
    Users,          \* owners of requests
    QueueVaults,    \* addresses the queue may be bound to
    QueueVault,     \* the vault it is bound to first
    Shares,         \* bound: shares of one request
    Claimables,     \* bound: assets the vault finalizes a request with
    Cooldowns,      \* bound: cooldowns and extra cooldowns the admin sets
    Haircuts,       \* bound: haircuts the admin asks for, in bps
    BatchLengths    \* bound: how many ids are claimed in one call

ASSUME QueueAssumption ==
    /\ MaxRequests \in Nat
    /\ QueueVault \in QueueVaults
    /\ Shares \subseteq Nat
    /\ Claimables \subseteq Nat
    /\ Cooldowns \subseteq Nat /\ 0 \in Cooldowns
    /\ Haircuts \subseteq Nat
    /\ BatchLengths \subseteq Nat

VARIABLES
    queueVault,     \* DataKey::Vault
    nextRequestId,  \* DataKey::NextRequestId
    request,        \* DataKey::Request(id), a function on the ids present
    bunker,         \* DataKey::Mode = Bunker
    haircutBps,     \* DataKey::HaircutBps
    extraCooldown,  \* DataKey::BunkerExtraCooldown
    cooldown,       \* DataKey::CooldownLedgers
    returned        \* history: what a claim or a cancellation returned, by id

modeVars == <<bunker, haircutBps, extraCooldown>>
queueVars == <<seq, queueVault, nextRequestId, request, modeVars, cooldown, returned>>

RequestIds == 1..MaxRequests
MaxHaircutBps == 5000

QueueInit ==
    /\ LedgerInit
    /\ queueVault = QueueVault
    /\ nextRequestId = 1
    /\ request = << >>
    /\ bunker = FALSE
    /\ haircutBps = 0
    /\ extraCooldown = 0
    /\ cooldown \in Cooldowns
    /\ returned = << >>

SetQueueVault(vault) ==
    /\ queueVault' = vault
    /\ UNCHANGED <<seq, nextRequestId, request, modeVars, cooldown, returned>>

SetCooldownLedgers(ledgers) ==
    /\ cooldown' = ledgers
    /\ UNCHANGED <<seq, queueVault, nextRequestId, request, modeVars, returned>>

EnterBunkerMode(haircut, extra) ==
    /\ haircut <= MaxHaircutBps
    /\ bunker' = TRUE
    /\ haircutBps' = haircut
    /\ extraCooldown' = extra
    /\ UNCHANGED <<seq, queueVault, nextRequestId, request, cooldown, returned>>

ExitBunkerMode ==
    /\ bunker' = FALSE
    /\ haircutBps' = 0
    /\ extraCooldown' = 0
    /\ UNCHANGED <<seq, queueVault, nextRequestId, request, cooldown, returned>>

(* The requests once one of them has been written.                         *)
Stored(id, entry) ==
    [i \in DOMAIN request \cup {id} |-> IF i = id THEN entry ELSE request[i]]

(* Wrong variant: the counter is not written back.                         *)
RequestWithdrawalStaleCounter(caller, user, shares) ==
    /\ caller = queueVault
    /\ shares > 0
    /\ nextRequestId <= MaxRequests
    /\ request' = Stored(nextRequestId,
                         [user |-> user, shares |-> shares, requestLedger |-> seq,
                          finalized |-> FALSE, claimableAssets |-> 0])
    /\ UNCHANGED <<seq, queueVault, nextRequestId, modeVars, cooldown, returned>>

RequestWithdrawal(caller, user, shares) ==
    /\ caller = queueVault
    /\ shares > 0
    /\ nextRequestId <= MaxRequests
    /\ request' = Stored(nextRequestId,
                         [user |-> user, shares |-> shares, requestLedger |-> seq,
                          finalized |-> FALSE, claimableAssets |-> 0])
    /\ nextRequestId' = nextRequestId + 1
    /\ UNCHANGED <<seq, queueVault, modeVars, cooldown, returned>>

FinalizeWithdrawal(caller, id, claimable) ==
    /\ caller = queueVault
    /\ id \in DOMAIN request
    /\ ~request[id].finalized
    /\ request' = [request EXCEPT ![id].finalized = TRUE, ![id].claimableAssets = claimable]
    /\ UNCHANGED <<seq, queueVault, nextRequestId, modeVars, cooldown, returned>>

ExtraCooldown == IF bunker THEN extraCooldown ELSE 0

Payout(id) ==
    IF bunker THEN (request[id].claimableAssets * (10000 - haircutBps)) \div 10000
              ELSE request[id].claimableAssets

Claimable(user, id) ==
    /\ id \in DOMAIN request
    /\ request[id].user = user
    /\ request[id].finalized
    /\ seq >= request[id].requestLedger + cooldown + ExtraCooldown

(* Requests leave the queue with what the call returns for them.           *)
Close(ids, result(_)) ==
    /\ request' = Restrict(request, DOMAIN request \ ids)
    /\ returned' = [id \in DOMAIN returned \cup ids |->
                       IF id \in ids THEN result(id) ELSE returned[id]]
    /\ UNCHANGED <<seq, queueVault, nextRequestId, modeVars, cooldown>>

Paid(id) == [status |-> "paid", worth |-> Payout(id)]
Cancelled(id) == [status |-> "cancelled", worth |-> request[id].shares]

ClaimWithdrawal(user, id) ==
    /\ Claimable(user, id)
    /\ Close({id}, Paid)

(* Wrong variant: only the first id of the batch is looked at.             *)
ClaimBatchTrustingTail(user, ids) ==
    /\ ids # << >> => Claimable(user, ids[1])
    /\ Range(ids) \subseteq DOMAIN request
    /\ Close(Range(ids), Paid)

(* The claims of a batch run in order and any refusal undoes them all.  A  *)
(* list that repeats an id is refused: the second claim finds no request.  *)
ClaimBatch(user, ids) ==
    /\ IsInjective(ids)
    /\ \A id \in Range(ids) : Claimable(user, id)
    /\ Close(Range(ids), Paid)

(* Wrong variant: a finalized request can still be cancelled.              *)
CancelFinalized(user, id) ==
    /\ id \in DOMAIN request
    /\ request[id].user = user
    /\ Close({id}, Cancelled)

CancelWithdrawal(user, id) ==
    /\ id \in DOMAIN request
    /\ request[id].user = user
    /\ ~request[id].finalized
    /\ Close({id}, Cancelled)

AdminNext ==
    \/ \E vault \in QueueVaults : SetQueueVault(vault)
    \/ \E ledgers \in Cooldowns : SetCooldownLedgers(ledgers)
    \/ \E haircut \in Haircuts, extra \in Cooldowns : EnterBunkerMode(haircut, extra)
    \/ ExitBunkerMode

VaultNext ==
    \E caller \in QueueVaults :
        \/ \E user \in Users, n \in Shares : RequestWithdrawal(caller, user, n)
        \/ \E id \in RequestIds, assets \in Claimables : FinalizeWithdrawal(caller, id, assets)

OwnerNext ==
    \E user \in Users :
        \/ \E id \in RequestIds : ClaimWithdrawal(user, id) \/ CancelWithdrawal(user, id)
        \/ \E n \in BatchLengths : \E ids \in [1..n -> RequestIds] : ClaimBatch(user, ids)

QueueLedgerNext ==
    /\ CloseLedger
    /\ UNCHANGED <<queueVault, nextRequestId, request, modeVars, cooldown, returned>>

Next == AdminNext \/ VaultNext \/ OwnerNext \/ QueueLedgerNext

Spec == QueueInit /\ [][Next]_queueVars

----
(* The queue's storage keeps its type, and every id is in one place only:  *)
(* waiting in the queue, answered, or not yet given out.                   *)
TypeOK ==
    /\ LedgerTypeOK
    /\ queueVault \in QueueVaults
    /\ nextRequestId \in 1..(MaxRequests + 1)
    /\ bunker \in BOOLEAN
    /\ haircutBps \in 0..MaxHaircutBps
    /\ extraCooldown \in Nat
    /\ cooldown \in Nat
    /\ request \in [DOMAIN request -> [user : Users, shares : Nat, requestLedger : 0..seq,
                                       finalized : BOOLEAN, claimableAssets : Nat]]
    /\ returned \in [DOMAIN returned -> [status : {"paid", "cancelled"}, worth : Nat]]
    /\ DOMAIN request \cap DOMAIN returned = {}
    /\ DOMAIN request \cup DOMAIN returned = 1..(nextRequestId - 1)

(* However claims are batched, every request paid in one call is final,    *)
(* past its cooldown and owned by the one user who claims.                 *)
OnlyRipeOwnClaims ==
    [][LET paid == {id \in DOMAIN returned' \ DOMAIN returned : returned'[id].status = "paid"}
       IN  paid = {} \/ \E user \in Users :
               \A id \in paid :
                   /\ request[id].finalized
                   /\ request[id].user = user
                   /\ request[id].requestLedger + cooldown + ExtraCooldown <= seq]_queueVars

(* The queue seen from outside: each id is a ticket that is redeemed or    *)
(* cancelled at most once, in full or cut by at most half.                 *)
NoTicket == [status |-> "none", worth |-> 0]

TicketOf(id) ==
    IF id \in DOMAIN returned THEN returned[id]
    ELSE IF id \notin DOMAIN request THEN NoTicket
    ELSE IF request[id].finalized
      THEN [status |-> "granted", worth |-> request[id].claimableAssets]
      ELSE [status |-> "open", worth |-> request[id].shares]

Tickets == INSTANCE RedemptionTickets
    WITH TicketIds <- RequestIds, ticket <- [id \in RequestIds |-> TicketOf(id)]

(* The withdrawal queue implements RedemptionTickets.                      *)
TicketsAreHonoured == Tickets!Spec
====
