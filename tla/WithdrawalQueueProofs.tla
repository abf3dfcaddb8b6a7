---- MODULE WithdrawalQueueProofs ----
(***************************************************************************)
(* WithdrawalQueue.tla proved for every number of requests, any owners and *)
(* vaults, and any cooldowns and haircuts: the types of its storage, who   *)
(* may be paid when, and that the queue implements RedemptionTickets.      *)
(***************************************************************************)
EXTENDS WithdrawalQueue, ArithmeticProofs

Request == [user : Users, shares : Nat, requestLedger : 0..seq,
            finalized : BOOLEAN, claimableAssets : Nat]

Result == [status : {"paid", "cancelled"}, worth : Nat]

(* What the type invariant says, one fact at a time.                       *)
LEMMA QueueFacts ==
    ASSUME TypeOK
    PROVE  /\ seq \in Nat
           /\ nextRequestId \in 1..(MaxRequests + 1)
           /\ haircutBps \in 0..MaxHaircutBps
           /\ extraCooldown \in Nat /\ cooldown \in Nat /\ bunker \in BOOLEAN
           /\ request \in [DOMAIN request -> Request]
           /\ returned \in [DOMAIN returned -> Result]
           /\ DOMAIN request \cap DOMAIN returned = {}
           /\ DOMAIN request \cup DOMAIN returned = 1..(nextRequestId - 1)
           /\ nextRequestId \notin DOMAIN request \cup DOMAIN returned
           /\ DOMAIN request \subseteq RequestIds /\ DOMAIN returned \subseteq RequestIds
<1>1. DOMAIN request \cup DOMAIN returned = 1..(nextRequestId - 1)
  BY DEF TypeOK
<1>2. nextRequestId \in 1..(MaxRequests + 1) /\ MaxRequests \in Nat
  BY QueueAssumption DEF TypeOK
<1>3. 1..(nextRequestId - 1) \subseteq RequestIds /\ nextRequestId \notin 1..(nextRequestId - 1)
  BY <1>2 DEF RequestIds
<1> QED
  BY <1>1, <1>2, <1>3 DEF TypeOK, LedgerTypeOK, Request, Result

(* A payout is what the vault granted, in full or cut by at most half.     *)
LEMMA PayoutIsCut ==
    ASSUME TypeOK, NEW id \in DOMAIN request
    PROVE  /\ Payout(id) \in 0..request[id].claimableAssets
           /\ 2 * Payout(id) >= request[id].claimableAssets - 1
<1> DEFINE c == request[id].claimableAssets
           k == 10000 - haircutBps
           q == (c * k) \div 10000
<1>1. c \in Nat /\ k \in 5000..10000
  <2>1. request[id] \in Request
    BY QueueFacts
  <2>2. haircutBps \in 0..5000
    BY QueueFacts DEF MaxHaircutBps
  <2>3. c \in Nat
    BY <2>1 DEF Request
  <2>4. k \in 5000..10000
    BY <2>2
  <2> QED
    BY <2>3, <2>4
<1>2. Payout(id) = IF bunker THEN q ELSE c
  BY DEF Payout
<1> HIDE DEF c, k
<1>3. q \in 0..c /\ 2 * q >= c - 1
  <2>1. c * k \in Nat
    BY <1>1, Z3
  <2>2. c * k <= c * 10000 /\ c * 5000 <= c * k
    BY <1>1, Z3
  <2> DEFINE p == c * k
  <2>3. q \in Nat /\ q * 10000 <= p /\ p < (q + 1) * 10000
    BY <2>1, DivFloor
  <2> HIDE DEF p, q
  <2>4. p \in Nat /\ p <= c * 10000 /\ c * 5000 <= p
    BY <2>1, <2>2 DEF p
  <2> QED
    BY <1>1, <2>3, <2>4
<1> QED
  BY <1>1, <1>2, <1>3 DEF c

(* Nothing is waiting, nothing has been returned.                          *)
LEMMA InitTypeOK == QueueInit => TypeOK
<1> SUFFICES ASSUME QueueInit PROVE TypeOK
  OBVIOUS
<1>1. /\ seq = 0 /\ queueVault = QueueVault /\ nextRequestId = 1
      /\ request = << >> /\ returned = << >>
      /\ bunker = FALSE /\ haircutBps = 0 /\ extraCooldown = 0 /\ cooldown \in Cooldowns
  BY DEF QueueInit, LedgerInit
<1>2. DOMAIN request = {} /\ DOMAIN returned = {}
  BY <1>1
<1>3. request \in [DOMAIN request -> Request] /\ returned \in [DOMAIN returned -> Result]
  BY <1>1, <1>2
<1>4. nextRequestId \in 1..(MaxRequests + 1) /\ 1..(nextRequestId - 1) = {}
  BY <1>1, QueueAssumption
<1>5. seq \in Nat /\ haircutBps \in 0..MaxHaircutBps /\ extraCooldown \in Nat
  BY <1>1 DEF MaxHaircutBps
<1>6. bunker \in BOOLEAN /\ queueVault \in QueueVaults /\ cooldown \in Nat
  BY <1>1, QueueAssumption, Zenon
<1>7. DOMAIN request \cap DOMAIN returned = {}
  BY <1>2
<1>8. DOMAIN request \cup DOMAIN returned = 1..(nextRequestId - 1)
  BY <1>2, <1>4
<1> QED
  BY <1>3, <1>4, <1>5, <1>6, <1>7, <1>8, Zenon DEF TypeOK, LedgerTypeOK, Request, Result

(* The admin's calls change the terms and no request.                      *)
LEMMA AdminStep == TypeOK /\ AdminNext => TypeOK' /\ UNCHANGED <<seq, nextRequestId, request, returned>>
<1> SUFFICES ASSUME TypeOK, AdminNext
             PROVE  TypeOK' /\ UNCHANGED <<seq, nextRequestId, request, returned>>
  OBVIOUS
<1>1. /\ UNCHANGED <<seq, nextRequestId, request, returned>>
      /\ queueVault' \in QueueVaults
      /\ bunker' \in BOOLEAN /\ haircutBps' \in 0..MaxHaircutBps
      /\ extraCooldown' \in Nat /\ cooldown' \in Nat
  <2>1. CASE \E v \in QueueVaults : SetQueueVault(v)
    BY <2>1 DEF TypeOK, SetQueueVault, modeVars
  <2>2. CASE \E n \in Cooldowns : SetCooldownLedgers(n)
    BY <2>2, QueueAssumption DEF TypeOK, SetCooldownLedgers, modeVars
  <2>3. ASSUME NEW h \in Haircuts, NEW x \in Cooldowns, EnterBunkerMode(h, x)
        PROVE  <1>1!:
    <3>1. bunker' = TRUE /\ queueVault' = queueVault /\ cooldown' = cooldown
          /\ UNCHANGED <<seq, nextRequestId, request, returned>>
      BY <2>3 DEF EnterBunkerMode
    <3>2. haircutBps' \in 0..MaxHaircutBps /\ extraCooldown' \in Nat
      BY <2>3, QueueAssumption DEF EnterBunkerMode, MaxHaircutBps
    <3> QED
      BY <3>1, <3>2, Zenon DEF TypeOK
  <2>4. CASE ExitBunkerMode
    <3>1. bunker' = FALSE /\ queueVault' = queueVault /\ cooldown' = cooldown
          /\ UNCHANGED <<seq, nextRequestId, request, returned>>
      BY <2>4 DEF ExitBunkerMode
    <3>2. haircutBps' \in 0..MaxHaircutBps /\ extraCooldown' \in Nat
      BY <2>4 DEF ExitBunkerMode, MaxHaircutBps
    <3> QED
      BY <3>1, <3>2, Zenon DEF TypeOK
  <2> QED
    BY <2>1, <2>2, <2>3, <2>4 DEF AdminNext
<1> QED
  BY <1>1 DEF TypeOK, LedgerTypeOK
(* A request takes the next id, which no other request or answer has.      *)
LEMMA RequestStep ==
    ASSUME TypeOK, NEW caller \in QueueVaults, NEW user \in Users, NEW n \in Shares,
           RequestWithdrawal(caller, user, n)
    PROVE  /\ TypeOK' /\ UNCHANGED <<seq, returned>>
           /\ nextRequestId \in RequestIds
           /\ DOMAIN request' = DOMAIN request \cup {nextRequestId}
           /\ \A id \in DOMAIN request : request'[id] = request[id]
           /\ ~request'[nextRequestId].finalized
           /\ request'[nextRequestId].shares > 0
<1> DEFINE new == [user |-> user, shares |-> n, requestLedger |-> seq,
                   finalized |-> FALSE, claimableAssets |-> 0]
           S == DOMAIN request
           m == nextRequestId
<1>1. n \in Nat \ {0} /\ m \in RequestIds /\ m \in Nat /\ MaxRequests \in Nat
  BY QueueFacts, QueueAssumption DEF RequestWithdrawal, RequestIds
<1>2. /\ request' = [i \in S \cup {m} |-> IF i = m THEN new ELSE request[i]]
      /\ nextRequestId' = m + 1
      /\ UNCHANGED <<seq, queueVault, bunker, haircutBps, extraCooldown, cooldown, returned>>
  BY DEF RequestWithdrawal, Stored, modeVars
<1>3. new \in Request
  BY <1>1, QueueFacts DEF Request
<1>4. new.finalized = FALSE /\ new.shares = n
  OBVIOUS
<1> HIDE DEF new
<1>5. m \notin S /\ m \notin DOMAIN returned /\ S \cup DOMAIN returned = 1..(m - 1)
      /\ S \cap DOMAIN returned = {}
      /\ request \in [S -> Request] /\ returned \in [DOMAIN returned -> Result]
  BY QueueFacts
<1>6. /\ DOMAIN request' = S \cup {m} /\ request'[m] = new
      /\ \A id \in S : request'[id] = request[id]
  BY <1>2, <1>5
<1>7. request' \in [DOMAIN request' -> Request]
  BY <1>2, <1>3, <1>5
<1>8. DOMAIN request' \cap DOMAIN returned' = {}
  BY <1>2, <1>5, <1>6
<1>9. DOMAIN request' \cup DOMAIN returned' = 1..(nextRequestId' - 1)
  <2>1. DOMAIN request' \cup DOMAIN returned' = (1..(m - 1)) \cup {m}
    BY <1>2, <1>5, <1>6
  <2>2. (1..(m - 1)) \cup {m} = 1..((m + 1) - 1)
    BY <1>1, QueueFacts DEF RequestIds
  <2> QED
    BY <1>2, <2>1, <2>2
<1>10. nextRequestId' \in 1..(MaxRequests + 1)
  BY <1>1, <1>2 DEF RequestIds
<1>11. Request' = Request /\ Result' = Result
  BY <1>2 DEF Request, Result
<1>12. TypeOK'
  BY <1>2, <1>5, <1>7, <1>8, <1>9, <1>10, <1>11, Zenon DEF TypeOK, LedgerTypeOK, Request, Result
<1> QED
  BY <1>1, <1>2, <1>4, <1>6, <1>12

(* Finalizing sets one request's amount and leaves its owner and its age.  *)
LEMMA FinalizeStep ==
    ASSUME TypeOK, NEW caller \in QueueVaults, NEW id \in RequestIds, NEW assets \in Claimables,
           FinalizeWithdrawal(caller, id, assets)
    PROVE  /\ TypeOK' /\ UNCHANGED <<seq, returned>>
           /\ id \in DOMAIN request /\ ~request[id].finalized
           /\ DOMAIN request' = DOMAIN request
           /\ \A i \in DOMAIN request \ {id} : request'[i] = request[i]
           /\ request'[id].finalized
<1> DEFINE S == DOMAIN request
           final == [request[id] EXCEPT !.finalized = TRUE, !.claimableAssets = assets]
<1>1. id \in S /\ ~request[id].finalized /\ assets \in Nat
  BY QueueAssumption DEF FinalizeWithdrawal
<1>2. request \in [S -> Request] /\ request[id] \in Request
  BY <1>1, QueueFacts
<1>3. request' = [request EXCEPT ![id] = final]
  BY <1>1, <1>2 DEF FinalizeWithdrawal
<1>4. final \in Request /\ final.finalized
  BY <1>1, <1>2 DEF Request
<1> HIDE DEF final
<1>5. /\ request' \in [S -> Request] /\ DOMAIN request' = S
      /\ request'[id] = final
      /\ \A i \in S \ {id} : request'[i] = request[i]
  BY <1>1, <1>2, <1>3, <1>4
<1>6. UNCHANGED <<seq, queueVault, nextRequestId, bunker, haircutBps, extraCooldown, cooldown, returned>>
  BY DEF FinalizeWithdrawal, modeVars
<1>7. Request' = Request
  BY <1>6 DEF Request
<1>8. TypeOK'
  BY <1>5, <1>6, <1>7, Zenon DEF TypeOK, LedgerTypeOK, Request
<1> QED
  BY <1>1, <1>4, <1>5, <1>6, <1>8

(* Closing moves ids from the queue to the answers, with their results.    *)
LEMMA CloseStep ==
    ASSUME TypeOK, NEW ids \in SUBSET DOMAIN request, NEW r \in [ids -> Result],
           request' = Restrict(request, DOMAIN request \ ids),
           returned' = [id \in DOMAIN returned \cup ids |->
                           IF id \in ids THEN r[id] ELSE returned[id]],
           UNCHANGED <<seq, queueVault, nextRequestId, modeVars, cooldown>>
    PROVE  /\ TypeOK'
           /\ DOMAIN request' = DOMAIN request \ ids
           /\ DOMAIN returned' = DOMAIN returned \cup ids
           /\ \A id \in DOMAIN request' : request'[id] = request[id]
           /\ \A id \in ids : returned'[id] = r[id]
           /\ \A id \in DOMAIN returned : returned'[id] = returned[id]
<1> DEFINE S == DOMAIN request
           R == DOMAIN returned
<1>1. /\ request \in [S -> Request] /\ returned \in [R -> Result]
      /\ S \cap R = {} /\ S \cup R = 1..(nextRequestId - 1)
  BY QueueFacts
<1>2. request' = [id \in S \ ids |-> request[id]]
  BY DEF Restrict
<1>3. /\ DOMAIN request' = S \ ids
      /\ \A id \in S \ ids : request'[id] = request[id]
  BY <1>2
<1>4. request' \in [DOMAIN request' -> Request]
  BY <1>1, <1>2
<1>5. /\ DOMAIN returned' = R \cup ids
      /\ \A id \in ids : returned'[id] = r[id]
      /\ \A id \in R : returned'[id] = returned[id]
  BY <1>1
<1>6. returned' \in [DOMAIN returned' -> Result]
  BY <1>1
<1>7. DOMAIN request' \cap DOMAIN returned' = {}
  BY <1>1, <1>3, <1>5
<1>8. DOMAIN request' \cup DOMAIN returned' = 1..(nextRequestId - 1)
  BY <1>1, <1>3, <1>5
<1>9. UNCHANGED <<seq, queueVault, nextRequestId, bunker, haircutBps, extraCooldown, cooldown>>
  BY DEF modeVars
<1>10. Request' = Request
  BY <1>9 DEF Request
<1>11. TypeOK'
  BY <1>4, <1>6, <1>7, <1>8, <1>9, <1>10, Zenon DEF TypeOK, LedgerTypeOK, Request, Result
<1> QED
  BY <1>3, <1>5, <1>11
(* A claim, of one id or of a batch: every id of it may be claimed by the  *)
(* caller, and is paid.                                                    *)
Claimed(user, ids) ==
    /\ ids \subseteq DOMAIN request
    /\ \A id \in ids : Claimable(user, id)
    /\ Close(ids, Paid)

LEMMA ClaimsClose ==
    ASSUME TypeOK, NEW user \in Users,
           \/ \E id \in RequestIds : ClaimWithdrawal(user, id)
           \/ \E n \in BatchLengths : \E ids \in [1..n -> RequestIds] : ClaimBatch(user, ids)
    PROVE  \E ids : Claimed(user, ids)
<1>1. ASSUME NEW id \in RequestIds, ClaimWithdrawal(user, id)
      PROVE  Claimed(user, {id})
  BY <1>1 DEF ClaimWithdrawal, Claimed, Claimable
<1>2. ASSUME NEW n \in BatchLengths, NEW ids \in [1..n -> RequestIds], ClaimBatch(user, ids)
      PROVE  Claimed(user, Range(ids))
  BY <1>2 DEF ClaimBatch, Claimed, Claimable
<1> QED
  BY <1>1, <1>2

(* What a claim leaves behind.                                             *)
LEMMA ClaimStep ==
    ASSUME TypeOK, NEW user \in Users, NEW ids, Claimed(user, ids)
    PROVE  /\ TypeOK'
           /\ ids \subseteq DOMAIN request
           /\ DOMAIN request' = DOMAIN request \ ids
           /\ DOMAIN returned' = DOMAIN returned \cup ids
           /\ \A id \in DOMAIN request' : request'[id] = request[id]
           /\ \A id \in ids : returned'[id] = Paid(id)
           /\ \A id \in DOMAIN returned : returned'[id] = returned[id]
<1> DEFINE r == [id \in ids |-> Paid(id)]
<1>1. ids \in SUBSET DOMAIN request
  BY DEF Claimed
<1>2. r \in [ids -> Result]
  <2> SUFFICES ASSUME NEW id \in ids PROVE Paid(id) \in Result
    OBVIOUS
  <2>1. Payout(id) \in Nat
    <3>1. Payout(id) \in 0..request[id].claimableAssets /\ request[id] \in Request
      BY <1>1, PayoutIsCut, QueueFacts
    <3> QED
      BY <3>1 DEF Request
  <2> QED
    BY <2>1 DEF Paid, Result
<1>3. /\ request' = Restrict(request, DOMAIN request \ ids)
      /\ returned' = [id \in DOMAIN returned \cup ids |->
                          IF id \in ids THEN r[id] ELSE returned[id]]
      /\ UNCHANGED <<seq, queueVault, nextRequestId, modeVars, cooldown>>
  BY DEF Claimed, Close
<1>4. \A id \in ids : r[id] = Paid(id)
  OBVIOUS
<1> HIDE DEF r
<1> QED
  BY <1>1, <1>2, <1>3, <1>4, CloseStep

(* What a cancellation leaves behind.                                      *)
LEMMA CancelStep ==
    ASSUME TypeOK, NEW user \in Users, NEW id \in RequestIds, CancelWithdrawal(user, id)
    PROVE  /\ TypeOK'
           /\ id \in DOMAIN request /\ ~request[id].finalized
           /\ DOMAIN request' = DOMAIN request \ {id}
           /\ DOMAIN returned' = DOMAIN returned \cup {id}
           /\ \A i \in DOMAIN request' : request'[i] = request[i]
           /\ returned'[id] = Cancelled(id)
           /\ \A i \in DOMAIN returned : returned'[i] = returned[i]
<1> DEFINE r == [i \in {id} |-> Cancelled(i)]
<1>1. {id} \in SUBSET DOMAIN request /\ ~request[id].finalized
  BY DEF CancelWithdrawal
<1>2. r \in [{id} -> Result]
  <2>1. request[id] \in Request
    BY <1>1, QueueFacts
  <2> QED
    BY <2>1 DEF Cancelled, Result, Request
<1>3. /\ request' = Restrict(request, DOMAIN request \ {id})
      /\ returned' = [i \in DOMAIN returned \cup {id} |->
                          IF i \in {id} THEN r[i] ELSE returned[i]]
      /\ UNCHANGED <<seq, queueVault, nextRequestId, modeVars, cooldown>>
  BY DEF CancelWithdrawal, Close
<1>4. r[id] = Cancelled(id)
  OBVIOUS
<1> HIDE DEF r
<1> QED
  BY <1>1, <1>2, <1>3, <1>4, CloseStep

(* Time passes, and what was a past ledger stays one.                      *)
LEMMA LedgerStep == TypeOK /\ QueueLedgerNext => TypeOK' /\ UNCHANGED <<request, returned>>
<1> SUFFICES ASSUME TypeOK, QueueLedgerNext PROVE TypeOK' /\ UNCHANGED <<request, returned>>
  OBVIOUS
<1>1. seq' \in Nat /\ 0..seq \subseteq 0..seq'
  BY QueueFacts DEF QueueLedgerNext, CloseLedger
<1>2. /\ UNCHANGED <<queueVault, nextRequestId, request, cooldown, returned>>
      /\ UNCHANGED <<bunker, haircutBps, extraCooldown>>
  BY DEF QueueLedgerNext, modeVars
<1>3. request \in [DOMAIN request -> Request']
  <2>1. Request \subseteq Request'
    BY <1>1 DEF Request
  <2> QED
    BY <2>1, QueueFacts
<1> QED
  BY <1>1, <1>2, <1>3, Zenon DEF TypeOK, LedgerTypeOK, Request

(* The five things a step of the queue can be.                             *)
LEMMA NextCases ==
    ASSUME TypeOK, [Next]_queueVars
    PROVE  \/ UNCHANGED <<request, returned>> /\ TypeOK'
           \/ \E caller \in QueueVaults, user \in Users, n \in Shares : RequestWithdrawal(caller, user, n)
           \/ \E caller \in QueueVaults, id \in RequestIds, assets \in Claimables :
                 FinalizeWithdrawal(caller, id, assets)
           \/ \E user \in Users : \E ids : Claimed(user, ids)
           \/ \E user \in Users, id \in RequestIds : CancelWithdrawal(user, id)
<1>1. CASE AdminNext
  BY <1>1, AdminStep
<1>2. CASE VaultNext
  BY <1>2 DEF VaultNext
<1>3. CASE OwnerNext
  BY <1>3, ClaimsClose DEF OwnerNext
<1>4. CASE QueueLedgerNext
  BY <1>4, LedgerStep
<1>5. CASE UNCHANGED queueVars
  <2>1. UNCHANGED <<seq, queueVault, nextRequestId, request, bunker, haircutBps, extraCooldown, cooldown, returned>>
    BY <1>5 DEF queueVars, modeVars
  <2> QED
    BY <2>1, Zenon DEF TypeOK, LedgerTypeOK
<1> QED
  BY <1>1, <1>2, <1>3, <1>4, <1>5 DEF Next

LEMMA NextTypeOK == TypeOK /\ [Next]_queueVars => TypeOK'
  BY NextCases, RequestStep, FinalizeStep, ClaimStep, CancelStep

(* Every id is in one place only: waiting in the queue, answered, or not   *)
(* yet given out; no call of contracts/withdrawal_queue loses one.         *)
THEOREM TypeCorrect == Spec => []TypeOK
  BY InitTypeOK, NextTypeOK, PTL DEF Spec

(* internal_claim pays only final requests of the one caller, each past    *)
(* its cooldown in force, however they are batched.                        *)
THEOREM OnlyOwnersAreServed == Spec => OnlyRipeOwnClaims
<1> DEFINE paid == {id \in DOMAIN returned' \ DOMAIN returned : returned'[id].status = "paid"}
           Served ==
             paid = {} \/ \E user \in Users :
               \A id \in paid :
                   /\ request[id].finalized
                   /\ request[id].user = user
                   /\ request[id].requestLedger + cooldown + ExtraCooldown <= seq
<1>1. ASSUME TypeOK, [Next]_queueVars PROVE Served
  <2>1. CASE UNCHANGED <<request, returned>>
    BY <2>1
  <2>2. ASSUME NEW caller \in QueueVaults, NEW user \in Users, NEW n \in Shares,
               RequestWithdrawal(caller, user, n)
        PROVE  Served
    BY <1>1, <2>2, RequestStep
  <2>3. ASSUME NEW caller \in QueueVaults, NEW id \in RequestIds, NEW assets \in Claimables,
               FinalizeWithdrawal(caller, id, assets)
        PROVE  Served
    BY <1>1, <2>3, FinalizeStep
  <2>4. ASSUME NEW user \in Users, NEW ids, Claimed(user, ids)
        PROVE  Served
    <3>1. paid \subseteq ids
      BY <1>1, <2>4, ClaimStep
    <3>2. ASSUME NEW id \in ids
          PROVE  /\ request[id].finalized
                 /\ request[id].user = user
                 /\ request[id].requestLedger + cooldown + ExtraCooldown <= seq
      BY <2>4 DEF Claimed, Claimable
    <3> QED
      BY <3>1, <3>2
  <2>5. ASSUME NEW user \in Users, NEW id \in RequestIds, CancelWithdrawal(user, id)
        PROVE  Served
    <3>1. DOMAIN returned' = DOMAIN returned \cup {id} /\ returned'[id] = Cancelled(id)
      BY <1>1, <2>5, CancelStep
    <3>2. returned'[id].status = "cancelled"
      BY <3>1 DEF Cancelled
    <3>3. paid = {}
      BY <3>1, <3>2
    <3> QED
      BY <3>3
  <2> QED
    BY <1>1, <2>1, <2>2, <2>3, <2>4, <2>5, NextCases
<1>2. TypeOK /\ [Next]_queueVars => [Served]_queueVars
  BY <1>1
<1> QED
  BY <1>2, TypeCorrect, PTL DEF Spec, OnlyRipeOwnClaims
----
(* The refinement of RedemptionTickets                                     *)

(* An id whose entries in both tables stay as they are keeps its ticket.   *)
LEMMA SameTicket ==
    ASSUME NEW id,
           id \in DOMAIN returned <=> id \in DOMAIN returned',
           id \in DOMAIN returned => returned'[id] = returned[id],
           id \in DOMAIN request <=> id \in DOMAIN request',
           id \in DOMAIN request => request'[id] = request[id]
    PROVE  TicketOf(id)' = TicketOf(id)
  BY DEF TicketOf, NoTicket

(* Initially nothing has been issued.                                      *)
LEMMA InitTickets == QueueInit => Tickets!Init
<1> SUFFICES ASSUME QueueInit PROVE Tickets!Init
  OBVIOUS
<1>1. DOMAIN request = {} /\ DOMAIN returned = {}
  BY DEF QueueInit
<1>2. \A id \in RequestIds : TicketOf(id) = NoTicket
  BY <1>1 DEF TicketOf
<1> QED
  BY <1>2 DEF Tickets!Init, NoTicket

(* A request issues the ticket of its id.                                  *)
LEMMA RequestIssues ==
    ASSUME TypeOK, NEW caller \in QueueVaults, NEW user \in Users, NEW n \in Shares,
           RequestWithdrawal(caller, user, n)
    PROVE  Tickets!Next
<1> DEFINE m == nextRequestId
<1>1. /\ m \in RequestIds /\ m \notin DOMAIN request /\ m \notin DOMAIN returned
      /\ DOMAIN returned' = DOMAIN returned /\ m \in DOMAIN request'
      /\ ~request'[m].finalized /\ request'[m].shares > 0
  BY RequestStep, QueueFacts
<1>2. TicketOf(m) = NoTicket
  BY <1>1 DEF TicketOf
<1>3. PICK k : k = m
  OBVIOUS
<1>4. TicketOf(k)' = [status |-> "open", worth |-> request'[k].shares]
  BY <1>1, <1>3 DEF TicketOf
<1>5. Tickets!Issue(k)
  BY <1>1, <1>2, <1>3, <1>4 DEF Tickets!Issue, NoTicket
<1>6. \A id \in RequestIds \ {k} : TicketOf(id)' = TicketOf(id)
  BY <1>1, <1>3, SameTicket, RequestStep
<1> QED
  BY <1>1, <1>3, <1>5, <1>6 DEF Tickets!Next

(* Finalizing grants an open ticket.                                       *)
LEMMA FinalizeGrants ==
    ASSUME TypeOK, NEW caller \in QueueVaults, NEW k \in RequestIds, NEW assets \in Claimables,
           FinalizeWithdrawal(caller, k, assets)
    PROVE  Tickets!Next
<1>1. /\ k \in DOMAIN request /\ k \notin DOMAIN returned /\ ~request[k].finalized
      /\ DOMAIN request' = DOMAIN request /\ returned' = returned /\ request'[k].finalized
      /\ \A i \in DOMAIN request \ {k} : request'[i] = request[i]
  BY FinalizeStep, QueueFacts
<1>2. TicketOf(k).status = "open" /\ TicketOf(k)'.status = "granted"
  BY <1>1 DEF TicketOf
<1>3. Tickets!Grant(k)
  BY <1>2 DEF Tickets!Grant
<1>4. \A id \in RequestIds \ {k} : TicketOf(id)' = TicketOf(id)
  BY <1>1, SameTicket
<1> QED
  BY <1>3, <1>4 DEF Tickets!Next

(* A claim pays granted tickets together.                                  *)
LEMMA ClaimPays ==
    ASSUME TypeOK, NEW user \in Users, NEW ids, Claimed(user, ids)
    PROVE  Tickets!Next
<1>1. /\ ids \subseteq DOMAIN request /\ DOMAIN request \subseteq RequestIds
      /\ DOMAIN request \cap DOMAIN returned = {}
      /\ DOMAIN request' = DOMAIN request \ ids
      /\ DOMAIN returned' = DOMAIN returned \cup ids
      /\ \A id \in DOMAIN request' : request'[id] = request[id]
      /\ \A id \in ids : returned'[id] = Paid(id)
      /\ \A id \in DOMAIN returned : returned'[id] = returned[id]
  BY ClaimStep, QueueFacts
<1>2. ASSUME NEW id \in ids PROVE Tickets!Pay(id)
  <2>1. TicketOf(id) = [status |-> "granted", worth |-> request[id].claimableAssets]
    BY <1>1 DEF TicketOf, Claimed, Claimable
  <2>2. TicketOf(id)' = [status |-> "paid", worth |-> Payout(id)]
    BY <1>1 DEF TicketOf, Paid
  <2>3. Payout(id) <= request[id].claimableAssets /\ 2 * Payout(id) >= request[id].claimableAssets - 1
    <3>1. request[id] \in Request
      BY <1>1, QueueFacts
    <3> QED
      BY <1>1, <3>1, PayoutIsCut DEF Request
  <2> QED
    BY <1>1, <2>1, <2>2, <2>3 DEF Tickets!Pay
<1>3. \A id \in RequestIds \ ids : TicketOf(id)' = TicketOf(id)
  BY <1>1, SameTicket
<1> QED
  BY <1>1, <1>2, <1>3 DEF Tickets!Next

(* A cancellation gives back the shares of an open ticket.                 *)
LEMMA CancelCancels ==
    ASSUME TypeOK, NEW user \in Users, NEW k \in RequestIds, CancelWithdrawal(user, k)
    PROVE  Tickets!Next
<1>1. /\ k \in DOMAIN request /\ ~request[k].finalized
      /\ DOMAIN request \cap DOMAIN returned = {}
      /\ DOMAIN request' = DOMAIN request \ {k}
      /\ DOMAIN returned' = DOMAIN returned \cup {k}
      /\ \A i \in DOMAIN request' : request'[i] = request[i]
      /\ returned'[k] = Cancelled(k)
      /\ \A i \in DOMAIN returned : returned'[i] = returned[i]
  BY CancelStep, QueueFacts
<1>2. TicketOf(k) = [status |-> "open", worth |-> request[k].shares]
  BY <1>1 DEF TicketOf
<1>3. TicketOf(k)' = [status |-> "cancelled", worth |-> request[k].shares]
  BY <1>1 DEF TicketOf, Cancelled
<1>4. Tickets!Cancel(k)
  BY <1>2, <1>3 DEF Tickets!Cancel
<1>5. \A id \in RequestIds \ {k} : TicketOf(id)' = TicketOf(id)
  BY <1>1, SameTicket
<1> QED
  BY <1>4, <1>5 DEF Tickets!Next

(* Every step of the queue is a step of the tickets or leaves them alone.  *)
LEMMA NextTickets ==
    ASSUME TypeOK, [Next]_queueVars
    PROVE  [Tickets!Next]_([id \in RequestIds |-> TicketOf(id)])
<1>1. ASSUME UNCHANGED <<request, returned>>
      PROVE  UNCHANGED [id \in RequestIds |-> TicketOf(id)]
  <2>1. \A id \in RequestIds : TicketOf(id)' = TicketOf(id)
    BY <1>1, SameTicket
  <2> QED
    BY <2>1
<1> QED
  BY <1>1, NextCases, RequestIssues, FinalizeGrants, ClaimPays, CancelCancels

(* contracts/withdrawal_queue keeps the promise of RedemptionTickets: each *)
(* request is answered once, by its shares or by its payout.               *)
THEOREM QueueHonoursTickets == Spec => TicketsAreHonoured
<1>1. QueueInit => Tickets!Init
  BY InitTickets
<1>2. TypeOK /\ [Next]_queueVars => [Tickets!Next]_([id \in RequestIds |-> TicketOf(id)])
  BY NextTickets
<1> QED
  BY <1>1, <1>2, TypeCorrect, PTL DEF Spec, TicketsAreHonoured, Tickets!Spec
====
