---- MODULE IncentivesProofs ----
(***************************************************************************)
(* Incentives.tla proved for every set of payees, streams, amounts and     *)
(* durations: the pool of the streamer, the clock of its streams, and the  *)
(* high-water mark of the fee controller.                                  *)
(***************************************************************************)
EXTENDS Incentives, ArithmeticProofs

Stream == [vault : Payees, totalAmount : Nat, claimedAmount : Nat,
           startTime : 0..seq, duration : Nat \ {0}]

(* What the streams still owe, one by one.                                 *)
Owed == [i \in DOMAIN streams |-> streams[i].totalAmount - streams[i].claimedAmount]

(* The mark and the sum of the gains charged move together.  The bound on  *)
(* the gains does not see the mark and is not inductive without it.        *)
MarkIsCharged ==
    /\ chargedGain = highWaterMark - INITIAL_HWM
    /\ highWaterMark <= highestNav

IInv == TypeOK /\ StreamsBacked /\ ClaimedWithinUnlocked /\ MarkIsCharged

(* Nobody streams, and nothing is owed.                                    *)
LEMMA InitIInv == Init => IInv
<1> SUFFICES ASSUME Init PROVE IInv
  OBVIOUS
<1>1. seq = 0 /\ assetBal = InitialFunds /\ streams = << >>
  BY DEF Init, LedgerInit, AssetInit, StreamerInit
<1>2. StreamerTypeOK /\ AssetTypeOK /\ LedgerTypeOK /\ ClaimedWithinUnlocked
  BY <1>1, InitialFundsAssumption
  DEF StreamerTypeOK, AssetTypeOK, LedgerTypeOK, ClaimedWithinUnlocked
<1>3. StreamsBacked
  <2>1. InitialFunds[Streamer] \in Nat
    BY StreamerAssumption, InitialFundsAssumption
  <2>2. DOMAIN Owed = {} /\ Owed \in [{} -> Nat] /\ \A i \in {} : Owed[i] = 0
    BY <1>1 DEF Owed
  <2>3. Total(Owed) = 0
    BY <2>2, TotalZero
  <2> QED
    BY <1>1, <2>1, <2>3 DEF StreamsBacked, Owed
<1>4. {performanceFeeBps, managementFeeBps, highWaterMark, chargedGain, highestNav, routes} \subseteq Nat
  BY FeeAssumption DEF Init, FeeInit, INITIAL_HWM
<1>5. MarkIsCharged /\ lastAccrualLedger \in 0..seq
  BY <1>1 DEF Init, FeeInit, MarkIsCharged, INITIAL_HWM
<1> QED
  BY <1>2, <1>3, <1>4, <1>5 DEF IInv, TypeOK

(* What is unlocked is a part of the total, now and one ledger later, and  *)
(* it does not shrink.                                                     *)
LEMMA UnlockedGrows ==
    ASSUME seq \in Nat, NEW s \in Stream
    PROVE  /\ Unlocked(s) \in 0..s.totalAmount
           /\ seq' = seq + 1 => Unlocked(s) <= Unlocked(s)' /\ Unlocked(s)' \in Nat
<1> DEFINE e == seq - s.startTime
           t == s.totalAmount
           d == s.duration
<1>1. t \in Nat /\ d \in Nat \ {0} /\ e \in Nat
  BY DEF Stream
<1>2. CASE e >= d
  <2>1. Unlocked(s) = t
    BY <1>2 DEF Unlocked
  <2>2. ASSUME seq' = seq + 1 PROVE Unlocked(s)' = t
    <3>1. (seq - s.startTime)' = e + 1
      BY <2>2 DEF Stream
    <3> HIDE DEF e, t, d
    <3>2. e + 1 >= d
      BY <1>1, <1>2
    <3> QED
      BY <3>1, <3>2 DEF Unlocked, t, d
  <2> QED
    BY <1>1, <2>1, <2>2
<1>3. CASE e < d
  <2>1. Unlocked(s) = (t * e) \div d
    BY <1>3 DEF Unlocked, Stream
  <2>2. (t * e) \div d \in 0..t /\ (t * e) \div d <= (t * (e + 1)) \div d
    <3> HIDE DEF e, t, d
    <3> QED
      BY <1>1, <1>3, LinearShare
  <2>3. ASSUME seq' = seq + 1
        PROVE  Unlocked(s)' = IF e + 1 >= d THEN t ELSE (t * (e + 1)) \div d
    <3>1. (seq - s.startTime)' = e + 1
      BY <2>3 DEF Stream
    <3> QED
      BY <3>1 DEF Unlocked
  <2> HIDE DEF e, t, d
  <2>4. (t * e) \div d <= t
    BY <1>1, <2>2
  <2>5. (t * (e + 1)) \div d \in Nat
    <3>1. t * (e + 1) \in Nat
      BY <1>1, Z3
    <3> QED
      BY <1>1, <3>1, DivFloor
  <2> QED
    BY <1>1, <2>1, <2>2, <2>3, <2>4, <2>5 DEF t
<1> QED
  BY <1>1, <1>2, <1>3

(* What the invariant says of the streams.                                 *)
LEMMA StreamFacts ==
    ASSUME IInv
    PROVE  /\ seq \in Nat
           /\ streams \in Seq(Stream)
           /\ IsFiniteSet(DOMAIN streams)
           /\ \A i \in DOMAIN streams :
                 /\ streams[i] \in Stream
                 /\ streams[i].claimedAmount <= Unlocked(streams[i])
                 /\ Unlocked(streams[i]) \in 0..streams[i].totalAmount
           /\ Owed \in [DOMAIN streams -> Nat]
           /\ Total(Owed) \in Nat /\ Total(Owed) <= assetBal[Streamer]
           /\ assetBal \in [Accounts -> Nat]
           /\ Streamer \in Accounts
<1>1. seq \in Nat /\ streams \in Seq(Stream)
  BY DEF IInv, TypeOK, LedgerTypeOK, StreamerTypeOK, Stream
<1>2. IsFiniteSet(DOMAIN streams)
  BY <1>1, FS_Interval
<1>3. \A i \in DOMAIN streams : streams[i] \in Stream
  BY <1>1
<1>4. \A i \in DOMAIN streams : Unlocked(streams[i]) \in 0..streams[i].totalAmount
  BY <1>1, <1>3, UnlockedGrows
<1>5. \A i \in DOMAIN streams : streams[i].claimedAmount <= Unlocked(streams[i])
  BY DEF IInv, ClaimedWithinUnlocked
<1>6. Owed \in [DOMAIN streams -> Nat]
  <2> SUFFICES ASSUME NEW i \in DOMAIN streams
               PROVE  streams[i].totalAmount - streams[i].claimedAmount \in Nat
    BY DEF Owed
  <2>1. streams[i].totalAmount \in Nat /\ streams[i].claimedAmount \in Nat
    BY <1>3 DEF Stream
  <2>2. streams[i].claimedAmount <= Unlocked(streams[i]) /\ Unlocked(streams[i]) \in 0..streams[i].totalAmount
    BY <1>4, <1>5
  <2> QED
    BY <2>1, <2>2
<1>7. Total(Owed) \in Nat /\ Total(Owed) <= assetBal[Streamer]
  BY <1>2, <1>6, TotalBounds DEF IInv, StreamsBacked, Owed
<1> QED
  BY <1>1, <1>2, <1>3, <1>4, <1>5, <1>6, <1>7, StreamerAssumption DEF IInv, TypeOK, AssetTypeOK
(* A new stream brings what it will pay: the pool and the debt rise alike. *)
LEMMA AddStep ==
    ASSUME IInv, NEW d \in Donors, NEW v \in Payees, NEW amount \in Amounts,
           NEW duration \in Durations, AddYieldStream(d, v, amount, duration),
           UNCHANGED <<seq, feeVars>>
    PROVE  IInv'
<1> DEFINE n == Len(streams) + 1
           new == [vault |-> v, totalAmount |-> amount, claimedAmount |-> 0,
                   startTime |-> seq, duration |-> duration]
<1>1. amount \in Nat \ {0} /\ duration \in Nat \ {0} /\ d \in Accounts /\ d # Streamer
  BY IncentivesAssumption DEF AddYieldStream
<1>2. new \in Stream
  BY <1>1, StreamFacts DEF Stream
<1>3. streams' = Append(streams, new)
  BY DEF AddYieldStream
<1>4. /\ streams' \in Seq(Stream) /\ DOMAIN streams' = DOMAIN streams \cup {n}
      /\ n \notin DOMAIN streams /\ streams'[n] = new
      /\ \A i \in DOMAIN streams : streams'[i] = streams[i]
  <2> HIDE DEF new
  <2> QED
    BY <1>2, <1>3, StreamFacts
<1>5. seq' = seq /\ Stream' = Stream
  BY DEF Stream
<1>6. /\ assetBal[d] >= amount
      /\ assetBal' = [assetBal EXCEPT ![d] = @ - amount, ![Streamer] = @ + amount]
  BY DEF AddYieldStream, AssetTransfer
<1>7. /\ assetBal' \in [Accounts -> Nat]
      /\ assetBal'[Streamer] = assetBal[Streamer] + amount
  BY <1>1, <1>6, StreamFacts
<1>8. StreamsBacked'
  <2>1. Owed'[n] = amount
    BY <1>1, <1>4 DEF Owed
  <2>2. Owed' \in [DOMAIN streams \cup {n} -> Nat] /\ \A i \in DOMAIN streams : Owed'[i] = Owed[i]
    <3>1. \A i \in DOMAIN streams : Owed'[i] = Owed[i]
      BY <1>4 DEF Owed
    <3>2. \A i \in DOMAIN streams \cup {n} : Owed'[i] \in Nat
      BY <1>1, <2>1, <3>1, StreamFacts
    <3>3. Owed' = [i \in DOMAIN streams \cup {n} |-> Owed'[i]]
      BY <1>4 DEF Owed
    <3> QED
      BY <3>1, <3>2, <3>3
  <2>3. Total(Owed') = Total(Owed) + Owed'[n]
    <3> DEFINE S == DOMAIN streams
               f == Owed
               g == Owed'
    <3>1. /\ IsFiniteSet(S) /\ n \notin S /\ f \in [S -> Nat] /\ g \in [S \cup {n} -> Nat]
          /\ \A i \in S : g[i] = f[i]
      BY <1>4, <2>2, StreamFacts
    <3> HIDE DEF n, S, f, g
    <3>2. Total(g) = Total(f) + g[n]
      BY <3>1, TotalExtend
    <3> QED
      BY <3>2 DEF f, g
  <2>4. Total(Owed') <= assetBal'[Streamer]
    <3>1. Total(Owed) \in Nat /\ assetBal[Streamer] \in Nat /\ Total(Owed) <= assetBal[Streamer]
      BY StreamFacts
    <3>2. Total(Owed') = Total(Owed) + amount /\ assetBal'[Streamer] = assetBal[Streamer] + amount
      BY <1>7, <2>1, <2>3
    <3> QED
      BY <1>1, <3>1, <3>2
  <2> QED
    BY <2>4 DEF StreamsBacked, Owed
<1>9. ClaimedWithinUnlocked'
  <2> SUFFICES ASSUME NEW i \in DOMAIN streams'
               PROVE  streams'[i].claimedAmount <= Unlocked(streams[i])'
    BY DEF ClaimedWithinUnlocked
  <2>1. CASE i = n
    <3>1. Unlocked(new) \in 0..amount
      BY <1>2, StreamFacts, UnlockedGrows
    <3>2. Unlocked(streams[i])' = Unlocked(new)
      BY <1>4, <1>5, <2>1 DEF Unlocked
    <3> QED
      BY <1>1, <1>4, <2>1, <3>1, <3>2
  <2>2. CASE i \in DOMAIN streams
    <3>1. Unlocked(streams[i])' = Unlocked(streams[i])
      BY <1>4, <1>5, <2>2 DEF Unlocked
    <3> QED
      BY <1>4, <2>2, <3>1, StreamFacts
  <2> QED
    BY <1>4, <2>1, <2>2
<1>10. StreamerTypeOK' /\ LedgerTypeOK' /\ AssetTypeOK'
  BY <1>4, <1>5, <1>7, StreamFacts DEF StreamerTypeOK, LedgerTypeOK, AssetTypeOK, Stream
<1>11. MarkIsCharged' /\ {performanceFeeBps, managementFeeBps, highWaterMark, chargedGain, highestNav, routes}' \subseteq Nat
       /\ lastAccrualLedger' \in 0..seq'
  BY <1>5 DEF IInv, TypeOK, MarkIsCharged, feeVars, rateVars, markVars, routeVars
<1> QED
  BY <1>8, <1>9, <1>10, <1>11 DEF IInv, TypeOK

(* What a harvest pays from each stream is a part of what it owes.         *)
LEMMA ClaimableFacts ==
    ASSUME IInv, NEW v \in Payees
    PROVE  /\ Claimable(v) \in [DOMAIN streams -> Nat]
           /\ \A i \in DOMAIN streams :
                 Claimable(v)[i] <= Unlocked(streams[i]) - streams[i].claimedAmount
<1> DEFINE c == Claimable(v)
           S == DOMAIN streams
<1>1. c \in [S -> Nat] /\ \A i \in S : c[i] <= Unlocked(streams[i]) - streams[i].claimedAmount
  <2>1. c = [i \in S |-> c[i]]
    BY DEF Claimable
  <2>2. ASSUME NEW i \in S
        PROVE  c[i] \in Nat /\ c[i] <= Unlocked(streams[i]) - streams[i].claimedAmount
    <3>1. Unlocked(streams[i]) \in Nat /\ streams[i].claimedAmount \in Nat
          /\ streams[i].claimedAmount <= Unlocked(streams[i])
      BY StreamFacts DEF Stream
    <3>2. c[i] = IF i \in StreamsOf(v) THEN Unlocked(streams[i]) - streams[i].claimedAmount ELSE 0
      BY DEF Claimable
    <3> HIDE DEF c
    <3> QED
      BY <3>1, <3>2
  <2> HIDE DEF c
  <2> QED
    BY <2>1, <2>2
<1> QED
  BY <1>1

(* A harvest takes from the pool no more than the payee's streams owe less *)
(* afterwards: each is claimed up to what is unlocked now, no other moves; *)
(* what is paid to the streamer itself does not leave it.                  *)
LEMMA HarvestStep ==
    ASSUME IInv, NEW v \in Payees, HarvestClaimable(v), UNCHANGED <<seq, feeVars>>
    PROVE  IInv'
<1> DEFINE c == Claimable(v)
           S == DOMAIN streams
<1>1. c \in [S -> Nat] /\ \A i \in S : c[i] <= Unlocked(streams[i]) - streams[i].claimedAmount
  BY ClaimableFacts
<1>2. /\ assetBal[Streamer] >= Total(c)
      /\ assetBal' = [assetBal EXCEPT ![Streamer] = @ - Total(c), ![v] = @ + Total(c)]
      /\ streams' = [i \in S |-> [streams[i] EXCEPT !.claimedAmount = @ + c[i]]]
      /\ seq' = seq
  BY DEF HarvestClaimable, AssetTransfer
<1> HIDE DEF c
<1>3. Total(c) \in Nat
  BY <1>1, StreamFacts, TotalBounds
<1>4. v \in Accounts
  BY StreamerAssumption
<1>5. /\ assetBal' \in [Accounts -> Nat]
      /\ assetBal'[Streamer] >= assetBal[Streamer] - Total(c)
  <2>1. CASE v = Streamer
    BY <1>2, <1>3, <2>1, StreamFacts
  <2>2. CASE v # Streamer
    BY <1>2, <1>3, <1>4, <2>2, StreamFacts
  <2> QED
    BY <2>1, <2>2
<1>6. /\ DOMAIN streams' = S
      /\ \A i \in S : /\ streams'[i] \in Stream
                      /\ streams'[i].claimedAmount = streams[i].claimedAmount + c[i]
                      /\ streams'[i].totalAmount = streams[i].totalAmount
                      /\ Unlocked(streams[i])' = Unlocked(streams[i])
  <2>1. DOMAIN streams' = S
    BY <1>2
  <2>2. ASSUME NEW i \in S
        PROVE  /\ streams'[i] \in Stream
               /\ streams'[i].claimedAmount = streams[i].claimedAmount + c[i]
               /\ streams'[i].totalAmount = streams[i].totalAmount
               /\ streams'[i].startTime = streams[i].startTime
               /\ streams'[i].duration = streams[i].duration
    <3>1. streams[i] \in Stream /\ c[i] \in Nat
      BY <1>1, StreamFacts
    <3>2. streams'[i] = [streams[i] EXCEPT !.claimedAmount = @ + c[i]]
      BY <1>2
    <3> QED
      BY <3>1, <3>2 DEF Stream
  <2>3. ASSUME NEW i \in S PROVE Unlocked(streams[i])' = Unlocked(streams[i])
    <3>1. /\ seq' = seq
          /\ streams'[i].totalAmount = streams[i].totalAmount
          /\ streams'[i].startTime = streams[i].startTime
          /\ streams'[i].duration = streams[i].duration
      BY <1>2, <2>2
    <3> QED
      BY <3>1 DEF Unlocked
  <2> QED
    BY <2>1, <2>2, <2>3
<1>7. streams' \in Seq(Stream)
  <2>1. S = 1..Len(streams) /\ Len(streams) \in Nat
    BY StreamFacts
  <2>2. streams' \in [1..Len(streams) -> Stream]
    BY <1>2, <1>6, <2>1
  <2> QED
    BY <2>1, <2>2
<1>8. StreamsBacked'
  <2>1. Owed' \in [S -> Nat] /\ \A i \in S : Owed[i] = Owed'[i] + c[i]
    <3>1. ASSUME NEW i \in S PROVE Owed'[i] \in Nat /\ Owed[i] = Owed'[i] + c[i]
      <4>1. /\ streams[i].totalAmount \in Nat /\ streams[i].claimedAmount \in Nat
            /\ c[i] \in Nat /\ Unlocked(streams[i]) \in 0..streams[i].totalAmount
            /\ c[i] <= Unlocked(streams[i]) - streams[i].claimedAmount
        BY <1>1, StreamFacts DEF Stream
      <4>2. Owed[i] = streams[i].totalAmount - streams[i].claimedAmount
        BY DEF Owed
      <4>3. Owed'[i] = streams[i].totalAmount - (streams[i].claimedAmount + c[i])
        BY <1>6 DEF Owed
      <4> QED
        BY <4>1, <4>2, <4>3
    <3>2. Owed' = [i \in S |-> Owed'[i]]
      BY <1>6 DEF Owed
    <3> QED
      BY <3>1, <3>2
  <2> DEFINE g == Owed'
  <2>2. Owed = [i \in S |-> g[i] + c[i]]
    <3>1. Owed = [i \in S |-> Owed[i]]
      BY DEF Owed
    <3> QED
      BY <2>1, <3>1
  <2>3. Total(Owed) = Total(g) + Total(c)
    <3>1. g \in [S -> Nat] /\ c \in [S -> Nat] /\ IsFiniteSet(S)
      BY <1>1, <2>1, StreamFacts
    <3> HIDE DEF g, S
    <3>2. Total([i \in S |-> g[i] + c[i]]) = Total(g) + Total(c)
      BY <3>1, TotalOfSum
    <3> QED
      BY <2>2, <3>2
  <2>4. Total(g) \in Nat
    BY <2>1, StreamFacts, TotalBounds
  <2>5. Total(Owed') <= assetBal'[Streamer]
    <3>1. /\ Total(Owed) \in Nat /\ assetBal[Streamer] \in Nat /\ assetBal'[Streamer] \in Nat
          /\ Total(Owed) <= assetBal[Streamer]
      BY <1>5, StreamFacts
    <3> QED
      BY <1>3, <1>5, <2>3, <2>4, <3>1
  <2> QED
    BY <2>5 DEF StreamsBacked, Owed
<1>9. ClaimedWithinUnlocked'
  <2> SUFFICES ASSUME NEW i \in S
               PROVE  streams'[i].claimedAmount <= Unlocked(streams[i])'
    BY <1>6 DEF ClaimedWithinUnlocked
  <2>1. /\ streams[i].claimedAmount \in Nat /\ c[i] \in Nat /\ Unlocked(streams[i]) \in Nat
        /\ c[i] <= Unlocked(streams[i]) - streams[i].claimedAmount
    BY <1>1, StreamFacts DEF Stream
  <2> QED
    BY <1>6, <2>1
<1>10. StreamerTypeOK' /\ LedgerTypeOK' /\ AssetTypeOK'
  BY <1>2, <1>5, <1>7, StreamFacts DEF StreamerTypeOK, LedgerTypeOK, AssetTypeOK, Stream
<1>11. MarkIsCharged' /\ {performanceFeeBps, managementFeeBps, highWaterMark, chargedGain, highestNav, routes}' \subseteq Nat
       /\ lastAccrualLedger' \in 0..seq'
  BY <1>2 DEF IInv, TypeOK, MarkIsCharged, feeVars, rateVars, markVars, routeVars
<1> QED
  BY <1>8, <1>9, <1>10, <1>11 DEF IInv, TypeOK
(* What a step preserves that leaves the streams alone and takes nothing   *)
(* from their pool.                                                        *)
LEMMA StreamsRest ==
    ASSUME IInv, UNCHANGED <<seq, streams>>, assetBal' \in [Accounts -> Nat],
           assetBal'[Streamer] >= assetBal[Streamer]
    PROVE  /\ LedgerTypeOK' /\ AssetTypeOK' /\ StreamerTypeOK'
           /\ StreamsBacked' /\ ClaimedWithinUnlocked'
<1>1. LedgerTypeOK' /\ AssetTypeOK' /\ StreamerTypeOK'
  BY DEF IInv, TypeOK, LedgerTypeOK, AssetTypeOK, StreamerTypeOK
<1>2. StreamsBacked'
  <2>1. /\ Total(Owed) \in Nat /\ Total(Owed) <= assetBal[Streamer]
        /\ assetBal[Streamer] \in Nat /\ assetBal'[Streamer] \in Nat
    BY StreamFacts
  <2>2. Owed' = Owed
    BY DEF Owed
  <2>3. Total(Owed') <= assetBal'[Streamer]
    BY <2>1, <2>2
  <2> QED
    BY <2>3 DEF StreamsBacked, Owed
<1>3. ClaimedWithinUnlocked'
  BY DEF IInv, ClaimedWithinUnlocked, Unlocked
<1> QED
  BY <1>1, <1>2, <1>3

(* A fee is charged on the rise over the mark, which rises by as much.     *)
LEMMA AssessStep ==
    ASSUME IInv, NEW nav \in Navs, NEW assets \in Amounts,
           AssessPerformanceFee(nav, assets), UNCHANGED <<seq, assetBal, streams>>
    PROVE  IInv'
<1>1. nav \in Nat
  BY IncentivesAssumption
<1>2. /\ highWaterMark \in Nat /\ chargedGain \in Nat /\ highestNav \in Nat
      /\ chargedGain = highWaterMark - INITIAL_HWM
      /\ highWaterMark <= highestNav
  BY DEF IInv, TypeOK, MarkIsCharged
<1>3. highestNav' = IF highestNav < nav THEN nav ELSE highestNav
  BY DEF AssessPerformanceFee, HigherOf
<1>4. \/ UNCHANGED <<highWaterMark, chargedGain>>
      \/ /\ nav > highWaterMark
         /\ highWaterMark' = nav
         /\ chargedGain' = chargedGain + (nav - highWaterMark)
  BY DEF AssessPerformanceFee
<1>5. /\ MarkIsCharged'
      /\ highWaterMark' \in Nat /\ chargedGain' \in Nat /\ highestNav' \in Nat
  BY <1>1, <1>2, <1>3, <1>4 DEF MarkIsCharged, INITIAL_HWM
<1>6. /\ {performanceFeeBps', managementFeeBps', routes'} \subseteq Nat
      /\ lastAccrualLedger' \in 0..seq'
  BY DEF AssessPerformanceFee, IInv, TypeOK, rateVars, routeVars
<1>7. assetBal' \in [Accounts -> Nat] /\ assetBal'[Streamer] >= assetBal[Streamer]
  BY StreamFacts
<1> QED
  BY <1>5, <1>6, <1>7, StreamsRest DEF IInv, TypeOK

(* Routing divides a fee between reserve and treasury; it takes nothing    *)
(* from the pool of the streams.                                           *)
LEMMA RouteStep ==
    ASSUME IInv, NEW fee \in Amounts, RouteFee(fee), UNCHANGED <<seq, streams>>
    PROVE  IInv'
<1>1. fee \in Nat /\ fee \div 2 \in Nat /\ fee - fee \div 2 \in Nat
  BY IncentivesAssumption
<1>2. assetBal \in [Accounts -> Nat] /\ assetBal[Controller] >= fee
  BY StreamFacts DEF RouteFee
<1> DEFINE half == fee \div 2
           rest == fee - fee \div 2
<1>3. assetBal' = [assetBal EXCEPT ![Controller] = @ - fee, ![Reserve] = @ + half,
                                   ![Treasury] = @ + rest]
  BY DEF RouteFee
<1> HIDE DEF half, rest
<1>4. /\ Controller \in Accounts /\ Reserve \in Accounts /\ Treasury \in Accounts
      /\ Controller # Reserve /\ Controller # Treasury /\ Treasury # Reserve
      /\ Streamer # Controller
  BY FeeAssumption, IncentivesAssumption
<1>5. assetBal' \in [Accounts -> Nat] /\ assetBal'[Streamer] >= assetBal[Streamer]
  <2>1. half \in Nat /\ rest \in Nat
    BY <1>1 DEF half, rest
  <2>2. \A a \in Accounts :
           assetBal'[a] = IF a = Controller THEN assetBal[a] - fee
                          ELSE IF a = Reserve THEN assetBal[a] + half
                          ELSE IF a = Treasury THEN assetBal[a] + rest
                          ELSE assetBal[a]
    BY <1>2, <1>3, <1>4
  <2>3. assetBal' = [a \in Accounts |-> assetBal'[a]]
    BY <1>2, <1>3
  <2>4. \A a \in Accounts : assetBal'[a] \in Nat
    BY <1>1, <1>2, <2>1, <2>2
  <2>5. assetBal'[Streamer] >= assetBal[Streamer]
    <3>1. Streamer \in Accounts /\ assetBal[Streamer] \in Nat
      BY <1>2, StreamFacts
    <3>2. assetBal'[Streamer] \in {assetBal[Streamer], assetBal[Streamer] + half,
                                   assetBal[Streamer] + rest}
      BY <1>4, <2>2, <3>1
    <3> QED
      BY <2>1, <3>1, <3>2
  <2> QED
    BY <2>3, <2>4, <2>5
<1>6. /\ {performanceFeeBps, managementFeeBps, highWaterMark, chargedGain, highestNav, routes}' \subseteq Nat
      /\ lastAccrualLedger' \in 0..seq'
      /\ MarkIsCharged'
  <2>1. routes' = routes + 1 /\ lastAccrualLedger' = seq /\ UNCHANGED <<rateVars, markVars>>
    BY DEF RouteFee
  <2> QED
    BY <2>1, StreamFacts DEF IInv, TypeOK, MarkIsCharged, rateVars, markVars
<1> QED
  BY <1>5, <1>6, StreamsRest DEF IInv, TypeOK

(* New rates touch no token and no mark.                                   *)
LEMMA RatesStep ==
    ASSUME IInv, NEW management \in FeeRates, NEW performance \in FeeRates,
           UpdateFeeRates(management, performance), UNCHANGED <<seq, assetBal, streams>>
    PROVE  IInv'
<1>1. management \in Nat /\ performance \in Nat
  BY FeeAssumption
<1>2. /\ {performanceFeeBps, managementFeeBps, highWaterMark, chargedGain, highestNav, routes}' \subseteq Nat
      /\ lastAccrualLedger' \in 0..seq'
      /\ MarkIsCharged'
  BY <1>1 DEF UpdateFeeRates, IInv, TypeOK, MarkIsCharged, markVars, routeVars
<1>3. assetBal' \in [Accounts -> Nat] /\ assetBal'[Streamer] >= assetBal[Streamer]
  BY StreamFacts
<1> QED
  BY <1>2, <1>3, StreamsRest DEF IInv, TypeOK

(* Assets sent to the fee controller, or to the streamer itself, do not    *)
(* come from the pool.                                                     *)
LEMMA SendStep ==
    ASSUME IInv, NEW d \in Donors, NEW to \in {Controller, Streamer}, NEW amount \in Amounts,
           AssetTransfer(d, to, amount), UNCHANGED <<seq, streams, feeVars>>
    PROVE  IInv'
<1>1. /\ amount \in Nat /\ d \in Accounts /\ d # Streamer
      /\ to \in Accounts /\ d # to
  BY IncentivesAssumption, FeeAssumption, StreamerAssumption
<1>2. /\ assetBal' \in [Accounts -> Nat]
      /\ assetBal'[Streamer] >= assetBal[Streamer]
  <2>1. /\ assetBal[d] >= amount
        /\ assetBal' = [assetBal EXCEPT ![d] = @ - amount, ![to] = @ + amount]
    BY DEF AssetTransfer
  <2> QED
    BY <1>1, <2>1, StreamFacts
<1>3. /\ {performanceFeeBps, managementFeeBps, highWaterMark, chargedGain, highestNav, routes}' \subseteq Nat
      /\ lastAccrualLedger' \in 0..seq'
      /\ MarkIsCharged'
  BY DEF IInv, TypeOK, MarkIsCharged, feeVars, rateVars, markVars, routeVars
<1> QED
  BY <1>2, <1>3, StreamsRest DEF IInv, TypeOK

(* As ledgers close, what is unlocked grows and nothing else moves.        *)
LEMMA LedgerStep ==
    ASSUME IInv, CloseLedger, UNCHANGED <<assetBal, streams, feeVars>>
    PROVE  IInv'
<1>1. seq \in Nat /\ seq' = seq + 1
  BY StreamFacts DEF CloseLedger
<1>2. 0..seq \subseteq 0..seq'
  BY <1>1
<1>3. LedgerTypeOK' /\ AssetTypeOK'
  BY <1>1 DEF IInv, TypeOK, LedgerTypeOK, AssetTypeOK
<1>4. StreamerTypeOK'
  <2>1. Stream \subseteq Stream'
    BY <1>2 DEF Stream
  <2>2. streams' \in Seq(Stream')
    <3>1. streams \in [1..Len(streams) -> Stream] /\ Len(streams) \in Nat
      BY StreamFacts
    <3>2. streams \in [1..Len(streams) -> Stream']
      BY <2>1, <3>1
    <3> QED
      BY <3>1, <3>2
  <2> QED
    BY <2>2 DEF StreamerTypeOK, Stream
<1>5. StreamsBacked'
  BY DEF IInv, StreamsBacked
<1>6. ClaimedWithinUnlocked'
  <2> SUFFICES ASSUME NEW i \in DOMAIN streams
               PROVE  streams[i].claimedAmount <= Unlocked(streams[i])'
    BY DEF ClaimedWithinUnlocked
  <2>1. PICK s : s = streams[i]
    OBVIOUS
  <2>2. s \in Stream /\ s.claimedAmount <= Unlocked(s)
    BY <2>1, StreamFacts
  <2>3. Unlocked(s) \in 0..s.totalAmount /\ Unlocked(s) <= Unlocked(s)' /\ Unlocked(s)' \in Nat
    BY <1>1, <2>2, UnlockedGrows
  <2>4. Unlocked(streams[i])' = Unlocked(s)' /\ streams[i].claimedAmount = s.claimedAmount
    BY <2>1 DEF Unlocked
  <2>5. s.claimedAmount \in Nat /\ s.totalAmount \in Nat
    BY <2>2 DEF Stream
  <2> QED
    BY <2>2, <2>3, <2>4, <2>5
<1>7. /\ {performanceFeeBps, managementFeeBps, highWaterMark, chargedGain, highestNav, routes}' \subseteq Nat
      /\ lastAccrualLedger' \in 0..seq'
      /\ MarkIsCharged'
  BY <1>2 DEF IInv, TypeOK, MarkIsCharged, feeVars, rateVars, markVars, routeVars
<1> QED
  BY <1>3, <1>4, <1>5, <1>6, <1>7 DEF IInv, TypeOK
(* Every step keeps the inductive invariant.                               *)
LEMMA NextIInv == IInv /\ [Next]_vars => IInv'
<1> SUFFICES ASSUME IInv, [Next]_vars PROVE IInv'
  OBVIOUS
<1>1. CASE StreamNext
  BY <1>1, AddStep, HarvestStep, SendStep DEF StreamNext
<1>2. CASE FeeNext
  BY <1>2, AssessStep, RouteStep, RatesStep, SendStep DEF FeeNext
<1>3. CASE CloseLedger /\ UNCHANGED <<assetBal, streams, feeVars>>
  BY <1>3, LedgerStep
<1>4. CASE UNCHANGED vars
  <2>1. UNCHANGED <<seq, assetBal, streams, feeVars>>
    BY <1>4 DEF vars
  <2>2. assetBal' \in [Accounts -> Nat] /\ assetBal'[Streamer] >= assetBal[Streamer]
    BY <2>1, StreamFacts
  <2>3. /\ {performanceFeeBps, managementFeeBps, highWaterMark, chargedGain, highestNav, routes}' \subseteq Nat
        /\ lastAccrualLedger' \in 0..seq'
        /\ MarkIsCharged'
    BY <2>1 DEF IInv, TypeOK, MarkIsCharged, feeVars, rateVars, markVars, routeVars
  <2> QED
    BY <2>1, <2>2, <2>3, StreamsRest DEF IInv, TypeOK
<1> QED
  BY <1>1, <1>2, <1>3, <1>4 DEF Next

LEMMA AlwaysIInv == Spec => []IInv
  BY InitIInv, NextIInv, PTL DEF Spec

(* Streams, balances, rates and marks keep their types, whatever is        *)
(* streamed, harvested, assessed or routed.                                *)
THEOREM TypeCorrect == Spec => []TypeOK
<1>1. IInv => TypeOK
  BY DEF IInv
<1> QED
  BY <1>1, AlwaysIInv, PTL

(* The one pool of contracts/streamer covers what every stream still owes: *)
(* paying one vault never takes what another is owed, even when a stream   *)
(* names the streamer itself or tokens are sent there directly.            *)
THEOREM PoolCoversStreams == Spec => []StreamsBacked
<1>1. IInv => StreamsBacked
  BY DEF IInv
<1> QED
  BY <1>1, AlwaysIInv, PTL

(* No stream is claimed ahead of the clock (harvest_claimable subtracts    *)
(* what was claimed from what is unlocked and never gets below zero).      *)
THEOREM NeverAheadOfTheClock == Spec => []ClaimedWithinUnlocked
<1>1. IInv => ClaimedWithinUnlocked
  BY DEF IInv
<1> QED
  BY <1>1, AlwaysIInv, PTL

(* assess_performance_fee charges no part of a gain twice: what it charged *)
(* so far lies below the highest nav it was ever shown.                    *)
THEOREM GainsAreChargedOnce == Spec => []NoGainChargedTwice
<1>1. IInv => NoGainChargedTwice
  BY DEF IInv, TypeOK, MarkIsCharged, NoGainChargedTwice, INITIAL_HWM
<1> QED
  BY <1>1, AlwaysIInv, PTL

(* However the vaults' harvests are ordered, none is refused for want of   *)
(* tokens: the transfer of harvest_claimable always finds its amount.      *)
THEOREM NoHarvestIsShort ==
    Spec => [](\A v \in Payees : Total(Claimable(v)) <= assetBal[Streamer])
<1>1. ASSUME IInv, NEW v \in Payees
      PROVE  Total(Claimable(v)) <= assetBal[Streamer]
  <2> DEFINE S == DOMAIN streams
             c == Claimable(v)
             owed == Owed
  <2>1. /\ IsFiniteSet(S) /\ c \in [S -> Nat] /\ owed \in [S -> Nat]
        /\ Total(owed) \in Nat /\ Total(owed) <= assetBal[Streamer] /\ assetBal[Streamer] \in Nat
    BY <1>1, ClaimableFacts, StreamFacts
  <2>2. ASSUME NEW i \in S PROVE c[i] <= owed[i]
    <3>1. /\ streams[i].totalAmount \in Nat /\ streams[i].claimedAmount \in Nat
          /\ c[i] \in Nat /\ Unlocked(streams[i]) \in 0..streams[i].totalAmount
          /\ c[i] <= Unlocked(streams[i]) - streams[i].claimedAmount
      BY <1>1, <2>1, ClaimableFacts, StreamFacts DEF Stream
    <3>2. owed[i] = streams[i].totalAmount - streams[i].claimedAmount
      BY DEF Owed
    <3> HIDE DEF c, owed
    <3> QED
      BY <3>1, <3>2
  <2> HIDE DEF S, c, owed
  <2>3. Total(c) <= Total(owed) /\ Total(c) \in Nat
    BY <2>1, <2>2, TotalMonotone, TotalBounds
  <2> QED
    BY <2>1, <2>3 DEF c
<1>2. IInv => \A v \in Payees : Total(Claimable(v)) <= assetBal[Streamer]
  BY <1>1
<1> QED
  BY <1>2, AlwaysIInv, PTL
====
