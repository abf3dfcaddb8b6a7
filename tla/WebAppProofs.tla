---- MODULE WebAppProofs ----
(***************************************************************************)
(* Proofs about WebApp, for any number of addresses, users, challenges and *)
(* restarts, any chain and any clients.                                    *)
(***************************************************************************)
EXTENDS WebApp, ArithmeticProofs, TLAPS

----
(* Sessions                                                                *)

(* The challenges of the sessions given are gone from activeChallenges:    *)
(* that, and not consumedNonces, which a restart empties, is what keeps a  *)
(* challenge from giving two sessions.                                     *)
AuthInv ==
    /\ AuthTypeOK
    /\ \A n \in DOMAIN earned : earned[n].challenge \notin active
    /\ SessionsEarned

LEMMA MoreSequences ==
  ASSUME NEW S, NEW T, S \subseteq T, NEW q \in Seq(S)
  PROVE  q \in Seq(T)
  OBVIOUS

LEMMA AuthInitially == Init => AuthInv
  BY DEF Init, AuthInit, AuthInv, AuthTypeOK, SessionsEarned, Challenges

(* What a step of the whole application may do to the authentication.      *)
AuthStep ==
    \/ UNCHANGED authVars
    \/ AuthRestart
    \/ \E a \in Addresses : GenerateChallenge(a)
    \/ \E c \in Challenges : ChallengeExpires(c)
    \/ \E c \in Challenges, a \in Addresses, s \in Signatures :
         (Accepts(c, a, s) /\ CreateSession(c, a, s)) \/ TurnDown(c, a)

LEMMA AuthSteps ==
  ASSUME [Next]_vars
  PROVE  AuthStep
<1>1. CASE Crash
  BY <1>1 DEF Crash, AuthStep
<1>2. CASE Restart
  BY <1>2 DEF Restart, AuthStep
<1>3. CASE WorldMoves
  BY <1>3 DEF WorldMoves, serviceVars, AuthStep
<1>4. CASE TimePasses
  BY <1>4 DEF TimePasses, serviceVars, AuthStep
<1>5. CASE UserActs \/ RollsUp
  BY <1>5 DEF UserActs, RollsUp, PageOnly, serviceVars, AuthStep
<1>6. ASSUME NEW q \in Requests, RequestGoesOn(q)
      PROVE  AuthStep
  BY <1>6 DEF RequestGoesOn, TelemetryHandled, HandlerThrows, ForgetMemory, PageOnly, serviceVars,
              AuthStep
<1>7. ASSUME NEW q \in Polls, PollGoesOn(q)
      PROVE  AuthStep
  <2>1. CASE TimerFires(q)
    BY <2>1 DEF TimerFires, PageOnly, serviceVars, AuthStep
  <2> QED
    BY <1>6, <1>7, <2>1 DEF PollGoesOn, Requests
<1>8. ASSUME NEW b \in Buttons, FlowGoesOn(b)
      PROVE  AuthStep
  <2>1. CASE ConsoleHandled(b)
    BY <2>1 DEF ConsoleHandled, serviceVars, AuthStep
  <2>2. CASE BuildHandled(b) \/ SubmitHandled(b) \/ FlowUnreachable(b) \/ BalancesAnswered(b)
    BY <2>2 DEF BuildHandled, SubmitHandled, FlowUnreachable, BalancesAnswered, PageOnly,
                serviceVars, AuthStep
  <2> QED
    BY <1>6, <1>8, <2>1, <2>2 DEF FlowGoesOn
<1>9. ASSUME NEW p \in Panels, PanelGoesOn(p)
      PROVE  AuthStep
  BY <1>9 DEF PanelGoesOn, PanelHandled, HandlerThrows, ForgetMemory, PageOnly, serviceVars, AuthStep
<1>10. ASSUME NEW a \in Addresses, ChallengeRoute(a)
       PROVE  AuthStep
  BY <1>10 DEF ChallengeRoute, AuthStep
<1>11. ASSUME NEW c \in Challenges, FiveMinutesPass(c)
       PROVE  AuthStep
  BY <1>11 DEF FiveMinutesPass, AuthStep
<1>12. ASSUME NEW c \in Challenges, NEW a \in Addresses, NEW s \in Signatures, VerifyRoute(c, a, s)
       PROVE  AuthStep
  BY <1>12 DEF VerifyRoute, AuthStep
<1>13. ASSUME NEW user \in Users, ProfileRoute(user) \/ DepositRoute(user)
       PROVE  AuthStep
  BY <1>13 DEF ProfileRoute, DepositRoute, AuthStep
<1>14. CASE ProfileThrows
  BY <1>14 DEF ProfileThrows, HandlerThrows, ForgetMemory, AuthStep
<1>15. CASE UNCHANGED vars
  BY <1>15 DEF vars, AuthStep
<1> QED
  BY <1>1, <1>2, <1>3, <1>4, <1>5, <1>7, <1>8, <1>9, <1>10, <1>11, <1>12, <1>13, <1>14, <1>15
  DEF Next

LEMMA AuthPreserved ==
  ASSUME AuthInv, AuthStep
  PROVE  AuthInv'
<1> USE DEF AuthInv, AuthTypeOK, SessionsEarned, Challenges
<1>1. CASE UNCHANGED authVars
  BY <1>1 DEF authVars, Sessions
<1>2. CASE AuthRestart
  BY <1>2 DEF AuthRestart, Sessions
<1>3. ASSUME NEW a \in Addresses, GenerateChallenge(a)
      PROVE  AuthInv'
  (* The new challenge has no session; the old ones keep their address. *)
  <2>1. /\ issuedTo' = Append(issuedTo, a)
        /\ active' = active \cup {Len(issuedTo) + 1}
        /\ earned' = earned
    BY <1>3 DEF GenerateChallenge
  <2>2. /\ issuedTo' \in Seq(Addresses)
        /\ DOMAIN issuedTo' = 1..Len(issuedTo) + 1
        /\ \A c \in DOMAIN issuedTo : c # Len(issuedTo) + 1 /\ issuedTo'[c] = issuedTo[c]
    BY <2>1
  <2>3. expired' = expired /\ consumed' = consumed /\ sessions' = sessions
    BY <1>3 DEF GenerateChallenge
  <2>4. Sessions \subseteq Sessions'
    BY <2>2 DEF Sessions
  <2>5. AuthTypeOK'
    <3>1. /\ expired' \subseteq Challenges' /\ active' \subseteq Challenges'
          /\ consumed' \subseteq Challenges'
      BY <2>1, <2>2, <2>3
    <3>2. sessions' \subseteq Sessions' /\ earned' \in Seq(Sessions')
      BY <2>1, <2>3, <2>4, MoreSequences
    <3> QED
      BY <2>2, <3>1, <3>2 DEF AuthTypeOK
  <2>6. \A n \in DOMAIN earned : /\ earned[n].challenge \in DOMAIN issuedTo
                                 /\ earned[n].challenge \notin active
    <3>1. \A n \in DOMAIN earned : earned[n] \in Sessions
      OBVIOUS
    <3> QED
      BY <3>1 DEF Sessions
  <2> QED
    BY <2>1, <2>2, <2>5, <2>6 DEF AuthInv, SessionsEarned
<1>4. ASSUME NEW c \in Challenges, ChallengeExpires(c)
      PROVE  AuthInv'
  BY <1>4 DEF ChallengeExpires, Sessions
<1>5. ASSUME NEW c \in Challenges, NEW a \in Addresses, NEW s \in Signatures,
             Accepts(c, a, s), CreateSession(c, a, s)
      PROVE  AuthInv'
  (* c was active, so no earlier session has it. *)
  <2> DEFINE session == [challenge |-> c, address |-> a, signer |-> s.signer,
                         over |-> s.over, late |-> c \in expired]
  <2>1. /\ earned' = Append(earned, session)
        /\ active' = active \ {c}
        /\ issuedTo' = issuedTo
    BY <1>5 DEF CreateSession
  <2>2. /\ c \in active /\ issuedTo[c] = a /\ ~session.late
        /\ session.signer = a /\ session.over = c
    BY <1>5 DEF Accepts, VerifyEd25519
  <2>3. \A n \in DOMAIN earned : earned[n].challenge # c
    BY <2>2
  <2>4. session \in Sessions
    BY <2>2 DEF Signatures, Sessions
  <2>5. AuthTypeOK'
    <3>1. Sessions' = Sessions
      BY <2>1 DEF Sessions
    <3>2. earned' \in Seq(Sessions')
      BY <2>1, <2>4, <3>1
    <3> QED
      BY <1>5, <2>1, <2>4, <3>1, <3>2 DEF CreateSession
  <2>6. /\ Len(earned') = Len(earned) + 1
        /\ DOMAIN earned' = 1..Len(earned) + 1
        /\ earned'[Len(earned) + 1] = session
        /\ \A n \in DOMAIN earned : n # Len(earned) + 1 /\ earned'[n] = earned[n]
    BY <2>1
  <2> QED
    BY <2>1, <2>2, <2>3, <2>5, <2>6 DEF AuthInv, SessionsEarned
<1>6. ASSUME NEW c \in Challenges, NEW a \in Addresses, TurnDown(c, a)
      PROVE  AuthInv'
  BY <1>6 DEF TurnDown, Sessions
<1> QED
  BY <1>1, <1>2, <1>3, <1>4, <1>5, <1>6 DEF AuthStep

(* Every session, of every life of the server's process, was given to the  *)
(* address its challenge was issued to, for its own signature, in time,    *)
(* and no challenge gave two, whatever happens around verifySignature.     *)
THEOREM SessionsAreEarned == Spec => []SessionsEarned
<1>1. AuthInv /\ [Next]_vars => AuthInv'
  BY AuthSteps, AuthPreserved
<1>2. AuthInv => SessionsEarned
  BY DEF AuthInv
<1> QED
  BY AuthInitially, <1>1, <1>2, PTL DEF Spec

----
(* What the page shows                                                     *)

(* A value in the cache is one the chain has had.                          *)
CacheInv ==
    /\ height \in Nat \ {0}
    /\ net \in {"up", "flaky", "down"}
    /\ \A r \in Reads :
         /\ cache[r].age \in 0..2
         /\ cache[r].age < 2 => cache[r].value \in Seen(r) \ {Failed}

(* So is what an answer on its way to the page holds, and what it shows or *)
(* would show if it rendered its cards anew.                               *)
PageInv ==
    /\ shown = [assets |-> shown.assets, idle |-> shown.idle, cards |-> shown.cards,
                badge |-> shown.badge, rolling |-> shown.rolling]
    /\ CardsSeen(Metrics(shown.assets, shown.idle))
    /\ telemetry = [q \in Requests |-> telemetry[q]]
    /\ panel = [p \in Panels |-> panel[p]]
    /\ \A q \in Requests : telemetry[q].status = 200 => FiguresSeen(telemetry[q].content)
    /\ FiguresHaveASource

LEMMA ShownInitially == Init => CacheInv /\ PageInv
<1> SUFFICES ASSUME Init PROVE CacheInv /\ PageInv
  OBVIOUS
<1>1. CacheInv
  BY DEF Init, ReaderInit, CacheInv, NotCached
<1>2. PageInv
  BY DEF Init, DashboardInit, PageInv, FiguresHaveASource, CardsSeen, Unread, Free, Blank
<1> QED
  BY <1>1, <1>2

(* A read that did not fail gave a value the chain has had.                *)
LEMMA ResultSeen ==
  ASSUME CacheInv, NEW failed, NEW r, Result(failed, r) # Failed
  PROVE  Result(failed, r) \in Seen(r)
  BY DEF CacheInv, Result, Hits, Seen, Value

LEMMA FailuresReal ==
  ASSUME CacheInv, NEW reads, NEW failed \in Failures(reads), NEW r \in reads \ (Hits \cup failed)
  PROVE  Value(r) # Failed
<1> DEFINE sent == reads \ Hits
           never == {x \in sent : Value(x) = Failed}
<1>1. never \subseteq failed \/ r \in failed
  <2>1. CASE net = "up"
    BY <2>1 DEF Failures
  <2>2. CASE net = "down"
    BY <2>2 DEF Failures
  <2>3. CASE net = "flaky"
    BY <2>3 DEF Failures
  <2> QED
    BY <2>1, <2>2, <2>3 DEF CacheInv
<1> QED
  BY <1>1

LEMMA RememberKeeps ==
  ASSUME CacheInv, NEW asked, NEW reads, reads \cap Reads \subseteq asked,
         NEW failed \in Failures(asked), Remember(reads, failed), UNCHANGED chainVars
  PROVE  CacheInv'
<1>1. height' = height /\ net' = net /\ \A r : Seen(r)' = Seen(r)
  BY DEF chainVars, Seen
<1>2. ASSUME NEW r \in Reads
      PROVE  /\ cache'[r].age \in 0..2
             /\ cache'[r].age < 2 => cache'[r].value \in Seen(r) \ {Failed}
  <2>1. CASE r \in reads \ (Hits \cup failed)
    <3>1. cache'[r] = [age |-> 0, value |-> Value(r)]
      BY <2>1 DEF Remember, Cached
    <3>2. Value(r) # Failed
      BY <2>1, FailuresReal
    <3>3. Value(r) \in Seen(r)
      BY DEF CacheInv, Value, Seen
    <3> QED
      BY <3>1, <3>2, <3>3
  <2>2. CASE r \notin reads \ (Hits \cup failed)
    BY <2>2 DEF Remember, CacheInv
  <2> QED
    BY <2>1, <2>2
<1> QED
  BY <1>1, <1>2 DEF CacheInv

(* The chain only adds to what it had.                                     *)
LEMMA SeenGrows ==
  ASSUME CacheInv, height' \in {height, height + 1}
  PROVE  /\ \A r : Seen(r) \subseteq Seen(r)'
         /\ height' \in Nat \ {0}
         /\ \A figures : FiguresSeen(figures) => FiguresSeen(figures)'
         /\ \A cards : CardsSeen(cards) => CardsSeen(cards)'
         /\ \A p, content : PanelSeen(p, content) => PanelSeen(p, content)'
<1>1. (\A r : Seen(r) \subseteq Seen(r)') /\ height' \in Nat \ {0}
  BY DEF CacheInv, Seen
<1>2. \A figures : FiguresSeen(figures) => FiguresSeen(figures)'
  BY <1>1 DEF FiguresSeen
<1>3. \A p, content : PanelSeen(p, content) => PanelSeen(p, content)'
  BY <1>1, <1>2 DEF PanelSeen
<1>4. \A cards : CardsSeen(cards) => CardsSeen(cards)'
  BY <1>1 DEF CardsSeen
<1> QED
  BY <1>1, <1>2, <1>3, <1>4

(* An answer of the telemetry that is none of a failure.                   *)
LEMMA TelemetrySeen ==
  ASSUME CacheInv, NEW failed, ~TelemetryThrows(failed), Telemetry(failed).status = 200
  PROVE  FiguresSeen(Telemetry(failed).content)
<1> DEFINE assets == Result(failed, <<"total_assets">>)
           shares == Result(failed, <<"total_shares">>)
           oracle == Result(failed, <<"get_telemetry">>)
<1>1. IsLive(failed)
  BY DEF Telemetry, Error
<1>2. assets # Failed /\ shares # Failed /\ oracle # Failed
  BY <1>1 DEF TelemetryThrows, TelemetryReads
<1>3. /\ assets \in Seen(<<"total_assets">>) /\ shares \in Seen(<<"total_shares">>)
      /\ oracle \in Seen(<<"get_telemetry">>)
  BY <1>2, ResultSeen
<1>4. /\ Telemetry(failed).content.assets = assets
      /\ Telemetry(failed).content.shares = shares
      /\ Telemetry(failed).content.idle = IdleAssets(assets, oracle.ratioBps)
      /\ Telemetry(failed).content.nav = oracle.nav
  BY <1>1 DEF Telemetry, LiveTelemetry, Ok
<1> QED
  BY <1>3, <1>4 DEF FiguresSeen

LEMMA AnswersSeen ==
  ASSUME CacheInv, NEW failed, NEW p \in Panels, ~(p = "earnVault" /\ TelemetryThrows(failed)),
         NEW answer \in PanelAnswers(p, failed), answer.status = 200
  PROVE  PanelSeen(p, answer.content)
<1>1. CASE p = "earnVault"
  BY <1>1, TelemetrySeen DEF PanelAnswers, PanelSeen, RoutePanels
<1>2. CASE p = "solvency"
  <2>1. PICK ledger \in Ledgers \cup {Failed} : answer = SolvencyProof(failed, ledger)
    BY <1>2 DEF PanelAnswers, RoutePanels
  <2>2. /\ Result(failed, <<"total_assets">>) # Failed
        /\ answer.content.reserves = Result(failed, <<"total_assets">>)
    BY <2>1 DEF SolvencyProof, SolvencyReport, Ok, Error
  <2> QED
    BY <1>2, <2>2, ResultSeen DEF PanelSeen, RoutePanels
<1>3. CASE p = "proposals"
  <2>1. answer = Proposals(failed)
    BY <1>3 DEF PanelAnswers, RoutePanels
  <2>2. \A n \in DOMAIN answer.content.proposals :
          /\ Result(failed, <<"get_proposal", n>>) # Failed
          /\ answer.content.proposals[n] = Result(failed, <<"get_proposal", n>>)
    <3> DEFINE read(n) == Result(failed, <<"get_proposal", n>>)
               count == ProposalCount(failed)
               complete == \A n \in 1..count : read(n) # Failed
    <3>1. answer.content.proposals = IF complete THEN [n \in 1..count |-> read(n)] ELSE <<>>
      BY <2>1 DEF Proposals, Ok
    <3>2. CASE complete
      <4>1. answer.content.proposals = [n \in 1..count |-> read(n)]
        BY <3>1, <3>2
      <4>2. \A n \in DOMAIN answer.content.proposals : n \in 1..count
        BY <4>1
      <4>3. \A n \in 1..count : answer.content.proposals[n] = read(n)
        BY <4>1
      <4>4. \A n \in 1..count : read(n) # Failed
        BY <3>2
      <4> SUFFICES ASSUME NEW n \in DOMAIN answer.content.proposals
                   PROVE  /\ read(n) # Failed
                          /\ answer.content.proposals[n] = read(n)
        OBVIOUS
      <4>5. n \in 1..count
        BY <4>2
      <4> QED
        BY <4>3, <4>4, <4>5
    <3>3. CASE ~complete
      <4>1. answer.content.proposals = <<>>
        BY <3>1, <3>3
      <4> QED
        BY <4>1
    <3> QED
      BY <3>2, <3>3
  <2>3. answer.content.config \in {DefaultConfig, Result(failed, <<"get_config">>)} \ {Failed}
          \/ answer.content.config = DefaultConfig
    BY <2>1 DEF Proposals, Ok
  <2>4. answer.content.config \in Seen(<<"get_config">>) \cup {DefaultConfig}
    BY <2>3, ResultSeen
  <2> QED
    BY <1>3, <2>2, <2>4, ResultSeen DEF PanelSeen, RoutePanels
<1>4. CASE p \in RoutePanels
  <2>1. answer = YieldRoutes(failed)
    BY <1>4 DEF PanelAnswers, RoutePanels
  <2>2. \A a \in DOMAIN answer.content :
          /\ Result(failed, Tvl(a)) # Failed
          /\ answer.content[a].tvl = Result(failed, Tvl(a))
          /\ answer.content[a].rate = Result(failed, Rate(a))
    BY <2>1 DEF YieldRoutes, Ok, Error
  <2> QED
    BY <1>4, <2>2, ResultSeen DEF PanelSeen, RoutePanels
<1>5. CASE p = "desk"
  <2>1. PICK stellarPair \in BOOLEAN, horizon \in Candles, gecko \in Candles, price \in Prices :
          answer = TradingDesk(MarketFeed(stellarPair, horizon, price, gecko))
    BY <1>5 DEF PanelAnswers, RoutePanels
  <2> DEFINE feed == MarketFeed(stellarPair, horizon, price, gecko)
  <2>2. /\ feed.candles # <<>> /\ feed.price # 0
        /\ answer.content.candles = feed.candles /\ answer.content.price = feed.price
    BY <2>1 DEF TradingDesk, Ok, Error
  <2>3. feed.candles \in Candles /\ feed.price \in Prices \cup {feed.candles[Len(feed.candles)].close}
    BY DEF MarketFeed
  <2> QED
    BY <1>5, <2>2, <2>3 DEF PanelSeen, RoutePanels
<1>6. TokenBalance(failed, Balance(Client)) \in Seen(Balance(Client)) \cup {0}
  BY ResultSeen DEF TokenBalance
<1>7. CASE p = "points"
  BY <1>6, <1>7 DEF PanelAnswers, PanelSeen, RoutePanels, Points, Ok
<1>8. CASE p = "balance"
  BY <1>6, <1>8 DEF PanelAnswers, PanelSeen, RoutePanels, TokenBalanceAnswer, Ok
<1>9. CASE p = "tickets"
  <2>1. answer = Tickets(failed, Client)
    BY <1>9 DEF PanelAnswers, RoutePanels
  <2>2. \A n \in answer.content :
          /\ Result(failed, Ticket(n)) \in Seen(Ticket(n)) \ {Failed}
          /\ Result(failed, Ticket(n)).user = Client
    BY <2>1, ResultSeen DEF Tickets, Ok
  <2> QED
    BY <1>9, <2>2 DEF PanelSeen, RoutePanels
<1>10. CASE p \notin {"earnVault", "solvency", "proposals", "desk", "points", "balance", "tickets"}
                       \cup RoutePanels
  BY <1>10 DEF PanelSeen, RoutePanels
<1> QED
  BY <1>1, <1>2, <1>3, <1>4, <1>5, <1>7, <1>8, <1>9, <1>10

LEMMA PanelReadsCovered ==
  ASSUME NEW p \in Panels, NEW failed
  PROVE  PanelReadsNow(p, failed) \cap Reads \subseteq PanelReads(p)
<1>1. CASE p \in RoutePanels
  BY <1>1 DEF RoutePanels, PanelReadsNow, PanelReads, RouteReads
<1>2. CASE p = "proposals"
  BY <1>2 DEF RoutePanels, PanelReadsNow, PanelReads, GovernanceReads
<1>3. CASE p \notin RoutePanels \cup {"proposals"}
  BY <1>3 DEF PanelReadsNow
<1> QED
  BY <1>1, <1>2, <1>3

----
(* Steps of the page                                                       *)

(* No new figure is shown, and at most one request is over or sent.        *)
NothingNew ==
    /\ shown' = [shown EXCEPT !.badge = shown'.badge]
    /\ panel' = panel
    /\ telemetry' = telemetry \/ \E q \in Requests, now \in {Free, Asked} :
                                   telemetry' = [telemetry EXCEPT ![q] = now]

(* What a step of the whole application may do to the page.                *)
PageStep ==
    \/ NothingNew
    \/ SwitchTier \/ RollUpFrame \/ RollUpEnds
    \/ \E q \in Requests : TelemetryDelivered(q)
    \/ \E q \in Requests, failed \in Failures(TelemetryReads) :
         /\ ~TelemetryThrows(failed)
         /\ telemetry' = [telemetry EXCEPT ![q] = Telemetry(failed)]
         /\ UNCHANGED <<shown, panel>>
    \/ \E p \in Panels : \E failed \in Failures(PanelReads(p)) :
         /\ ~(p = "earnVault" /\ TelemetryThrows(failed))
         /\ \E answer \in PanelAnswers(p, failed) : PanelAnswered(p, answer)
    \/ \E p \in Panels : OpenPanel(p) \/ PanelUnreachable(p)

LEMMA PageSteps ==
  ASSUME PageInv, [Next]_vars
  PROVE  PageStep
<1> USE DEF PageStep
<1>1. ASSUME UNCHANGED <<shown, telemetry, panel>>
      PROVE  NothingNew
  BY <1>1 DEF PageInv, NothingNew
<1>2. CASE Crash \/ Restart \/ WorldMoves \/ TimePasses \/ ProfileThrows \/ UNCHANGED vars
  BY <1>1, <1>2 DEF Crash, Restart, WorldMoves, TimePasses, ProfileThrows, vars, pageVars
<1>3. CASE UserActs
  <2>1. \/ UNCHANGED <<shown, telemetry, panel>>
        \/ SwitchTier
        \/ \E p \in Panels : OpenPanel(p)
    BY <1>3 DEF UserActs, ClickConsole, ClickConnect, AccessGranted, ClickDisconnect, ClickStake,
                ClickWithdraw, ClickBank, Signed, PromptDeclined, FlowFails
  <2> QED
    BY <1>1, <2>1
<1>4. CASE RollsUp
  BY <1>4 DEF RollsUp
<1>5. ASSUME NEW q \in Requests, RequestGoesOn(q)
      PROVE  PageStep
  <2>1. CASE TelemetryHandled(q)
    <3>1. PICK failed \in Failures(TelemetryReads) :
            IF TelemetryThrows(failed) THEN TelemetryUnreachable(q)
            ELSE /\ telemetry' = [telemetry EXCEPT ![q] = Telemetry(failed)]
                 /\ UNCHANGED <<shown, panel>>
      BY <2>1 DEF TelemetryHandled
    <3>2. CASE TelemetryThrows(failed)
      BY <3>1, <3>2 DEF TelemetryUnreachable, RequestEnds, NothingNew, PageInv
    <3>3. CASE ~TelemetryThrows(failed)
      BY <3>1, <3>3
    <3> QED
      BY <3>2, <3>3
  <2>2. CASE TelemetryDelivered(q)
    BY <2>2
  <2>3. CASE TelemetryUnreachable(q)
    BY <2>3 DEF TelemetryUnreachable, RequestEnds, NothingNew, PageInv
  <2> QED
    BY <1>5, <2>1, <2>2, <2>3 DEF RequestGoesOn
<1>6. ASSUME NEW q \in Polls, PollGoesOn(q)
      PROVE  PageStep
  <2>1. CASE TimerFires(q)
    BY <2>1 DEF TimerFires, PollTimer, NothingNew, PageInv, Requests
  <2> QED
    BY <1>5, <1>6, <2>1 DEF PollGoesOn, Requests
<1>7. ASSUME NEW b \in Buttons, FlowGoesOn(b)
      PROVE  PageStep
  <2>1. CASE ConsoleHandled(b)
    <3>1. CASE CycleAnswered(TriggerCycleAnswer)
      BY <3>1 DEF CycleAnswered, WithBreakers, NothingNew, PageInv
    <3>2. CASE b \in {"shock", "reset"} /\ ThenTelemetry(b)
      BY <3>2 DEF ThenTelemetry, NothingNew, PageInv, Requests
    <3>3. CASE X402Answered(X402Query)
      BY <1>1, <3>3 DEF X402Answered
    <3> QED
      BY <2>1, <3>1, <3>2, <3>3 DEF ConsoleHandled
  <2>2. CASE BuildHandled(b) \/ SubmitHandled(b) \/ FlowUnreachable(b)
    BY <1>1, <2>2 DEF BuildHandled, BuildAnswered, SubmitHandled, SubmitAnswered, FlowUnreachable,
                      FlowFails
  <2>3. CASE BalancesAnswered(b)
    <3>1. UNCHANGED <<shown, panel>>
      BY <2>3 DEF BalancesAnswered, XlmAnswered, SharesAnswered
    <3>2. telemetry' = telemetry \/ AfterBalances(b)
      BY <2>3 DEF BalancesAnswered, XlmAnswered, SharesAnswered
    <3> QED
      BY <3>1, <3>2 DEF AfterBalances, NothingNew, PageInv, Requests
  <2> QED
    BY <1>5, <1>7, <2>1, <2>2, <2>3 DEF FlowGoesOn
<1>8. ASSUME NEW p \in Panels, PanelGoesOn(p)
      PROVE  PageStep
  BY <1>8 DEF PanelGoesOn, PanelHandled
<1>9. CASE \/ \E a \in Addresses : ChallengeRoute(a)
           \/ \E c \in Challenges : FiveMinutesPass(c)
           \/ \E c \in Challenges, a \in Addresses, s \in Signatures : VerifyRoute(c, a, s)
           \/ \E user \in Users : ProfileRoute(user) \/ DepositRoute(user)
  <2>1. UNCHANGED pageVars
    BY <1>9 DEF ChallengeRoute, FiveMinutesPass, VerifyRoute, ProfileRoute, DepositRoute
  <2> QED
    BY <1>1, <2>1 DEF pageVars
<1> QED
  BY <1>2, <1>3, <1>4, <1>6, <1>7, <1>8, <1>9 DEF Next

(* What a step of the whole application may do to the cache and the chain. *)
LEMMA CacheKept ==
  ASSUME CacheInv, \/ UNCHANGED readerVars
                   \/ ReaderRestart /\ UNCHANGED chainVars
                   \/ (ChainMoves \/ NetChanges) /\ UNCHANGED cache
                   \/ CacheAges /\ UNCHANGED chainVars
  PROVE  CacheInv' /\ height' \in {height, height + 1}
<1>1. height' \in {height, height + 1} /\ net' \in {"up", "flaky", "down"}
  BY DEF readerVars, chainVars, ChainMoves, NetChanges, CacheInv
<1>2. height' \in Nat \ {0} /\ \A r : Seen(r) \subseteq Seen(r)'
  BY <1>1, SeenGrows
<1>3. ASSUME NEW r \in Reads
      PROVE  /\ cache'[r].age \in 0..2
             /\ cache'[r].age < 2 => cache'[r].value \in Seen(r) \ {Failed}
  <2>1. CASE cache' = cache
    BY <2>1 DEF CacheInv
  <2>2. CASE ReaderRestart
    BY <2>2 DEF ReaderRestart, NotCached
  <2>3. CASE CacheAges
    BY <2>3 DEF CacheAges, NotCached, CacheInv
  <2> QED
    BY <2>1, <2>2, <2>3 DEF readerVars
<1> QED
  BY <1>1, <1>2, <1>3 DEF CacheInv

LEMMA CacheSteps ==
  ASSUME CacheInv, [Next]_vars
  PROVE  CacheInv' /\ height' \in {height, height + 1}
<1>1. ASSUME NEW reads, NEW asked, reads \cap Reads \subseteq asked,
             NEW failed \in Failures(asked), Remember(reads, failed), UNCHANGED chainVars
      PROVE  CacheInv' /\ height' \in {height, height + 1}
  BY <1>1, RememberKeeps DEF chainVars
<1>2. CASE Crash \/ Restart \/ WorldMoves \/ TimePasses \/ UserActs \/ RollsUp \/ ProfileThrows
           \/ UNCHANGED vars
  BY <1>2, CacheKept DEF Crash, Restart, WorldMoves, TimePasses, UserActs, RollsUp, ProfileThrows, PageOnly,
                         HandlerThrows, ForgetMemory, vars
<1>3. ASSUME NEW q \in Requests, RequestGoesOn(q)
      PROVE  CacheInv' /\ height' \in {height, height + 1}
  <2>1. CASE TelemetryHandled(q)
    <3>1. PICK failed \in Failures(TelemetryReads) :
            \/ ReaderRestart /\ UNCHANGED chainVars
            \/ Remember(TelemetryReads, failed) /\ UNCHANGED chainVars
      BY <2>1 DEF TelemetryHandled, HandlerThrows, ForgetMemory
    <3> QED
      BY <1>1, <3>1, CacheKept
  <2> QED
    BY <1>3, <2>1, CacheKept DEF RequestGoesOn, PageOnly
<1>4. ASSUME NEW q \in Polls, PollGoesOn(q)
      PROVE  CacheInv' /\ height' \in {height, height + 1}
  BY <1>3, <1>4, CacheKept DEF PollGoesOn, TimerFires, PageOnly, Requests
<1>5. ASSUME NEW b \in Buttons, FlowGoesOn(b)
      PROVE  CacheInv' /\ height' \in {height, height + 1}
  BY <1>3, <1>5, CacheKept DEF FlowGoesOn, ConsoleHandled, BuildHandled, SubmitHandled,
                               FlowUnreachable, BalancesAnswered, PageOnly
<1>6. ASSUME NEW p \in Panels, PanelGoesOn(p)
      PROVE  CacheInv' /\ height' \in {height, height + 1}
  <2>1. CASE PanelHandled(p)
    <3>1. PICK failed \in Failures(PanelReads(p)) :
            \/ ReaderRestart /\ UNCHANGED chainVars
            \/ Remember(PanelReadsNow(p, failed), failed) /\ UNCHANGED chainVars
      BY <2>1 DEF PanelHandled, HandlerThrows, ForgetMemory
    <3> QED
      BY <1>1, <3>1, PanelReadsCovered, CacheKept
  <2> QED
    BY <1>6, <2>1, CacheKept DEF PanelGoesOn, PageOnly
<1>7. CASE \/ \E a \in Addresses : ChallengeRoute(a)
           \/ \E c \in Challenges : FiveMinutesPass(c)
           \/ \E c \in Challenges, a \in Addresses, s \in Signatures : VerifyRoute(c, a, s)
           \/ \E user \in Users : ProfileRoute(user) \/ DepositRoute(user)
  <2>1. UNCHANGED readerVars
    BY <1>7 DEF ChallengeRoute, FiveMinutesPass, VerifyRoute, ProfileRoute, DepositRoute
  <2> QED
    BY <2>1, CacheKept
<1> QED
  BY <1>2, <1>4, <1>5, <1>6, <1>7 DEF Next

LEMMA PagePreserved ==
  ASSUME CacheInv, PageInv, PageStep, height' \in {height, height + 1}
  PROVE  PageInv'
<1>1. /\ \A figures : FiguresSeen(figures) => FiguresSeen(figures)'
      /\ \A cards : CardsSeen(cards) => CardsSeen(cards)'
  BY SeenGrows
<1>2. \A p, content : PanelSeen(p, content) => PanelSeen(p, content)'
  BY SeenGrows
<1>3. CASE NothingNew
  BY <1>1, <1>2, <1>3 DEF NothingNew, PageInv, FiguresHaveASource, Free, Asked
<1>4. ASSUME NEW q \in Requests, TelemetryDelivered(q)
      PROVE  PageInv'
  (* The figures shown are those of the answer. *)
  <2>1. /\ telemetry' = [telemetry EXCEPT ![q] = [status |-> 0]]
        /\ panel' = panel
        /\ shown' = IF telemetry[q].status = 200 THEN WithTelemetry(shown, telemetry[q].content)
                    ELSE shown
    BY <1>4 DEF TelemetryDelivered, RequestEnds, Free
  <2>2. /\ shown' = [assets |-> shown'.assets, idle |-> shown'.idle, cards |-> shown'.cards,
                     badge |-> shown'.badge, rolling |-> shown'.rolling]
        /\ CardsSeen(shown'.cards)
        /\ CardsSeen(Metrics(shown'.assets, shown'.idle))
    <3> DEFINE content == telemetry[q].content
               assets == WholeXlm(content.assets)
               idle == WholeXlm(content.idle)
    <3>1. CASE telemetry[q].status = 200
      <4>1. shown' = [assets |-> assets, idle |-> idle, cards |-> Metrics(assets, idle),
                      badge |-> Badge(content.breaker), rolling |-> shown.rolling]
        BY <2>1, <3>1 DEF WithTelemetry, UpdateMetrics, PageInv
      <4>2. FiguresSeen(content)
        BY <3>1 DEF PageInv
      <4>3. CardsSeen(Metrics(assets, idle))
        BY <4>2 DEF FiguresSeen, CardsSeen, MetricsOf
      <4> HIDE DEF assets, idle
      <4> QED
        BY <4>1, <4>3
    <3>2. CASE telemetry[q].status # 200
      BY <2>1, <3>2 DEF PageInv, FiguresHaveASource
    <3> QED
      BY <3>1, <3>2
  <2> QED
    BY <1>1, <1>2, <2>1, <2>2 DEF PageInv, FiguresHaveASource
<1>5. CASE SwitchTier \/ RollUpFrame \/ RollUpEnds
  (* The telemetry last applied, or the cards of a page that has read nothing. *)
  <2>1. /\ UNCHANGED <<telemetry, panel>>
        /\ shown' = [assets |-> shown.assets, idle |-> shown.idle, cards |-> shown'.cards,
                     badge |-> shown.badge, rolling |-> shown'.rolling]
        /\ shown'.cards \in {Metrics(shown.assets, shown.idle), RolledTo(10000), RolledTo(Nav(0))}
    <3>1. shown = [assets |-> shown.assets, idle |-> shown.idle, cards |-> shown.cards,
                   badge |-> shown.badge, rolling |-> shown.rolling]
      BY DEF PageInv
    <3>2. CASE SwitchTier
      BY <3>1, <3>2 DEF SwitchTier, UpdateMetrics
    <3>3. CASE RollUpFrame
      BY <3>1, <3>3 DEF RollUpFrame
    <3>4. CASE RollUpEnds
      <4> DEFINE cards == RolledTo(Nav(0))
      <4>1. shown' = [shown EXCEPT !.cards = cards, !.rolling = FALSE]
        BY <3>4 DEF RollUpEnds
      <4>2. UNCHANGED <<telemetry, panel>>
        BY <3>4 DEF RollUpEnds
      <4> HIDE DEF cards
      <4>3. shown' = [assets |-> shown.assets, idle |-> shown.idle, cards |-> cards,
                      badge |-> shown.badge, rolling |-> FALSE]
        BY <3>1, <4>1
      <4>4. shown'.cards = cards
        BY <4>3
      <4> QED
        BY <4>2, <4>3, <4>4 DEF cards
    <3> QED
      BY <1>5, <3>2, <3>3, <3>4
  <2>2. RolledTo(Nav(0)) = Metrics(0, 0)
    BY DEF RolledTo, Metrics
  <2>3. CardsSeen(shown'.cards) /\ CardsSeen(Metrics(shown'.assets, shown'.idle))
    BY <2>1, <2>2 DEF PageInv, CardsSeen, Unread
  <2> QED
    BY <1>1, <1>2, <2>1, <2>3 DEF PageInv, FiguresHaveASource
<1>6. ASSUME NEW q \in Requests, NEW failed \in Failures(TelemetryReads), ~TelemetryThrows(failed),
             telemetry' = [telemetry EXCEPT ![q] = Telemetry(failed)], UNCHANGED <<shown, panel>>
      PROVE  PageInv'
  BY <1>1, <1>2, <1>6, TelemetrySeen DEF PageInv, FiguresHaveASource
<1>7. ASSUME NEW p \in Panels, NEW answer, PanelAnswered(p, answer),
             answer.status = 200 => PanelSeen(p, answer.content)
      PROVE  PageInv'
  <2>1. UNCHANGED <<shown, telemetry>> /\ panel' = [panel EXCEPT ![p] = PanelAfter(p, answer)]
    BY <1>7 DEF PanelAnswered
  <2>2. CASE p = "inclusion"
    <3>1. \A content : PanelSeen("inclusion", content)'
      BY DEF PanelSeen, RoutePanels
    <3> QED
      BY <1>1, <1>2, <2>1, <2>2, <3>1 DEF PageInv, FiguresHaveASource
  <2>3. CASE p # "inclusion"
    <3>1. PanelAfter(p, answer) = answer \/ PanelAfter(p, answer) = panel[p]
      BY <2>3 DEF PanelAfter
    <3> QED
      BY <1>1, <1>2, <1>7, <2>1, <3>1 DEF PageInv, FiguresHaveASource
  <2> QED
    BY <2>2, <2>3
<1>8. ASSUME NEW p \in Panels, OpenPanel(p) \/ PanelUnreachable(p)
      PROVE  PageInv'
  BY <1>1, <1>2, <1>8 DEF OpenPanel, PanelUnreachable, Blank, Error, PageInv, FiguresHaveASource
<1> QED
  BY <1>3, <1>4, <1>5, <1>6, <1>7, <1>8, AnswersSeen DEF PageStep

(* Every card and panel of the page shows what it shows unread or figures  *)
(* derived from what the chain or the market had, whichever reads fail     *)
(* together, in whatever order the answers arrive, whatever was cached and *)
(* whatever the rollup or a change of tier writes over it.                 *)
THEOREM FiguresAreTraced == Spec => []FiguresHaveASource
<1>1. CacheInv /\ PageInv /\ [Next]_vars => (CacheInv /\ PageInv)'
  BY CacheSteps, PageSteps, PagePreserved
<1>2. PageInv => FiguresHaveASource
  BY DEF PageInv
<1> QED
  BY ShownInitially, <1>1, <1>2, PTL DEF Spec

----
(* What a history adds up to                                               *)

Transactions == [vault : VaultTypes, amount : Nat]

Share(t, vault) == IF t.vault = vault THEN t.amount ELSE 0

LEMMA HistoryAddsUp ==
  ASSUME NEW h \in Seq(Transactions), NEW v
  PROVE  /\ DepositsOf(h, v) \in [1..Len(h) -> Nat]
         /\ \A i \in 1..Len(h) : DepositsOf(h, v)[i] = Share(h[i], v)
         /\ HistoryTotal(h, v) \in Nat
         /\ h = <<>> => HistoryTotal(h, v) = 0
<1> DEFINE f == DepositsOf(h, v)
<1>1. \A i \in 1..Len(h) : h[i].amount \in Nat
  <2>1. \A i \in 1..Len(h) : h[i] \in Transactions
    OBVIOUS
  <2>2. \A t \in Transactions : t.amount \in Nat
    BY DEF Transactions
  <2> QED
    BY <2>1, <2>2
<1>2. DOMAIN h = 1..Len(h)
  OBVIOUS
<1>3. f = [i \in 1..Len(h) |-> Share(h[i], v)]
  BY <1>2 DEF DepositsOf, Share
<1>4. f \in [1..Len(h) -> Nat]
  BY <1>1, <1>3 DEF Share
<1>5. \A i \in 1..Len(h) : f[i] = Share(h[i], v)
  BY <1>3
<1>6. IsFiniteSet(1..Len(h))
  BY FS_Interval
<1> HIDE DEF f
<1>7. Total(f) \in Nat
  BY <1>4, <1>6, TotalBounds
<1>8. h = <<>> => Total(f) = 0
  <2>1. h = <<>> => f \in [{} -> Nat]
    BY <1>4
  <2> QED
    BY <2>1, TotalZero
<1> QED
  BY <1>4, <1>5, <1>7, <1>8 DEF HistoryTotal, f

(* The newest transaction adds its amount, though every other one moves.   *)
LEMMA NewestCounted ==
  ASSUME NEW h \in Seq(Transactions), NEW t \in Transactions, NEW v
  PROVE  HistoryTotal(<<t>> \o h, v) = HistoryTotal(h, v) + Share(t, v)
<1> DEFINE n == Len(h)
           S == 1..n
           D == 1..n + 1
           q == <<t>> \o h
           f == DepositsOf(h, v)
           g == DepositsOf(q, v)
           e == [i \in D |-> IF i = n + 1 THEN Share(t, v) ELSE f[i]]
           b == [i \in D |-> IF i = 1 THEN n + 1 ELSE i - 1]
<1>1. n \in Nat /\ S \cup {n + 1} = D /\ n + 1 \notin S
  OBVIOUS
<1>2. /\ q \in Seq(Transactions) /\ Len(q) = n + 1
      /\ q[1] = t /\ \A i \in S : q[i + 1] = h[i]
  OBVIOUS
<1>3. /\ f \in [S -> Nat]
      /\ \A i \in S : f[i] = Share(h[i], v)
  BY HistoryAddsUp
<1>4. /\ g \in [D -> Nat]
      /\ \A i \in D : g[i] = Share(q[i], v)
  <2> HIDE DEF q
  <2> QED
    BY <1>2, HistoryAddsUp
<1>5. Share(t, v) \in Nat
  BY DEF Share, Transactions
<1> HIDE DEF f, g, q
<1>6. /\ e \in [S \cup {n + 1} -> Nat]
      /\ e[n + 1] = Share(t, v)
      /\ \A i \in S : e[i] = f[i]
  BY <1>1, <1>3, <1>5
<1>7. b \in Bijection(D, D)
  <2>1. b \in [D -> D]
    OBVIOUS
  <2>2. \A x, y \in D : b[x] = b[y] => x = y
    OBVIOUS
  <2>3. \A y \in D : \E x \in D : b[x] = y
    <3> SUFFICES ASSUME NEW y \in D PROVE \E x \in D : b[x] = y
      OBVIOUS
    <3>1. CASE y = n + 1
      <4>1. 1 \in D /\ b[1] = y
        BY <3>1
      <4> QED
        BY <4>1
    <3>2. CASE y # n + 1
      <4>1. y + 1 \in D /\ b[y + 1] = y
        BY <3>2
      <4> QED
        BY <4>1
    <3> QED
      BY <3>1, <3>2
  <2> HIDE DEF b
  <2> QED
    BY <2>1, <2>2, <2>3 DEF Bijection, Injection, Surjection, IsInjective
<1>8. \A i \in D : b[i] \in D /\ g[i] = e[b[i]]
  <2> SUFFICES ASSUME NEW i \in D PROVE b[i] \in D /\ g[i] = e[b[i]]
    OBVIOUS
  <2>1. CASE i = 1
    BY <1>2, <1>4, <1>6, <2>1
  <2>2. CASE i # 1
    <3>1. i - 1 \in S /\ (i - 1) + 1 = i /\ b[i] = i - 1
      BY <2>2
    <3>2. q[i] = h[i - 1]
      BY <1>2, <3>1
    <3>3. e[i - 1] = f[i - 1] /\ f[i - 1] = Share(h[i - 1], v)
      BY <1>3, <1>6, <3>1
    <3> QED
      BY <1>4, <3>1, <3>2, <3>3
  <2> QED
    BY <2>1, <2>2
<1> HIDE DEF e, b
<1>9. g = [i \in D |-> e[b[i]]]
  BY <1>4, <1>8
<1>10. IsFiniteSet(S) /\ IsFiniteSet(D)
  BY FS_Interval
<1>11. Total(g) = Total(e)
  <2>1. e \in [D -> Nat]
    BY <1>1, <1>6
  <2> HIDE DEF D
  <2> QED
    BY <1>7, <1>9, <1>10, <2>1, TotalReindex
<1>12. Total(e) = Total(f) + e[n + 1]
  <2> DEFINE last == n + 1
  <2>1. last \notin S
    BY <1>1
  <2>2. IsFiniteSet(S)
    BY <1>10
  <2>3. f \in [S -> Nat]
    BY <1>3
  <2>4. e \in [S \cup {last} -> Nat]
    BY <1>6
  <2>5. \A i \in S : e[i] = f[i]
    BY <1>6
  <2> HIDE DEF S, last
  <2>6. \A k \in [S \cup {last} -> Nat] :
          (\A i \in S : k[i] = f[i]) => Total(k) = Total(f) + k[last]
    BY <2>1, <2>2, <2>3, TotalExtend
  <2>7. Total(e) = Total(f) + e[last]
    BY <2>4, <2>5, <2>6
  <2> QED
    BY <2>7 DEF last
<1> QED
  BY <1>6, <1>11, <1>12 DEF HistoryTotal, f, g, q

(* Without its oldest transaction a history adds up to no more.            *)
LEMMA OldestDropped ==
  ASSUME NEW h \in Seq(Transactions), Len(h) # 0, NEW v
  PROVE  HistoryTotal(SubSeq(h, 1, Len(h) - 1), v) <= HistoryTotal(h, v)
<1> DEFINE n == Len(h) - 1
           S == 1..n
           q == SubSeq(h, 1, n)
           f == DepositsOf(q, v)
           g == DepositsOf(h, v)
<1>1. n \in Nat /\ S \cup {n + 1} = 1..Len(h) /\ n + 1 \notin S
  OBVIOUS
<1>2. q \in Seq(Transactions) /\ Len(q) = n /\ \A i \in S : q[i] = h[i]
  <2>1. q = [i \in 1..n |-> h[i]]
    BY <1>1
  <2>2. \A i \in 1..n : h[i] \in Transactions
    BY <1>1
  <2> HIDE DEF n
  <2> QED
    BY <1>1, <2>1, <2>2
<1>3. /\ f \in [S -> Nat]
      /\ \A i \in S : f[i] = Share(q[i], v)
      /\ Total(f) \in Nat
  <2> HIDE DEF q
  <2> QED
    BY <1>2, HistoryAddsUp DEF HistoryTotal
<1>4. /\ g \in [S \cup {n + 1} -> Nat]
      /\ \A i \in S \cup {n + 1} : g[i] = Share(h[i], v)
  BY <1>1, HistoryAddsUp
<1> HIDE DEF f, g, q
<1>5. \A i \in S : g[i] = f[i]
  BY <1>2, <1>3, <1>4
<1>6. IsFiniteSet(S)
  BY FS_Interval
<1>7. Total(g) = Total(f) + g[n + 1]
  <2> DEFINE last == n + 1
  <2>1. last \notin S
    BY <1>1
  <2>2. IsFiniteSet(S)
    BY <1>6
  <2>3. f \in [S -> Nat]
    BY <1>3
  <2>4. g \in [S \cup {last} -> Nat]
    BY <1>4
  <2>5. \A i \in S : g[i] = f[i]
    BY <1>5
  <2> HIDE DEF S, last
  <2>6. \A k \in [S \cup {last} -> Nat] :
          (\A i \in S : k[i] = f[i]) => Total(k) = Total(f) + k[last]
    BY <2>1, <2>2, <2>3, TotalExtend
  <2>7. Total(g) = Total(f) + g[last]
    BY <2>4, <2>5, <2>6
  <2> QED
    BY <2>7 DEF last
<1>8. g[n + 1] \in Nat
  BY <1>4
<1> QED
  BY <1>3, <1>7, <1>8 DEF HistoryTotal, f, g, q

(* History q is h with t as its newest transaction, as far as it is kept.  *)
Continues(q, h, t) ==
    /\ q \in Seq(Transactions)
    /\ Len(q) \in 1..HistoryCap
    /\ Len(q) < HistoryCap => Len(h) < HistoryCap
    /\ \A v : /\ HistoryTotal(q, v) <= HistoryTotal(h, v) + Share(t, v)
              /\ Len(q) < HistoryCap =>
                   HistoryTotal(q, v) = HistoryTotal(h, v) + Share(t, v)

(* What recordTransaction leaves of a history.                             *)
LEMMA RecentContinues ==
  ASSUME NEW h \in Seq(Transactions), Len(h) <= HistoryCap, NEW t \in Transactions
  PROVE  Continues(Recent(<<t>> \o h), h, t)
<1> DEFINE long == <<t>> \o h
           q == Recent(long)
<1>1. long \in Seq(Transactions) /\ Len(long) = Len(h) + 1
  OBVIOUS
<1>2. HistoryCap \in Nat \ {0}
  BY StoreAssumption
<1>3. \A v : /\ HistoryTotal(long, v) = HistoryTotal(h, v) + Share(t, v)
             /\ HistoryTotal(long, v) \in Nat
  BY <1>1, NewestCounted, HistoryAddsUp
<1> HIDE DEF long, q
<1>4. ASSUME Len(h) < HistoryCap
      PROVE  Continues(q, h, t)
  <2>1. q = long
    BY <1>1, <1>2, <1>4 DEF Recent, q
  <2> QED
    <3>1. Len(q) \in 1..HistoryCap
      BY <1>1, <1>2, <1>4, <2>1
    <3>2. \A v : HistoryTotal(q, v) = HistoryTotal(h, v) + Share(t, v) /\ HistoryTotal(q, v) \in Nat
      BY <1>3, <2>1
    <3>3. \A v : HistoryTotal(q, v) <= HistoryTotal(h, v) + Share(t, v)
      BY <3>2
    <3> QED
      BY <1>1, <1>4, <2>1, <3>1, <3>2, <3>3 DEF Continues
<1>5. ASSUME Len(h) = HistoryCap
      PROVE  Continues(q, h, t)
  <2>1. q = SubSeq(long, 1, Len(long) - 1)
    BY <1>1, <1>2, <1>5 DEF Recent, q
  <2>2. q \in Seq(Transactions) /\ Len(q) = HistoryCap
    BY <1>1, <1>2, <1>5, <2>1
  <2>3. \A v : HistoryTotal(q, v) <= HistoryTotal(long, v)
    <3>1. Len(long) # 0
      BY <1>1, <1>2, <1>5
    <3> QED
      BY <1>1, <2>1, <3>1, OldestDropped
  <2>4. \A v : HistoryTotal(q, v) <= HistoryTotal(h, v) + Share(t, v)
    BY <1>3, <2>3
  <2> QED
    BY <1>2, <2>2, <2>4 DEF Continues
<1> QED
  BY <1>2, <1>4, <1>5 DEF q, long

----
(* Deposits                                                                *)

WellKept(tables) ==
    /\ tables = [users |-> tables.users, portfolio |-> tables.portfolio,
                 transactions |-> tables.transactions]
    /\ tables.portfolio \in [Users -> [VaultTypes -> Nat]]
    /\ tables.transactions \in [Users -> Seq(Transactions)]
    /\ \A u \in Users : Len(tables.transactions[u]) <= HistoryCap
    /\ Balanced(tables)

Raised(counts, user, vault, amount) == [counts EXCEPT ![user][vault] = @ + amount]

Covers(tables, counts) ==
    \A u \in Users, v \in VaultTypes : counts[u][v] <= tables.portfolio[u][v]

(* A process that runs holds what was acknowledged, and so does what the   *)
(* next one will load, unless the last write failed.                       *)
StoreInv ==
    /\ WellKept(table)
    /\ file = Torn \/ WellKept(file)
    /\ acked \in [Users -> [VaultTypes -> Nat]]
    /\ up => Covers(table, acked)
    /\ ~unsaved => Covers(Loaded, acked)

LEMMA EmptyKept ==
  /\ WellKept(Empty) /\ Empty # Torn
  /\ Empty.portfolio \in [Users -> [VaultTypes -> Nat]]
  /\ Covers(Empty, Empty.portfolio)
<1>1. /\ \A u \in Users : Empty.transactions[u] = <<>>
      /\ \A u \in Users, v \in VaultTypes : Empty.portfolio[u][v] = 0
      /\ Empty.portfolio \in [Users -> [VaultTypes -> Nat]]
      /\ Empty.transactions \in [Users -> Seq(Transactions)]
      /\ Empty = [users |-> Empty.users, portfolio |-> Empty.portfolio,
                  transactions |-> Empty.transactions]
  BY DEF Empty
<1>2. Empty # Torn
  <2>1. DOMAIN Empty = {"users", "portfolio", "transactions"} /\ DOMAIN Torn = {"torn"}
    BY DEF Empty, Torn
  <2> QED
    BY <2>1
<1>3. \A v : HistoryTotal(<<>>, v) = 0
  <2>1. <<>> \in Seq(Transactions)
    OBVIOUS
  <2> QED
    BY <2>1, HistoryAddsUp
<1>4. \A u \in Users : Len(Empty.transactions[u]) = 0
  BY <1>1
<1>5. HistoryCap \in Nat \ {0}
  BY StoreAssumption
<1>6. Balanced(Empty)
  BY <1>1, <1>3, <1>4, <1>5 DEF Balanced
<1>7. Covers(Empty, Empty.portfolio)
  BY <1>1 DEF Covers
<1> QED
  BY <1>1, <1>2, <1>4, <1>5, <1>6, <1>7 DEF WellKept

LEMMA KeptIsNotTorn ==
  ASSUME NEW tables, WellKept(tables)
  PROVE  tables # Torn
<1>1. tables = [users |-> tables.users, portfolio |-> tables.portfolio,
                transactions |-> tables.transactions]
  BY DEF WellKept
<1>2. DOMAIN tables = {"users", "portfolio", "transactions"} /\ DOMAIN Torn = {"torn"}
  BY <1>1 DEF Torn
<1> QED
  BY <1>2

(* Portfolio and history change by the same amount.                        *)
LEMMA DepositKept ==
  ASSUME WellKept(table), NEW user \in Users, NEW vault \in VaultTypes, NEW amount \in Amounts
  PROVE  /\ WellKept(Deposited(user, vault, amount))
         /\ Deposited(user, vault, amount).portfolio = Raised(table.portfolio, user, vault, amount)
<1> DEFINE tables == Deposited(user, vault, amount)
           t == Transaction(vault, amount)
           h == table.transactions[user]
           q == Recent(<<t>> \o h)
<1>1. amount \in Nat /\ HistoryCap \in Nat \ {0}
  BY StoreAssumption
<1>2. t \in Transactions /\ \A v : Share(t, v) = IF v = vault THEN amount ELSE 0
  BY <1>1 DEF Transaction, Transactions, Share
<1>3. h \in Seq(Transactions) /\ Len(h) <= HistoryCap
  BY DEF WellKept
<1>4. tables = [users |-> table.users,
                portfolio |-> [table.portfolio EXCEPT ![user][vault] = @ + amount],
                transactions |-> [table.transactions EXCEPT ![user] = q]]
  <2> DEFINE p == [table.portfolio EXCEPT ![user][vault] = @ + amount]
  <2>1. table = [users |-> table.users, portfolio |-> table.portfolio,
                 transactions |-> table.transactions]
    BY DEF WellKept
  <2> DEFINE w == WithPortfolio(table, user, vault, amount)
  <2>2. w = [users |-> table.users, portfolio |-> p, transactions |-> table.transactions]
    <3>1. w = [table EXCEPT !.portfolio = p]
      BY DEF WithPortfolio
    <3> HIDE DEF p, w
    <3> QED
      BY <2>1, <3>1
  <2>3. tables = [w EXCEPT !.transactions[user] = Recent(<<t>> \o @)]
    BY DEF Deposited, WithTransaction
  <2> HIDE DEF p, w, tables, t
  <2>4. tables = [users |-> table.users, portfolio |-> p,
                  transactions |-> [table.transactions EXCEPT ![user] = Recent(<<t>> \o @)]]
    BY <2>2, <2>3
  <2> QED
    BY <2>4 DEF p
<1> HIDE DEF tables, t, h
<1>5. Continues(q, h, t)
  BY <1>2, <1>3, RecentContinues
<1>6. \A v : HistoryTotal(q, v) \in Nat /\ HistoryTotal(h, v) \in Nat
  <2> HIDE DEF q
  <2> QED
    BY <1>3, <1>5, HistoryAddsUp DEF Continues
<1> HIDE DEF q
<1>7. /\ tables.portfolio \in [Users -> [VaultTypes -> Nat]]
      /\ \A v \in VaultTypes : tables.portfolio[user][v] = table.portfolio[user][v] + Share(t, v)
      /\ \A u \in Users \ {user} : tables.portfolio[u] = table.portfolio[u]
      /\ \A u \in Users, v \in VaultTypes : table.portfolio[u][v] \in Nat
  <2> DEFINE row == [table.portfolio[user] EXCEPT ![vault] = @ + amount]
  <2>1. table.portfolio \in [Users -> [VaultTypes -> Nat]]
    BY DEF WellKept
  <2>2. /\ row \in [VaultTypes -> Nat]
        /\ \A v \in VaultTypes : row[v] = table.portfolio[user][v] + Share(t, v)
    BY <1>1, <1>2, <2>1
  <2>3. tables.portfolio = [table.portfolio EXCEPT ![user] = row]
    BY <1>4
  <2> HIDE DEF row
  <2> QED
    BY <2>1, <2>2, <2>3
<1>8. /\ tables.transactions \in [Users -> Seq(Transactions)]
      /\ tables.transactions[user] = q
      /\ \A u \in Users \ {user} : tables.transactions[u] = table.transactions[u]
      /\ \A u \in Users : Len(tables.transactions[u]) <= HistoryCap
  <2>1. /\ table.transactions \in [Users -> Seq(Transactions)]
        /\ \A u \in Users : Len(table.transactions[u]) <= HistoryCap
    BY DEF WellKept
  <2>2. tables.transactions = [table.transactions EXCEPT ![user] = q]
    BY <1>4
  <2> QED
    BY <1>5, <2>1, <2>2 DEF Continues
<1>9. Balanced(tables)
  <2> SUFFICES ASSUME NEW u \in Users, NEW v \in VaultTypes
               PROVE  IF Len(tables.transactions[u]) < HistoryCap
                      THEN tables.portfolio[u][v] = HistoryTotal(tables.transactions[u], v)
                      ELSE tables.portfolio[u][v] >= HistoryTotal(tables.transactions[u], v)
    BY DEF Balanced
  <2>1. IF Len(table.transactions[u]) < HistoryCap
        THEN table.portfolio[u][v] = HistoryTotal(table.transactions[u], v)
        ELSE table.portfolio[u][v] >= HistoryTotal(table.transactions[u], v)
    BY DEF WellKept, Balanced
  <2>2. CASE u # user
    BY <1>7, <1>8, <2>1, <2>2
  <2>3. CASE u = user
    <3>1. /\ tables.portfolio[u][v] = table.portfolio[u][v] + Share(t, v)
          /\ tables.transactions[u] = q
          /\ table.portfolio[u][v] \in Nat /\ Share(t, v) \in Nat
      <4>1. Share(t, v) \in Nat
        BY <1>1, <1>2
      <4>2. tables.portfolio[user][v] = table.portfolio[user][v] + Share(t, v)
        BY <1>7
      <4> QED
        BY <1>7, <1>8, <2>3, <4>1, <4>2
    <3>2. IF Len(h) < HistoryCap THEN table.portfolio[u][v] = HistoryTotal(h, v)
                                 ELSE table.portfolio[u][v] >= HistoryTotal(h, v)
      BY <2>1, <2>3 DEF h
    <3>3. CASE Len(q) < HistoryCap
      <4>1. table.portfolio[u][v] = HistoryTotal(h, v)
        BY <1>5, <3>2, <3>3 DEF Continues
      <4> QED
        BY <1>5, <3>1, <3>3, <4>1 DEF Continues
    <3>4. CASE ~(Len(q) < HistoryCap)
      <4>1. table.portfolio[u][v] >= HistoryTotal(h, v)
        BY <1>6, <3>1, <3>2
      <4>2. HistoryTotal(q, v) <= HistoryTotal(h, v) + Share(t, v)
        BY <1>5 DEF Continues
      <4>3. tables.portfolio[u][v] >= HistoryTotal(q, v)
        BY <1>6, <3>1, <4>1, <4>2
      <4> QED
        BY <3>1, <3>4, <4>3
    <3> QED
      BY <3>3, <3>4
  <2> QED
    BY <2>2, <2>3
<1>10. tables = [users |-> tables.users, portfolio |-> tables.portfolio,
                 transactions |-> tables.transactions]
  BY <1>4
<1> QED
  BY <1>4, <1>7, <1>8, <1>9, <1>10 DEF WellKept, Raised, tables

(* What a step of the whole application may do to the store.               *)
StoreStep ==
    \/ UNCHANGED storeVars /\ up' = up
    \/ StoreCrash /\ ~up'
    \/ up /\ ~up' /\ \E user \in Users, vault \in VaultTypes, amount \in Amounts :
                        CrashInDeposit(user, vault, amount)
    \/ ~up /\ InitializeStorage
    \/ up /\ \E user : GetOrCreateUserProfile(user)
    \/ up /\ \E user \in Users, vault \in VaultTypes, amount \in Amounts :
                RecordDeposit(user, vault, amount)
    \/ up /\ \E user \in Users : RefuseDeposit(user)

LEMMA StoreSteps ==
  ASSUME [Next]_vars
  PROVE  StoreStep
<1> USE DEF StoreStep
<1>1. CASE Crash
  BY <1>1 DEF Crash, ServerEnds
<1>2. CASE Restart
  BY <1>2 DEF Restart, ServerStarts
<1>3. ASSUME UNCHANGED <<serviceVars, serverVars>>
      PROVE  StoreStep
  BY <1>3 DEF serviceVars, serverVars
<1>4. CASE WorldMoves \/ TimePasses \/ UserActs \/ RollsUp \/ UNCHANGED vars
  BY <1>3, <1>4 DEF WorldMoves, TimePasses, UserActs, RollsUp, PageOnly, vars, serviceVars
<1>5. ASSUME HandlerThrows
      PROVE  StoreStep
  BY <1>5 DEF HandlerThrows, ForgetMemory, ServerEnds
<1>6. ASSUME NEW q \in Requests, RequestGoesOn(q)
      PROVE  StoreStep
  BY <1>3, <1>5, <1>6 DEF RequestGoesOn, TelemetryHandled, PageOnly
<1>7. ASSUME NEW q \in Polls, PollGoesOn(q)
      PROVE  StoreStep
  BY <1>3, <1>6, <1>7 DEF PollGoesOn, TimerFires, PageOnly, Requests
<1>8. ASSUME NEW b \in Buttons, FlowGoesOn(b)
      PROVE  StoreStep
  <2>1. CASE ConsoleHandled(b)
    BY <2>1 DEF ConsoleHandled, serviceVars
  <2>2. CASE BuildHandled(b) \/ SubmitHandled(b) \/ FlowUnreachable(b) \/ BalancesAnswered(b)
    BY <1>3, <2>2 DEF BuildHandled, SubmitHandled, FlowUnreachable, BalancesAnswered, PageOnly
  <2> QED
    BY <1>6, <1>8, <2>1, <2>2 DEF FlowGoesOn
<1>9. ASSUME NEW p \in Panels, PanelGoesOn(p)
      PROVE  StoreStep
  BY <1>3, <1>5, <1>9 DEF PanelGoesOn, PanelHandled, PageOnly
<1>10. CASE \/ \E a \in Addresses : ChallengeRoute(a)
            \/ \E c \in Challenges : FiveMinutesPass(c)
  BY <1>10 DEF ChallengeRoute, FiveMinutesPass, serverVars
<1>11. ASSUME NEW c \in Challenges, NEW a \in Addresses, NEW s \in Signatures, VerifyRoute(c, a, s)
       PROVE  StoreStep
  BY <1>11 DEF VerifyRoute, serverVars
<1>12. ASSUME NEW user \in Users, ProfileRoute(user) \/ DepositRoute(user)
       PROVE  StoreStep
  BY <1>12 DEF ProfileRoute, DepositRoute
<1>13. CASE ProfileThrows
  BY <1>5, <1>13 DEF ProfileThrows
<1> QED
  BY <1>1, <1>2, <1>4, <1>7, <1>8, <1>9, <1>10, <1>11, <1>12, <1>13 DEF Next

LEMMA StoreInitially == Init => StoreInv
  BY EmptyKept DEF Init, StoreInit, StoreInv, Loaded

(* Writing tables that are well kept and cover what is acknowledged.       *)
LEMMA WrittenKept ==
  ASSUME StoreInv, NEW written, WellKept(written), Covers(written, acked'), PersistState(written)
  PROVE  /\ file' = Torn \/ WellKept(file')
         /\ ~unsaved' => Covers(Loaded', acked')
<1>1. CASE file' = written /\ unsaved' = FALSE
  BY <1>1, KeptIsNotTorn DEF Loaded
<1>2. CASE file' \in {file, Torn} /\ unsaved' = TRUE
  BY <1>2 DEF StoreInv
<1> QED
  BY <1>1, <1>2 DEF PersistState

(* Counts stay covered when what covers them grows, and when both do.      *)
LEMMA MoreCovers ==
  ASSUME StoreInv, up, NEW user \in Users, NEW vault \in VaultTypes, NEW amount \in Amounts,
         NEW tables, tables.portfolio = Raised(table.portfolio, user, vault, amount)
  PROVE  /\ Covers(tables, acked)
         /\ Covers(tables, Raised(acked, user, vault, amount))
         /\ Raised(acked, user, vault, amount) \in [Users -> [VaultTypes -> Nat]]
<1> DEFINE more == Raised(acked, user, vault, amount)
<1>1. /\ amount \in Nat
      /\ table.portfolio \in [Users -> [VaultTypes -> Nat]]
      /\ acked \in [Users -> [VaultTypes -> Nat]]
  BY StoreAssumption DEF StoreInv, WellKept
<1>2. \A u \in Users, v \in VaultTypes : acked[u][v] <= table.portfolio[u][v]
  BY DEF StoreInv, Covers
<1>3. /\ tables.portfolio = [table.portfolio EXCEPT ![user][vault] = @ + amount]
      /\ more = [acked EXCEPT ![user][vault] = @ + amount]
      /\ more \in [Users -> [VaultTypes -> Nat]]
  BY <1>1 DEF Raised
<1> HIDE DEF more
<1> SUFFICES ASSUME NEW u \in Users, NEW v \in VaultTypes
             PROVE  /\ acked[u][v] <= tables.portfolio[u][v]
                    /\ more[u][v] <= tables.portfolio[u][v]
  BY <1>3 DEF Covers, more
<1>4. CASE u = user /\ v = vault
  <2>1. /\ tables.portfolio[u][v] = table.portfolio[u][v] + amount
        /\ more[u][v] = acked[u][v] + amount
    BY <1>1, <1>3, <1>4
  <2> QED
    BY <1>1, <1>2, <2>1
<1>5. CASE ~(u = user /\ v = vault)
  <2>1. tables.portfolio[u][v] = table.portfolio[u][v] /\ more[u][v] = acked[u][v]
    BY <1>1, <1>3, <1>5
  <2> QED
    BY <1>2, <2>1
<1> QED
  BY <1>4, <1>5

LEMMA StorePreserved ==
  ASSUME StoreInv, StoreStep
  PROVE  StoreInv'
<1> USE DEF StoreInv
<1>1. CASE UNCHANGED storeVars /\ up' = up
  BY <1>1 DEF storeVars, WellKept, Balanced, Covers, Loaded, Empty
<1>2. CASE StoreCrash /\ ~up'
  BY <1>2, EmptyKept DEF StoreCrash, WellKept, Balanced, Covers, Loaded, Empty
<1>3. ASSUME NEW user \in Users, NEW vault \in VaultTypes, NEW amount \in Amounts,
             up, ~up', CrashInDeposit(user, vault, amount)
      PROVE  StoreInv'
  (* The write that was under way holds more than was acknowledged. *)
  <2> DEFINE tables == Deposited(user, vault, amount)
  <2>1. WellKept(tables) /\ Covers(tables, acked) /\ tables # Torn
    <3>1. /\ WellKept(tables)
          /\ tables.portfolio = Raised(table.portfolio, user, vault, amount)
      BY DepositKept
    <3> HIDE DEF tables
    <3> QED
      BY <1>3, <3>1, MoreCovers, KeptIsNotTorn
  <2>2. table' = Empty /\ acked' = acked
    BY <1>3 DEF CrashInDeposit
  <2>3. \/ file' = tables /\ unsaved' = FALSE
        \/ file' = Torn /\ unsaved' = TRUE
    BY <1>3 DEF CrashInDeposit, FirstWrite
  <2> HIDE DEF tables
  <2> QED
    BY <1>3, <2>1, <2>2, <2>3, EmptyKept DEF Loaded
<1>4. CASE ~up /\ InitializeStorage
  <2>1. /\ table' = Loaded /\ file' = file /\ unsaved' = FALSE
        /\ acked' = IF unsaved THEN Loaded.portfolio ELSE acked
    BY <1>4 DEF InitializeStorage
  <2>2. WellKept(Loaded) /\ Loaded' = Loaded
    BY <2>1, EmptyKept DEF Loaded, Empty
  <2>3. CASE unsaved
    <3>1. \A u \in Users, v \in VaultTypes : Loaded.portfolio[u][v] <= Loaded.portfolio[u][v]
      BY <2>2 DEF WellKept
    <3>2. acked' = Loaded.portfolio /\ Covers(Loaded, acked')
      BY <2>1, <2>3, <3>1 DEF Covers
    <3>3. acked' \in [Users -> [VaultTypes -> Nat]]
      BY <2>2, <3>2 DEF WellKept
    <3> QED
      BY <2>1, <2>2, <2>3, <3>2, <3>3
  <2>4. CASE ~unsaved
    BY <2>1, <2>2, <2>4
  <2> QED
    BY <2>3, <2>4
<1>5. ASSUME NEW user, up, GetOrCreateUserProfile(user)
      PROVE  StoreInv'
  <2>1. /\ table' = [table EXCEPT !.users = @ \cup {user}]
        /\ PersistState(table') /\ acked' = acked
    BY <1>5 DEF GetOrCreateUserProfile, WithProfile
  <2>2. /\ table' = [users |-> table'.users, portfolio |-> table.portfolio,
                     transactions |-> table.transactions]
        /\ table'.portfolio = table.portfolio /\ table'.transactions = table.transactions
    BY <2>1 DEF WellKept
  <2>3. WellKept(table') /\ Covers(table', acked')
    BY <1>5, <2>1, <2>2 DEF WellKept, Balanced, Covers
  <2> QED
    BY <2>1, <2>3, WrittenKept
<1>6. ASSUME NEW user \in Users, NEW vault \in VaultTypes, NEW amount \in Amounts,
             up, RecordDeposit(user, vault, amount)
      PROVE  StoreInv'
  <2>1. /\ table' = Deposited(user, vault, amount)
        /\ PersistState(table')
        /\ acked' = Raised(acked, user, vault, amount)
    BY <1>6 DEF RecordDeposit, Record, Raised
  <2>2. /\ WellKept(table')
        /\ table'.portfolio = Raised(table.portfolio, user, vault, amount)
    BY <2>1, DepositKept
  <2>3. Covers(table', acked') /\ acked' \in [Users -> [VaultTypes -> Nat]]
    BY <1>6, <2>1, <2>2, MoreCovers
  <2> QED
    BY <2>1, <2>2, <2>3, WrittenKept
<1>7. ASSUME NEW user \in Users, up, RefuseDeposit(user)
      PROVE  StoreInv'
  BY <1>7 DEF RefuseDeposit, WellKept, Balanced, Covers, Loaded, Empty
<1> QED
  BY <1>1, <1>2, <1>3, <1>4, <1>5, <1>6, <1>7 DEF StoreStep

(* A history without transactions goes with a portfolio of zeros, so who   *)
(* was acknowledged anything is answered a row and a transaction.          *)
LEMMA StoreAnswers ==
  ASSUME StoreInv, up
  PROVE  AnswersCover
<1> SUFFICES ASSUME NEW u \in Users, NEW v \in VaultTypes, acked[u][v] > 0
             PROVE  /\ v \in DOMAIN GetUserPortfolio(u) /\ acked[u][v] <= GetUserPortfolio(u)[v]
                    /\ GetUserTransactions(u) # <<>>
  BY DEF AnswersCover
<1>1. /\ acked[u][v] <= table.portfolio[u][v]
      /\ acked[u][v] \in Nat /\ table.portfolio[u][v] \in Nat
  BY DEF StoreInv, WellKept, Covers
<1>2. table.portfolio[u][v] > 0
  BY <1>1
<1>3. v \in DOMAIN GetUserPortfolio(u) /\ acked[u][v] <= GetUserPortfolio(u)[v]
  <2> DEFINE held == {w \in VaultTypes : table.portfolio[u][w] > 0}
  <2>1. v \in held
    BY <1>2
  <2>2. GetUserPortfolio(u) = [w \in held |-> table.portfolio[u][w]]
    BY <2>1 DEF GetUserPortfolio
  <2> HIDE DEF held
  <2> QED
    BY <1>1, <2>1, <2>2
<1>4. GetUserTransactions(u) # <<>>
  <2> DEFINE h == table.transactions[u]
  <2>1. h \in Seq(Transactions) /\ HistoryCap \in Nat \ {0} /\ HistoryPage \in 1..HistoryCap
    BY StoreAssumption DEF StoreInv, WellKept
  <2>2. IF Len(h) < HistoryCap THEN table.portfolio[u][v] = HistoryTotal(h, v)
                               ELSE table.portfolio[u][v] >= HistoryTotal(h, v)
    BY DEF StoreInv, WellKept, Balanced
  <2>3. GetUserTransactions(u) = SubSeq(h, 1, IF Len(h) < HistoryPage THEN Len(h) ELSE HistoryPage)
    BY DEF GetUserTransactions
  <2> HIDE DEF h
  <2>4. Len(h) # 0
    <3> SUFFICES ASSUME Len(h) = 0 PROVE FALSE
      OBVIOUS
    <3>1. h = <<>>
      BY <2>1
    <3>2. HistoryTotal(h, v) = 0
      BY <2>1, <3>1, HistoryAddsUp
    <3> QED
      BY <1>2, <2>1, <2>2, <3>2
  <2>5. Len(GetUserTransactions(u)) # 0
    BY <2>1, <2>3, <2>4
  <2> QED
    BY <2>5
<1> QED
  BY <1>3, <1>4

(* However many deposits, refused amounts, failed or torn writes, crashes  *)
(* and restarts: each portfolio agrees with its history in memory and in   *)
(* any file that can be read back, and what was acknowledged is answered,  *)
(* unless the write that failed was followed by a restart.                 *)
THEOREM DepositsAreKept == Spec => []DepositsSurvive
<1>1. StoreInv /\ [Next]_vars => StoreInv'
  BY StoreSteps, StorePreserved
<1>2. StoreInv => DepositsSurvive
  BY StoreAnswers DEF StoreInv, WellKept, DepositsSurvive
<1> QED
  BY StoreInitially, <1>1, <1>2, PTL DEF Spec
====
