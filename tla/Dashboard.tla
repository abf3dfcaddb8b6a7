---- MODULE Dashboard ----
(***************************************************************************)
(* frontend/public/app.js on app.html: one page that polls the telemetry,  *)
(* loads its panels, and runs the flows behind its buttons, each of which  *)
(* goes from one await to the next.                                        *)
(***************************************************************************)
EXTENDS ApiServer

CONSTANTS
    Polls,          \* bound: telemetry requests of the timer in flight
    Panels,         \* what is asked of the server and shown until it is asked
                    \* again: the panels of the page, and balance, tickets and
                    \* vote, which the page never gets to ask for
    StroopsPerXlm,  \* stroops in one XLM (10000000)
    HorizonBalances,\* the XLM an account of Horizon may have
    StakeAmounts    \* what the user may enter

ASSUME DashboardAssumption == StroopsPerXlm \in Nat \ {0}

VARIABLES
    shown,      \* state.totalAssets and idleAssets in whole XLM, the cards with
                \* the figures, the badge, and whether the rollup still runs
    telemetry,  \* the requests for telemetry: of the timer, and of flows
    pc,         \* where the flow behind each button stands
    wallet,     \* state.wallet: connected, and the XLM balance shown
    panel,      \* the last content of each panel
    loading     \* the panels whose request is in flight

pageVars == <<shown, telemetry, pc, wallet, panel, loading>>

ConsoleButtons == {"agent", "shock", "reset", "x402"}
Flows == {"connect", "stake", "withdraw"}
Buttons == ConsoleButtons \cup Flows

Requests == Polls \cup {"shock", "reset", "stake"}

Free == [status |-> 0]
Asked == [status |-> 1]
Blank == [status |-> 0]

(* updateMetrics: the cards of the vault.  The NAV, in ten-thousandths, is *)
(* over the virtual shares alone, for state.totalShares is never set.      *)
VIRTUAL_ASSETS == 1
VIRTUAL_SHARES == 1000

Nav(assets) == ((assets + VIRTUAL_ASSETS) * 10000) \div VIRTUAL_SHARES

Metrics(assets, idle) == [tvl |-> assets, reserve |-> idle, nav |-> Nav(assets)]

UpdateMetrics(page) == [page EXCEPT !.cards = Metrics(page.assets, page.idle)]

(* The cards start with an empty vault, the badge with what app.html says. *)
(* The rollup runs in a browser that animates.                             *)
DashboardInit ==
    /\ shown \in {[assets |-> 0, idle |-> 0, cards |-> Metrics(0, 0),
                   badge |-> "nominal", rolling |-> rolling] : rolling \in BOOLEAN}
    /\ telemetry = [q \in Requests |-> Free]
    /\ pc = [b \in Buttons |-> "idle"]
    /\ wallet = [connected |-> FALSE, xlm |-> 0]
    /\ panel = [p \in Panels |-> Blank]
    /\ loading = {}

GoTo(b, at) == pc' = [pc EXCEPT ![b] = at]

----
(* Telemetry                                                               *)

Badge(breaker) == IF breaker.sealed \/ breaker.bunker THEN "alarm" ELSE "nominal"

WholeXlm(stroops) == stroops \div StroopsPerXlm

(* applyTelemetry: the shares of the vault are not taken over.             *)
WithTelemetry(page, content) ==
    UpdateMetrics([page EXCEPT !.assets = WholeXlm(content.assets),
                               !.idle   = WholeXlm(content.idle),
                               !.badge  = Badge(content.breaker)])

(* The answer of a cycle has at most a circuit breaker in it.              *)
WithBreakers(page, breakers) ==
    IF breakers = {} THEN page
    ELSE [page EXCEPT !.badge = Badge(CHOOSE b \in breakers : TRUE)]

(* The rollup writes over the cards at every frame, towards the figures    *)
(* there were when the page was loaded, whatever telemetry came meanwhile. *)
(* The NAV comes down from 1.0000; frames in between are like the first.   *)
RolledTo(nav) == [tvl |-> 0, reserve |-> 0, nav |-> nav]

RollUpFrame ==
    /\ shown.rolling
    /\ shown' = [shown EXCEPT !.cards = RolledTo(10000)]
    /\ UNCHANGED <<telemetry, pc, wallet, panel, loading>>

RollUpEnds ==
    /\ shown.rolling
    /\ shown' = [shown EXCEPT !.cards = RolledTo(Nav(0)), !.rolling = FALSE]
    /\ UNCHANGED <<telemetry, pc, wallet, panel, loading>>

(* Another tier renders the cards anew; it is the unit that differs.       *)
SwitchTier ==
    /\ shown' = UpdateMetrics(shown)
    /\ UNCHANGED <<telemetry, pc, wallet, panel, loading>>

(* setInterval does not ask whether an earlier request is still out.       *)
PollTimer(q) ==
    /\ q \in Polls
    /\ telemetry[q] = Free
    /\ telemetry' = [telemetry EXCEPT ![q] = Asked]
    /\ UNCHANGED <<shown, pc, wallet, panel, loading>>

(* The request is over, and with it the flow that waited for it.           *)
RequestEnds(q) ==
    /\ telemetry' = [telemetry EXCEPT ![q] = Free]
    /\ pc' = IF q \in Buttons THEN [pc EXCEPT ![q] = "idle"] ELSE pc

(* Answers arrive in any order; what is not ok is ignored.                 *)
TelemetryDelivered(q) ==
    /\ telemetry[q] \notin {Free, Asked}
    /\ shown' = IF telemetry[q].status = 200 THEN WithTelemetry(shown, telemetry[q].content)
                ELSE shown
    /\ RequestEnds(q)
    /\ UNCHANGED <<wallet, panel, loading>>

TelemetryUnreachable(q) ==
    /\ telemetry[q] = Asked
    /\ RequestEnds(q)
    /\ UNCHANGED <<shown, wallet, panel, loading>>

----
(* The console                                                             *)

(* The button is disabled until its flow is over.                          *)
ClickConsole(b) ==
    /\ b \in ConsoleButtons
    /\ pc[b] = "idle"
    /\ GoTo(b, "posting")
    /\ UNCHANGED <<shown, telemetry, wallet, panel, loading>>

(* The shock and the reset ask for telemetry once they are acknowledged.   *)
ThenTelemetry(b) ==
    /\ telemetry' = [telemetry EXCEPT ![b] = Asked]
    /\ GoTo(b, "telemetry")
    /\ UNCHANGED <<shown, wallet, panel, loading>>

CycleAnswered(answer) ==
    /\ shown' = WithBreakers(shown, answer.content)
    /\ GoTo("agent", "idle")
    /\ UNCHANGED <<telemetry, wallet, panel, loading>>

(* Only log lines tell whether the query was paid.                         *)
X402Answered(answer) ==
    /\ answer.status \in {200, 502}
    /\ GoTo("x402", "idle")
    /\ UNCHANGED <<shown, telemetry, wallet, panel, loading>>

----
(* The wallet                                                              *)

(* connectAccount; an extension that is absent ends it at once.            *)
ClickConnect ==
    /\ ~wallet.connected
    /\ pc["connect"] = "idle"
    /\ GoTo("connect", "prompt")
    /\ UNCHANGED <<shown, telemetry, wallet, panel, loading>>

AccessGranted ==
    /\ pc["connect"] = "prompt"
    /\ wallet' = [wallet EXCEPT !.connected = TRUE]
    /\ GoTo("connect", "xlm")
    /\ UNCHANGED <<shown, telemetry, panel, loading>>

(* What was fetched stays, and what is being fetched will still be taken.  *)
ClickDisconnect ==
    /\ wallet.connected
    /\ wallet' = [wallet EXCEPT !.connected = FALSE]
    /\ UNCHANGED <<shown, telemetry, pc, panel, loading>>

(* updateBalances: what the page shows as available to stake.              *)
Available == IF wallet.connected THEN wallet.xlm ELSE 0

(* What the user enters, or the button for everything does.                *)
Entered == (StakeAmounts \cup {Available}) \ {0}

(* A stake is checked against the balance shown, a withdrawal against      *)
(* nothing.                                                                *)
ClickStake ==
    /\ wallet.connected
    /\ pc["stake"] = "idle"
    /\ \E amount \in Entered : amount <= wallet.xlm
    /\ GoTo("stake", "building")
    /\ UNCHANGED <<shown, telemetry, wallet, panel, loading>>

ClickWithdraw ==
    /\ wallet.connected
    /\ pc["withdraw"] = "idle"
    /\ GoTo("withdraw", "building")
    /\ UNCHANGED <<shown, telemetry, wallet, panel, loading>>

(* The payout to a bank only lowers the balance shown.                     *)
ClickBank ==
    /\ wallet.connected
    /\ \E amount \in Entered :
         wallet' = [wallet EXCEPT !.xlm = IF amount > @ THEN 0 ELSE @ - amount]
    /\ UNCHANGED <<shown, telemetry, pc, panel, loading>>

(* Whatever fails ends the flow: a toast, and finally the button again.    *)
FlowFails(b) ==
    /\ GoTo(b, "idle")
    /\ UNCHANGED <<shown, telemetry, wallet, panel, loading>>

(* A variant without finally: a flow that was refused is over, and its     *)
(* button still disabled.                                                  *)
BuildAnsweredWithoutFinally(b, answer) ==
    /\ pc[b] = "building"
    /\ GoTo(b, IF answer.status = 200 THEN "prompt" ELSE "over")
    /\ UNCHANGED <<shown, telemetry, wallet, panel, loading>>

BuildAnswered(b, answer) ==
    /\ pc[b] = "building"
    /\ GoTo(b, IF answer.status = 200 THEN "prompt" ELSE "idle")
    /\ UNCHANGED <<shown, telemetry, wallet, panel, loading>>

(* The wallet's own prompt: the user takes the time the user takes.        *)
Signed(b) ==
    /\ b \in {"stake", "withdraw"}
    /\ pc[b] = "prompt"
    /\ GoTo(b, "submitting")
    /\ UNCHANGED <<shown, telemetry, wallet, panel, loading>>

PromptDeclined(b) ==
    /\ pc[b] = "prompt"
    /\ FlowFails(b)

SubmitAnswered(b, answer) ==
    /\ pc[b] = "submitting"
    /\ GoTo(b, IF answer.status = 200 THEN "xlm" ELSE "idle")
    /\ UNCHANGED <<shown, telemetry, wallet, panel, loading>>

(* What follows fetchLiveBalances.                                         *)
AfterBalances(b) ==
    IF b = "stake" THEN GoTo(b, "telemetry") /\ telemetry' = [telemetry EXCEPT ![b] = Asked]
                   ELSE GoTo(b, "idle") /\ UNCHANGED telemetry

(* Horizon: the balance, no such account, or no answer.                    *)
XlmAnswered(b) ==
    /\ pc[b] = "xlm"
    /\ \/ /\ \E balance \in HorizonBalances : wallet' = [wallet EXCEPT !.xlm = balance]
          /\ GoTo(b, "shares")
          /\ UNCHANGED telemetry
       \/ wallet' = [wallet EXCEPT !.xlm = 0] /\ AfterBalances(b)
       \/ wallet' = wallet /\ AfterBalances(b)
    /\ UNCHANGED <<shown, panel, loading>>

(* The contracts' addresses, then the shares: the answer has no field      *)
(* token, and no token has no shares.                                      *)
SharesAnswered(b) ==
    /\ pc[b] = "shares"
    /\ AfterBalances(b)
    /\ UNCHANGED <<shown, wallet, panel, loading>>

----
(* The panels                                                              *)

RoutePanels == {"routes", "earnRoutes", "futures"}

(* The telemetry of the pro deck and the check of an address are blank     *)
(* while they are being asked for.                                         *)
Blanked == {"futures", "inclusion"}

OpenPanel(p) ==
    /\ p \in Panels \ loading
    /\ loading' = loading \cup {p}
    /\ panel' = IF p \in Blanked THEN [panel EXCEPT ![p] = Blank] ELSE panel
    /\ UNCHANGED <<shown, telemetry, pc, wallet>>

(* The panels that say so when the server has nothing; the others keep     *)
(* what they show.                                                         *)
SaysUnavailable == {"solvency", "earnVault", "earnRoutes", "futures", "inclusion"}

(* An empty feed is no feed.                                               *)
IsWorthShowing(p, answer) == p = "social" => answer.content # <<>>

(* Any answer without a proof, that of a failure too, is shown as nothing  *)
(* being there to look up.                                                 *)
Verdict(answer) == Ok(answer.status = 200 /\ answer.content # {})

PanelAfter(p, answer) ==
    IF p = "inclusion" THEN Verdict(answer)
    ELSE IF (answer.status = 200 /\ IsWorthShowing(p, answer)) \/ p \in SaysUnavailable
         THEN answer ELSE panel[p]

PanelAnswered(p, answer) ==
    /\ p \in loading
    /\ loading' = loading \ {p}
    /\ panel' = [panel EXCEPT ![p] = PanelAfter(p, answer)]
    /\ UNCHANGED <<shown, telemetry, pc, wallet>>

(* fetch throws: the solvency figures stay under a line that says so.      *)
PanelUnreachable(p) ==
    /\ p \in loading
    /\ loading' = loading \ {p}
    /\ panel' = [panel EXCEPT ![p] = IF p \in SaysUnavailable \ {"solvency"} THEN Error(503)
                                     ELSE @]
    /\ UNCHANGED <<shown, telemetry, pc, wallet>>
====
