---- MODULE Governance ----
(***************************************************************************)
(* contracts/governance: proposals that are voted on for a period, queued  *)
(* behind a timelock and executed, unless stakers veto them first.  Anyone *)
(* may call every operation; voting power is what the caller states.       *)
(***************************************************************************)
EXTENDS Ledger, Totals

CONSTANTS
    MaxProposals,       \* bound: proposals created
    Voters,             \* addresses that vote or veto
    VotingPeriod,       \* config.voting_period_ledgers
    Timelock,           \* config.timelock_ledgers
    VetoThresholdBps,   \* config.veto_threshold_bps
    EarlyVetoTrigger,   \* veto power needed before any vote is cast (10^9)
    Powers              \* bound: voting powers stated in one call

ASSUME GovernanceAssumption ==
    /\ MaxProposals \in Nat
    /\ IsFiniteSet(Voters)
    /\ VotingPeriod \in Nat
    /\ Timelock \in Nat
    /\ VetoThresholdBps \in Nat
    /\ EarlyVetoTrigger \in Nat
    /\ Powers \subseteq Int

VARIABLES
    proposalCount,  \* DataKey::ProposalCount
    proposal,       \* DataKey::Proposal(id), state "Pending" when absent
    votes,          \* its for_votes, against_votes and abstain_votes
    vetoVotes,      \* its veto_votes
    voted,          \* DataKey::Voted(id, voter)
    vetoed,         \* DataKey::Vetoed(id, staker)
    ballots         \* history: the (gov, vote) events, by proposal and voter

voteVars == <<votes, voted, ballots>>
vetoVars == <<vetoVotes, vetoed>>
govVars == <<seq, proposalCount, proposal, voteVars, vetoVars>>

ProposalIds == 1..MaxProposals
VoteTypes == {"For", "Against", "Abstain"}
ProposalStates == {"Pending", "Active", "Queued", "Executed", "Defeated", "Vetoed"}

AbsentProposal == [endLedger |-> 0, etaLedger |-> 0, state |-> "Pending"]
NewProposal == [endLedger |-> seq + VotingPeriod, etaLedger |-> 0, state |-> "Active"]

NoVotes == [t \in VoteTypes |-> 0]
NoBallot == [type |-> "Abstain", power |-> 0]

Participating(p) == votes[p]["For"] + votes[p]["Against"] + votes[p]["Abstain"]

GovernanceInit ==
    /\ LedgerInit
    /\ proposalCount = 0
    /\ proposal = [p \in ProposalIds |-> AbsentProposal]
    /\ votes = [p \in ProposalIds |-> NoVotes]
    /\ vetoVotes = [p \in ProposalIds |-> 0]
    /\ voted = {}
    /\ vetoed = {}
    /\ ballots = [p \in ProposalIds |-> [v \in Voters |-> NoBallot]]

(* Wrong variant: the counter is read before the increment for the key.    *)
CreateProposalReusingKey ==
    LET key == IF proposalCount = 0 THEN 1 ELSE proposalCount
    IN  /\ proposalCount < MaxProposals
        /\ proposalCount' = proposalCount + 1
        /\ proposal' = [proposal EXCEPT ![key] = NewProposal]
        /\ votes' = [votes EXCEPT ![key] = NoVotes]
        /\ vetoVotes' = [vetoVotes EXCEPT ![key] = 0]
        /\ UNCHANGED <<seq, voted, ballots, vetoed>>

CreateProposal ==
    LET id == proposalCount + 1
    IN  /\ proposalCount < MaxProposals
        /\ proposalCount' = id
        /\ proposal' = [proposal EXCEPT ![id] = NewProposal]
        /\ votes' = [votes EXCEPT ![id] = NoVotes]
        /\ vetoVotes' = [vetoVotes EXCEPT ![id] = 0]
        /\ UNCHANGED <<seq, voted, ballots, vetoed>>

CountVote(v, p, type, power) ==
    /\ votes' = [votes EXCEPT ![p][type] = @ + power]
    /\ voted' = voted \cup {<<p, v>>}
    /\ ballots' = [ballots EXCEPT ![p][v] = [type |-> type, power |-> power]]
    /\ UNCHANGED <<seq, proposalCount, proposal, vetoVars>>

(* Wrong variants: any stated power is accepted; a voter may vote again;   *)
(* the end of the voting period is not checked.                            *)
CastVoteAnyPower(v, p, type, power) ==
    /\ proposal[p].state = "Active"
    /\ seq <= proposal[p].endLedger
    /\ <<p, v>> \notin voted
    /\ CountVote(v, p, type, power)

CastVoteAgain(v, p, type, power) ==
    /\ power > 0
    /\ proposal[p].state = "Active"
    /\ seq <= proposal[p].endLedger
    /\ CountVote(v, p, type, power)

CastVoteLate(v, p, type, power) ==
    /\ power > 0
    /\ proposal[p].state = "Active"
    /\ <<p, v>> \notin voted
    /\ CountVote(v, p, type, power)

CastVote(v, p, type, power) ==
    /\ power > 0
    /\ proposal[p].state = "Active"
    /\ seq <= proposal[p].endLedger
    /\ <<p, v>> \notin voted
    /\ CountVote(v, p, type, power)

VetoTrigger(p) ==
    IF Participating(p) > 0 THEN (Participating(p) * VetoThresholdBps) \div 10000
                            ELSE EarlyVetoTrigger

(* The share is looked at here only: votes cast later are not weighed      *)
(* against the vetoes already given.                                       *)
CastVeto(v, p, power) ==
    /\ power > 0
    /\ proposal[p].state \in {"Active", "Queued"}
    /\ <<p, v>> \notin vetoed
    /\ vetoVotes' = [vetoVotes EXCEPT ![p] = @ + power]
    /\ proposal' = IF vetoVotes[p] + power >= VetoTrigger(p)
                     THEN [proposal EXCEPT ![p].state = "Vetoed"] ELSE proposal
    /\ vetoed' = vetoed \cup {<<p, v>>}
    /\ UNCHANGED <<seq, proposalCount, voteVars>>

VotingEnded(p) == proposal[p].state = "Active" /\ seq > proposal[p].endLedger

(* Wrong variant: a tie carries.                                           *)
CarriedOnTie(p) == votes[p]["For"] >= votes[p]["Against"]

Carried(p) == votes[p]["For"] > votes[p]["Against"]

(* With no votes at all the code writes Defeated and then returns an       *)
(* error, which undoes the write: no step, the proposal stays Active.      *)
QueueProposal(p) ==
    /\ VotingEnded(p)
    /\ Participating(p) > 0
    /\ proposal' = IF Carried(p)
                     THEN [proposal EXCEPT ![p] = [endLedger |-> proposal[p].endLedger,
                                                   etaLedger |-> seq + Timelock,
                                                   state |-> "Queued"]]
                     ELSE [proposal EXCEPT ![p].state = "Defeated"]
    /\ UNCHANGED <<seq, proposalCount, voteVars, vetoVars>>

ExecuteProposal(p) ==
    /\ proposal[p].state = "Queued"
    /\ seq >= proposal[p].etaLedger
    /\ proposal' = [proposal EXCEPT ![p].state = "Executed"]
    /\ UNCHANGED <<seq, proposalCount, voteVars, vetoVars>>

Next ==
    \/ CreateProposal
    \/ \E v \in Voters, p \in ProposalIds, power \in Powers :
          \/ \E type \in VoteTypes : CastVote(v, p, type, power)
          \/ CastVeto(v, p, power)
    \/ \E p \in ProposalIds : QueueProposal(p) \/ ExecuteProposal(p)
    \/ CloseLedger /\ UNCHANGED <<proposalCount, proposal, voteVars, vetoVars>>

Spec == GovernanceInit /\ [][Next]_govVars

----
(* Tallies, ledgers and states keep their type; tallies never go negative, *)
(* whatever power a caller states.                                         *)
TypeOK ==
    /\ LedgerTypeOK
    /\ proposalCount \in 0..MaxProposals
    /\ proposal \in [ProposalIds -> [endLedger : Nat, etaLedger : Nat, state : ProposalStates]]
    /\ votes \in [ProposalIds -> [VoteTypes -> Nat]]
    /\ vetoVotes \in [ProposalIds -> Nat]
    /\ voted \subseteq ProposalIds \X Voters
    /\ vetoed \subseteq ProposalIds \X Voters
    /\ ballots \in [ProposalIds -> [Voters -> [type : VoteTypes, power : Nat]]]

PowerFor(p, type) ==
    [v \in Voters |-> IF ballots[p][v].type = type THEN ballots[p][v].power ELSE 0]

(* Every tally is exactly the power of the ballots of that type, one per   *)
(* voter and proposal: no vote is lost, repeated, or counted for another   *)
(* proposal or another option.                                             *)
TallyIsBallots ==
    \A p \in ProposalIds, t \in VoteTypes :
        votes[p][t] = Total(PowerFor(p, t))

(* A queued or executed proposal earned it: votes were cast, a strict      *)
(* majority was in favour when voting was over, and the timelock runs from *)
(* after the voting period; execution waited for it.                       *)
ProceedsOnlyIfCarried ==
    \A p \in ProposalIds :
        proposal[p].state \in {"Queued", "Executed"} =>
            /\ votes[p]["For"] > votes[p]["Against"]
            /\ proposal[p].etaLedger > proposal[p].endLedger + Timelock
            /\ proposal[p].state = "Executed" => seq >= proposal[p].etaLedger

(* Tallies move only inside the voting period of an active proposal, so    *)
(* what queue_proposal counts is what the voters saw when voting closed.   *)
TallyFrozenOnceClosed ==
    [][\A p \in ProposalIds :
          votes'[p] # votes[p] => /\ proposal[p].state = "Active"
                                  /\ seq <= proposal[p].endLedger]_govVars

(* A decision is final: no later call, a new proposal included, takes a    *)
(* proposal out of Executed, Defeated or Vetoed, or out of Queued to       *)
(* anything but Executed or Vetoed, or changes its timelock.               *)
DecisionsAreFinal ==
    [][\A p \in ProposalIds :
          /\ proposal[p].state \in {"Executed", "Defeated", "Vetoed"}
                => proposal'[p] = proposal[p]
          /\ proposal[p].state = "Queued"
                => /\ proposal'[p].state \in {"Queued", "Executed", "Vetoed"}
                   /\ proposal'[p].etaLedger = proposal[p].etaLedger]_govVars

(* A proposal whose vetoes reach the threshold share of the votes cast     *)
(* never proceeds (docs/SECURITY_AUDIT_DOSSIER.md:138-142).                *)
VetoShareBlocks ==
    \A p \in ProposalIds :
        proposal[p].state \in {"Queued", "Executed"} =>
            vetoVotes[p] * 10000 < Participating(p) * VetoThresholdBps
====
