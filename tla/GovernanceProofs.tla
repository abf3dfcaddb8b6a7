---- MODULE GovernanceProofs ----
(***************************************************************************)
(* Governance.tla proved for every electorate, every number of proposals   *)
(* and every choice of periods and thresholds.                             *)
(***************************************************************************)
EXTENDS Governance, ArithmeticProofs, TLAPS

(* Ids above the counter are unused, and a voter who has not voted has no  *)
(* ballot: what makes the first vote and a new proposal safe to add.       *)
UnusedIsEmpty ==
    /\ \A p \in ProposalIds : p > proposalCount => /\ proposal[p] = AbsentProposal
                                                   /\ votes[p] = NoVotes
    /\ \A p \in ProposalIds, v \in Voters :
          <<p, v>> \notin voted => ballots[p][v].power = 0

IInv == TypeOK /\ UnusedIsEmpty /\ TallyIsBallots /\ ProceedsOnlyIfCarried

(* The initial values of a proposal's fields have their types.             *)
LEMMA AbsentType ==
    /\ AbsentProposal \in [endLedger : Nat, etaLedger : Nat, state : ProposalStates]
    /\ AbsentProposal.state = "Pending"
    /\ NoVotes \in [VoteTypes -> Nat]
    /\ \A t \in VoteTypes : NoVotes[t] = 0
  BY DEF AbsentProposal, NoVotes, ProposalStates

(* The tally of ballots depends on the ballots of that proposal only.      *)
LEMMA PowerForType ==
    ASSUME TypeOK, NEW p \in ProposalIds, NEW t \in VoteTypes
    PROVE  PowerFor(p, t) \in [Voters -> Nat]
  BY DEF TypeOK, PowerFor

(* Initially nothing is proposed, voted or decided.                        *)
LEMMA InitIInv == GovernanceInit => IInv
<1> SUFFICES ASSUME GovernanceInit PROVE IInv
  OBVIOUS
<1>1. TypeOK
  <2>1. NoBallot \in [type : VoteTypes, power : Nat]
    BY DEF NoBallot, VoteTypes
  <2> QED
    BY <2>1, AbsentType, MaxLedgerAssumption, GovernanceAssumption
    DEF GovernanceInit, TypeOK, LedgerInit, LedgerTypeOK
<1>2. UnusedIsEmpty /\ ProceedsOnlyIfCarried
  BY AbsentType DEF GovernanceInit, UnusedIsEmpty, ProceedsOnlyIfCarried, NoBallot
<1>3. TallyIsBallots
  <2> SUFFICES ASSUME NEW p \in ProposalIds, NEW t \in VoteTypes
               PROVE  votes[p][t] = Total(PowerFor(p, t))
    BY DEF TallyIsBallots
  <2>1. \A v \in Voters : PowerFor(p, t)[v] = 0
    BY DEF GovernanceInit, PowerFor, NoBallot
  <2>2. Total(PowerFor(p, t)) = 0
    BY <1>1, <2>1, PowerForType, TotalZero
  <2> QED
    BY <2>2, AbsentType DEF GovernanceInit
<1> QED
  BY <1>1, <1>2, <1>3 DEF IInv

(* While ballots stay, a tally that stays is still the ballots' power.     *)
LEMMA TallyKept ==
    ASSUME TallyIsBallots, ballots' = ballots,
           \A p \in ProposalIds : votes'[p] = votes[p]
    PROVE  TallyIsBallots'
  BY DEF TallyIsBallots, PowerFor

(* A new proposal takes an unused id and starts without votes.             *)
LEMMA CreateIInv == IInv /\ CreateProposal => IInv'
<1> SUFFICES ASSUME IInv, CreateProposal PROVE IInv'
  OBVIOUS
<1> USE DEF IInv
<1>1. /\ proposalCount + 1 \in ProposalIds /\ proposalCount' = proposalCount + 1
      /\ proposal' = [proposal EXCEPT ![proposalCount + 1] = NewProposal]
      /\ votes' = [votes EXCEPT ![proposalCount + 1] = NoVotes]
      /\ vetoVotes' = [vetoVotes EXCEPT ![proposalCount + 1] = 0]
      /\ UNCHANGED <<seq, voted, ballots, vetoed>>
  BY GovernanceAssumption DEF TypeOK, CreateProposal, ProposalIds
<1>2. /\ NewProposal \in [endLedger : Nat, etaLedger : Nat, state : ProposalStates]
      /\ NewProposal.state = "Active"
  BY GovernanceAssumption DEF TypeOK, LedgerTypeOK, NewProposal, ProposalStates
<1>3. TypeOK'
  <2>1. proposalCount' \in 0..MaxProposals
    BY <1>1, GovernanceAssumption DEF TypeOK, ProposalIds
  <2>2. /\ proposal' \in [ProposalIds -> [endLedger : Nat, etaLedger : Nat, state : ProposalStates]]
        /\ votes' \in [ProposalIds -> [VoteTypes -> Nat]]
        /\ vetoVotes' \in [ProposalIds -> Nat]
    BY <1>1, <1>2, AbsentType DEF TypeOK
  <2> QED
    BY <1>1, <2>1, <2>2 DEF TypeOK, LedgerTypeOK
<1>4. \A p \in ProposalIds : votes'[p] = votes[p]
  BY <1>1 DEF TypeOK, UnusedIsEmpty
<1>5. UnusedIsEmpty'
  BY <1>1, GovernanceAssumption DEF TypeOK, UnusedIsEmpty, ProposalIds
<1>6. TallyIsBallots'
  BY <1>1, <1>4, TallyKept
<1>7. ProceedsOnlyIfCarried'
  BY <1>1, <1>2, <1>4 DEF TypeOK, ProceedsOnlyIfCarried
<1> QED
  BY <1>3, <1>5, <1>6, <1>7

(* A first vote of positive power adds exactly that power to one tally.    *)
LEMMA VoteIInv ==
    ASSUME IInv, NEW v \in Voters, NEW p \in ProposalIds, NEW type \in VoteTypes,
           NEW power \in Powers, CastVote(v, p, type, power)
    PROVE  IInv'
<1> USE DEF IInv
<1>1. power \in Nat \ {0}
  BY GovernanceAssumption DEF CastVote
<1>2. /\ votes' = [votes EXCEPT ![p][type] = @ + power]
      /\ ballots' = [ballots EXCEPT ![p][v] = [type |-> type, power |-> power]]
      /\ voted' = voted \cup {<<p, v>>}
      /\ UNCHANGED <<seq, proposalCount, proposal, vetoVotes, vetoed>>
  BY DEF CastVote, CountVote, vetoVars
<1>3. TypeOK'
  BY <1>1, <1>2 DEF TypeOK, LedgerTypeOK
<1>4. UnusedIsEmpty'
  BY <1>2, AbsentType DEF TypeOK, UnusedIsEmpty, CastVote
<1>5. TallyIsBallots'
  <2> SUFFICES ASSUME NEW q \in ProposalIds, NEW t \in VoteTypes
               PROVE  (votes[q][t] = Total(PowerFor(q, t)))'
    BY DEF TallyIsBallots
  <2>1. CASE q = p /\ t = type
    <3>1. PowerFor(q, t)' = [PowerFor(q, t) EXCEPT ![v] = power]
      BY <1>2, <2>1 DEF TypeOK, PowerFor
    <3>2. PowerFor(q, t)[v] = 0
      BY <2>1 DEF PowerFor, CastVote, UnusedIsEmpty, TypeOK
    <3>3. Total(PowerFor(q, t)') = Total(PowerFor(q, t)) - 0 + power
      <4>1. PowerFor(q, t) \in [Voters -> Nat]
        BY PowerForType
      <4>2. Total([PowerFor(q, t) EXCEPT ![v] = power])
              = Total(PowerFor(q, t)) - PowerFor(q, t)[v] + power
        <5> HIDE DEF IInv
        <5> QED
          BY <1>1, <4>1, TotalUpdate, GovernanceAssumption
      <4> QED
        BY <3>1, <3>2, <4>2
    <3>4. votes'[q][t] = votes[q][t] + power
      BY <1>2, <2>1 DEF TypeOK
    <3>5. votes[q][t] \in Nat /\ votes[q][t] = Total(PowerFor(q, t))
      BY DEF TypeOK, TallyIsBallots
    <3> QED
      BY <1>1, <3>3, <3>4, <3>5
  <2>2. CASE ~(q = p /\ t = type)
    <3>1. PowerFor(q, t)' = PowerFor(q, t)
      BY <1>2, <2>2 DEF TypeOK, PowerFor, CastVote, UnusedIsEmpty
    <3>2. votes'[q][t] = votes[q][t]
      BY <1>2, <2>2 DEF TypeOK
    <3> QED
      BY <3>1, <3>2 DEF TallyIsBallots
  <2> QED
    BY <2>1, <2>2
<1>6. ProceedsOnlyIfCarried'
  BY <1>2 DEF TypeOK, ProceedsOnlyIfCarried, CastVote
<1> QED
  BY <1>3, <1>4, <1>5, <1>6

(* A veto moves no tally; it can stop a proposal and nothing else.         *)
LEMMA VetoIInv ==
    ASSUME IInv, NEW v \in Voters, NEW p \in ProposalIds, NEW power \in Powers,
           CastVeto(v, p, power)
    PROVE  IInv'
<1> USE DEF IInv
<1>1. power \in Nat
  BY GovernanceAssumption DEF CastVeto
<1>2. /\ vetoVotes' = [vetoVotes EXCEPT ![p] = @ + power]
      /\ vetoed' = vetoed \cup {<<p, v>>}
      /\ UNCHANGED <<seq, proposalCount, votes, voted, ballots>>
      /\ proposal' = [proposal EXCEPT ![p].state = "Vetoed"] \/ proposal' = proposal
  BY DEF CastVeto, voteVars
<1>3. TypeOK'
  <2>1. proposal' \in [ProposalIds -> [endLedger : Nat, etaLedger : Nat, state : ProposalStates]]
    BY <1>2 DEF TypeOK, ProposalStates
  <2>2. vetoVotes' \in [ProposalIds -> Nat] /\ vetoed' \subseteq ProposalIds \X Voters
    BY <1>1, <1>2 DEF TypeOK
  <2> QED
    BY <1>2, <2>1, <2>2 DEF TypeOK, LedgerTypeOK
<1>5. UnusedIsEmpty'
  BY <1>2, AbsentType DEF TypeOK, UnusedIsEmpty, CastVeto
<1>6. TallyIsBallots'
  BY <1>2, TallyKept
<1>7. ProceedsOnlyIfCarried'
  BY <1>2 DEF TypeOK, ProceedsOnlyIfCarried
<1> QED
  BY <1>3, <1>5, <1>6, <1>7

(* Queueing decides on frozen tallies and starts the timelock.             *)
LEMMA QueueIInv ==
    ASSUME IInv, NEW p \in ProposalIds, QueueProposal(p)
    PROVE  IInv'
<1> USE DEF IInv
<1>1. UNCHANGED <<seq, proposalCount, votes, vetoVotes, voted, vetoed, ballots>>
  BY DEF QueueProposal, voteVars, vetoVars
<1>2. seq > proposal[p].endLedger /\ proposal[p].state = "Active"
  BY DEF QueueProposal, VotingEnded
<1>3. CASE Carried(p)
  <2>1. proposal' = [proposal EXCEPT ![p] = [endLedger |-> proposal[p].endLedger,
                                            etaLedger |-> seq + Timelock, state |-> "Queued"]]
    BY <1>3 DEF QueueProposal
  <2>2. TypeOK'
    BY <1>1, <2>1, GovernanceAssumption DEF TypeOK, LedgerTypeOK, ProposalStates
  <2>4. UnusedIsEmpty'
    BY <1>1, <1>2, <2>1, AbsentType DEF TypeOK, UnusedIsEmpty
  <2>5. TallyIsBallots'
    BY <1>1, TallyKept
  <2>6. ProceedsOnlyIfCarried'
    BY <1>1, <1>2, <1>3, <2>1, GovernanceAssumption
    DEF TypeOK, LedgerTypeOK, ProceedsOnlyIfCarried, Carried
  <2> QED
    BY <2>2, <2>4, <2>5, <2>6
<1>4. CASE ~Carried(p)
  <2>1. proposal' = [proposal EXCEPT ![p].state = "Defeated"]
    BY <1>4 DEF QueueProposal
  <2>2. TypeOK'
    BY <1>1, <2>1 DEF TypeOK, LedgerTypeOK, ProposalStates
  <2>4. UnusedIsEmpty'
    BY <1>1, <1>2, <2>1, AbsentType DEF TypeOK, UnusedIsEmpty
  <2>5. TallyIsBallots'
    BY <1>1, TallyKept
  <2>6. ProceedsOnlyIfCarried'
    BY <1>1, <2>1 DEF TypeOK, ProceedsOnlyIfCarried
  <2> QED
    BY <2>2, <2>4, <2>5, <2>6
<1> QED
  BY <1>3, <1>4

(* Execution happens to a queued proposal whose timelock has passed.       *)
LEMMA ExecuteIInv ==
    ASSUME IInv, NEW p \in ProposalIds, ExecuteProposal(p)
    PROVE  IInv'
<1> USE DEF IInv
<1>1. /\ UNCHANGED <<seq, proposalCount, votes, vetoVotes, voted, vetoed, ballots>>
      /\ proposal[p].state = "Queued" /\ seq >= proposal[p].etaLedger
      /\ proposal' = [proposal EXCEPT ![p].state = "Executed"]
  BY DEF ExecuteProposal, voteVars, vetoVars
<1>2. TypeOK'
  BY <1>1 DEF TypeOK, LedgerTypeOK, ProposalStates
<1>4. UnusedIsEmpty'
  BY <1>1, AbsentType DEF TypeOK, UnusedIsEmpty
<1>5. TallyIsBallots'
  BY <1>1, TallyKept
<1>6. ProceedsOnlyIfCarried'
  BY <1>1 DEF TypeOK, ProceedsOnlyIfCarried
<1> QED
  BY <1>2, <1>4, <1>5, <1>6

(* Time alone breaks nothing: execution's deadline stays passed.           *)
LEMMA LedgerIInv ==
    ASSUME IInv, CloseLedger, UNCHANGED <<proposalCount, proposal, voteVars, vetoVars>>
    PROVE  IInv'
<1>1. seq' = seq + 1 /\ TypeOK'
  BY DEF IInv, TypeOK, LedgerTypeOK, CloseLedger, voteVars, vetoVars
<1>2. UnusedIsEmpty' /\ TallyIsBallots'
  BY DEF IInv, UnusedIsEmpty, TallyIsBallots, PowerFor, voteVars
<1>3. ProceedsOnlyIfCarried'
  BY <1>1 DEF voteVars, IInv, TypeOK, LedgerTypeOK, ProceedsOnlyIfCarried
<1> QED
  BY <1>1, <1>2, <1>3 DEF IInv

(* A stuttering step changes nothing the invariant speaks of.              *)
LEMMA StutterIInv == IInv /\ UNCHANGED govVars => IInv'
  BY DEF IInv, govVars, voteVars, vetoVars, TypeOK, LedgerTypeOK, UnusedIsEmpty, TallyIsBallots, PowerFor,
         ProceedsOnlyIfCarried

(* The inductive step.                                                     *)
LEMMA StepIInv == IInv /\ [Next]_govVars => IInv'
<1> SUFFICES ASSUME IInv, [Next]_govVars PROVE IInv'
  OBVIOUS
<1>1. CASE CreateProposal
  BY <1>1, CreateIInv
<1>2. ASSUME NEW v \in Voters, NEW p \in ProposalIds, NEW power \in Powers,
             \/ \E type \in VoteTypes : CastVote(v, p, type, power)
             \/ CastVeto(v, p, power)
      PROVE  IInv'
  BY <1>2, VoteIInv, VetoIInv
<1>3. ASSUME NEW p \in ProposalIds, QueueProposal(p) \/ ExecuteProposal(p)
      PROVE  IInv'
  BY <1>3, QueueIInv, ExecuteIInv
<1>4. CASE CloseLedger /\ UNCHANGED <<proposalCount, proposal, voteVars, vetoVars>>
  BY <1>4, LedgerIInv
<1>5. CASE UNCHANGED govVars
  BY <1>5, StutterIInv
<1> QED
  BY <1>1, <1>2, <1>3, <1>4, <1>5 DEF Next

THEOREM SpecIInv == Spec => []IInv
<1>1. GovernanceInit => IInv
  BY InitIInv
<1>2. IInv /\ [Next]_govVars => IInv'
  BY StepIInv
<1> QED
  BY <1>1, <1>2, PTL DEF Spec

(* Tallies and states keep their type whatever powers callers state.       *)
THEOREM TypeCorrect == Spec => []TypeOK
<1>1. IInv => TypeOK
  BY DEF IInv
<1> QED
  BY <1>1, SpecIInv, PTL

(* Every tally is the power of its ballots, one per voter and proposal.    *)
THEOREM TalliesAreBallots == Spec => []TallyIsBallots
<1>1. IInv => TallyIsBallots
  BY DEF IInv
<1> QED
  BY <1>1, SpecIInv, PTL

(* What is queued or executed was carried and waited for its timelock.     *)
THEOREM ProceedsEarned == Spec => []ProceedsOnlyIfCarried
<1>1. IInv => ProceedsOnlyIfCarried
  BY DEF IInv
<1> QED
  BY <1>1, SpecIInv, PTL

(* What one step may do to the votes, the state and the timelock of a      *)
(* proposal, from which both action properties follow.                     *)
LEMMA StepEffect ==
    ASSUME IInv, Next, NEW p \in ProposalIds
    PROVE  /\ votes'[p] # votes[p] => proposal[p].state = "Active" /\ seq <= proposal[p].endLedger
           /\ \/ proposal'[p] = proposal[p]
              \/ proposal[p].state \in {"Pending", "Active"}
              \/ /\ proposal[p].state = "Queued"
                 /\ proposal'[p].state \in {"Executed", "Vetoed"}
                 /\ proposal'[p].etaLedger = proposal[p].etaLedger
<1> USE DEF IInv
<1>1. CASE CreateProposal
  <2>1. votes'[p] = votes[p]
    BY <1>1 DEF TypeOK, UnusedIsEmpty, CreateProposal
  <2>2. proposal'[p] = proposal[p] \/ proposal[p].state = "Pending"
    BY <1>1, AbsentType DEF TypeOK, UnusedIsEmpty, CreateProposal
  <2> QED
    BY <2>1, <2>2
<1>2. ASSUME NEW v \in Voters, NEW q \in ProposalIds, NEW power \in Powers, NEW type \in VoteTypes,
             CastVote(v, q, type, power)
      PROVE  /\ proposal'[p] = proposal[p]
             /\ votes'[p] # votes[p]
                    => proposal[p].state = "Active" /\ seq <= proposal[p].endLedger
  BY <1>2 DEF TypeOK, CastVote, CountVote
<1>3. ASSUME NEW v \in Voters, NEW q \in ProposalIds, NEW power \in Powers, CastVeto(v, q, power)
      PROVE  /\ votes' = votes
             /\ \/ proposal'[p] = proposal[p]
                \/ /\ proposal[p].state \in {"Active", "Queued"}
                   /\ proposal'[p].state = "Vetoed"
                   /\ proposal'[p].etaLedger = proposal[p].etaLedger
  <2>1. /\ proposal[q].state \in {"Active", "Queued"} /\ votes' = votes
        /\ proposal' = [proposal EXCEPT ![q].state = "Vetoed"] \/ proposal' = proposal
    BY <1>3 DEF CastVeto, voteVars
  <2> QED
    BY <2>1 DEF TypeOK
<1>4. ASSUME NEW q \in ProposalIds, QueueProposal(q)
      PROVE  votes' = votes /\ (proposal'[p] = proposal[p] \/ proposal[p].state = "Active")
  <2>1. votes' = votes /\ proposal[q].state = "Active"
    BY <1>4 DEF QueueProposal, VotingEnded, voteVars
  <2>2. p # q => proposal'[p] = proposal[p]
    BY <1>4 DEF TypeOK, QueueProposal
  <2> QED
    BY <2>1, <2>2
<1>5. ASSUME NEW q \in ProposalIds, ExecuteProposal(q)
      PROVE  /\ votes' = votes
             /\ \/ proposal'[p] = proposal[p]
                \/ /\ proposal[p].state = "Queued"
                   /\ proposal'[p].state = "Executed"
                   /\ proposal'[p].etaLedger = proposal[p].etaLedger
  <2>1. /\ proposal[q].state = "Queued" /\ votes' = votes
        /\ proposal' = [proposal EXCEPT ![q].state = "Executed"]
    BY <1>5 DEF ExecuteProposal, voteVars
  <2> QED
    BY <2>1 DEF TypeOK
<1>6. CASE CloseLedger /\ UNCHANGED <<proposalCount, proposal, voteVars, vetoVars>>
  BY <1>6 DEF voteVars
<1> QED
  BY <1>1, <1>2, <1>3, <1>4, <1>5, <1>6 DEF Next

(* Tallies are frozen from the end of voting on.                           *)
THEOREM TalliesFreeze == Spec => TallyFrozenOnceClosed
<1> DEFINE Frozen == \A p \in ProposalIds :
              votes'[p] # votes[p] => /\ proposal[p].state = "Active"
                                      /\ seq <= proposal[p].endLedger
<1>1. IInv /\ [Next]_govVars => [Frozen]_govVars
  BY StepEffect
<1> QED
  BY <1>1, SpecIInv, PTL DEF Spec, TallyFrozenOnceClosed

(* Decisions are final, for any number of proposals made afterwards.       *)
THEOREM FinalDecisions == Spec => DecisionsAreFinal
<1> DEFINE Final == \A p \in ProposalIds :
              /\ proposal[p].state \in {"Executed", "Defeated", "Vetoed"}
                    => proposal'[p] = proposal[p]
              /\ proposal[p].state = "Queued"
                    => /\ proposal'[p].state \in {"Queued", "Executed", "Vetoed"}
                       /\ proposal'[p].etaLedger = proposal[p].etaLedger
<1>1. IInv /\ [Next]_govVars => [Final]_govVars
  BY StepEffect
<1> QED
  BY <1>1, SpecIInv, PTL DEF Spec, DecisionsAreFinal
====
