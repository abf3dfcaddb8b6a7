---- MODULE GovernanceMC ----
(***************************************************************************)
(* A small electorate for TLC; a power of -1 stands for those the contract *)
(* must refuse.                                                            *)
(***************************************************************************)
EXTENDS Governance, TLC

CONSTANTS v1, v2

MCPowers == {-1, 1}

VoterSymmetry == Permutations(Voters)
====
