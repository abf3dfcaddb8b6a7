---- MODULE AuditLog ----
(***************************************************************************)
(* engine/src/audit_logger.ts: the hash chain of a process's decisions,    *)
(* which is held in memory and so ends with the process, and the hash tree *)
(* over its entries.                                                       *)
(***************************************************************************)
EXTENDS Integers, Sequences

VARIABLE chain      \* chain[p]: the entries of the logger of process p

Genesis == <<"genesis">>

EntryHash(previous, proposal, evaluation) ==
    <<"entry", previous, proposal.cycle, proposal.amount, evaluation.approved,
      evaluation.requiresHuman>>

LastHash(entries) ==
    IF entries = <<>> THEN Genesis ELSE entries[Len(entries)].entryHash

LogDecision(p, proposal, evaluation, onDay) ==
    LET previous == LastHash(chain[p])
        entry == [day |-> onDay, previousHash |-> previous, proposal |-> proposal,
                  evaluation |-> evaluation,
                  entryHash |-> EntryHash(previous, proposal, evaluation)]
    IN  chain' = [chain EXCEPT ![p] = Append(@, entry)]

NewLog(p) == chain' = [chain EXCEPT ![p] = <<>>]

VerifyChainIntegrity(entries) ==
    \A n \in DOMAIN entries :
        entries[n].previousHash = IF n = 1 THEN Genesis ELSE entries[n - 1].entryHash

EntryHashes(entries) == [n \in DOMAIN entries |-> entries[n].entryHash]

----
(* engine/src/cryptographic_verifier.ts and the same construction in       *)
(* services/automation/src/merkle-solvency.ts: a binary hash tree over a   *)
(* list of leaves, where a level of odd length pairs its last node with    *)
(* itself.  SHA-256 is taken as an injective constructor of values.        *)

Node(left, right) == <<"node", left, right>>

EmptyRoot == <<"EMPTY_TREE">>

(* A variant that moves the last node of an odd level up as it is.         *)
NextLevelPromoting(level) ==
    [i \in 1..((Len(level) + 1) \div 2) |->
        IF 2*i <= Len(level) THEN Node(level[2*i - 1], level[2*i]) ELSE level[2*i - 1]]

NextLevel(level) ==
    [i \in 1..((Len(level) + 1) \div 2) |->
        Node(level[2*i - 1], IF 2*i <= Len(level) THEN level[2*i] ELSE level[2*i - 1])]

(* The levels from the leaves up.  The loops stop at the first that has no *)
(* more than one node; those above it are never looked at.                 *)
Levels(leaves) ==
    LET level[h \in 0..Len(leaves)] ==
            IF h = 0 THEN leaves ELSE NextLevel(level[h - 1])
    IN  level

Height(leaves) ==
    LET level == Levels(leaves)
    IN  CHOOSE h \in DOMAIN level :
            Len(level[h]) <= 1 /\ \A k \in 0..(h - 1) : Len(level[k]) > 1

MerkleRoot(leaves) ==
    IF leaves = <<>> THEN EmptyRoot ELSE Levels(leaves)[Height(leaves)][1]

(* Where the way up from an index leads through each level; indices start  *)
(* at 0 as in the code.                                                    *)
Positions(index, height) ==
    LET at[h \in 0..height] == IF h = 0 THEN index ELSE at[h - 1] \div 2
    IN  at

Sibling(level, index) ==
    LET pair == IF index % 2 = 0 THEN index + 1 ELSE index - 1
    IN  IF pair < Len(level) THEN level[pair + 1] ELSE level[index + 1]

GenerateProof(leaves, index) ==
    LET at == Positions(index, Height(leaves))
    IN  [h \in 1..Height(leaves) |-> Sibling(Levels(leaves)[h - 1], at[h - 1])]

VerifyProof(leaf, proof, root, index) ==
    LET at == Positions(index, Len(proof))
        climbed[h \in 0..Len(proof)] ==
            IF h = 0 THEN leaf
            ELSE IF at[h - 1] % 2 = 0 THEN Node(climbed[h - 1], proof[h])
                                      ELSE Node(proof[h], climbed[h - 1])
    IN  climbed[Len(proof)] = root

----
(* The solvency engine's form of a proof: each sibling with its side.      *)

InclusionProof(leaves, index) ==
    LET at == Positions(index, Height(leaves))
    IN  [h \in 1..Height(leaves) |->
            [position |-> IF at[h - 1] % 2 = 0 THEN "right" ELSE "left",
             hash     |-> Sibling(Levels(leaves)[h - 1], at[h - 1])]]

VerifyInclusion(leaf, proof, root) ==
    LET climbed[h \in 0..Len(proof)] ==
            IF h = 0 THEN leaf
            ELSE IF proof[h].position = "left" THEN Node(proof[h].hash, climbed[h - 1])
                                               ELSE Node(climbed[h - 1], proof[h].hash)
    IN  climbed[Len(proof)] = root
====
