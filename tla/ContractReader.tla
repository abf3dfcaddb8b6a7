---- MODULE ContractReader ----
(***************************************************************************)
(* sdk/src/contract-reader.ts: reads of contract state by simulation, kept *)
(* for cacheTtlMs in the memory of the API server's process.  The chain is *)
(* a list of states it goes through; a read is identified by its contract, *)
(* function and arguments.                                                 *)
(***************************************************************************)
EXTENDS Integers, Sequences, FiniteSets

CONSTANTS
    Reads,          \* <<function, argument ...>>
    ChainStates,    \* what each read returns, in each state of the chain
    Failed,         \* instead of a result, when a read throws
    MaxTroubles     \* bound: how often the network gets flaky or goes down

ASSUME ReaderAssumption ==
    /\ \A n \in DOMAIN ChainStates : DOMAIN ChainStates[n] = Reads
    /\ MaxTroubles \in Nat

VARIABLES
    height,     \* the state the chain is in
    net,        \* the Soroban RPC, seen from the server
    troubles,   \* how often it was not up
    cache       \* cache[r]: nothing, or a value and its age in half lives

chainVars == <<height, net, troubles>>
readerVars == <<chainVars, cache>>

NotCached == [age |-> 2]
Cached(value) == [age |-> 0, value |-> value]

Value(r) == ChainStates[height][r]

ReaderInit ==
    /\ height = 1
    /\ net = "up"
    /\ troubles = 0
    /\ cache = [r \in Reads |-> NotCached]

(* The entries whose expiresAt lies ahead: those of age 0 or 1.            *)
Hits == {r \in Reads : cache[r].age < 2}

(* Half of cacheTtlMs passes.                                              *)
CacheAges ==
    /\ \E r \in Reads : cache[r].age < 2
    /\ cache' = [r \in Reads |-> IF cache[r].age = 0 THEN [age |-> 1, value |-> cache[r].value]
                                                    ELSE NotCached]

(* Which of some reads may fail: none of those found in the cache, no      *)
(* other while the network is up, every other while it is down.  A read    *)
(* the deployed contract does not export fails whatever the network does.  *)
Failures(reads) ==
    LET sent == reads \ Hits
        never == {r \in sent : Value(r) = Failed}
    IN  CASE net = "up"    -> {never}
          [] net = "down"  -> {sent}
          [] net = "flaky" -> {never \cup more : more \in SUBSET sent}

Result(failed, r) ==
    IF r \in Hits THEN cache[r].value ELSE IF r \in failed THEN Failed ELSE Value(r)

(* A variant whose entries live on when they are used.                     *)
RememberUsed(reads, failed) ==
    cache' = [r \in Reads |-> IF r \in reads \ failed THEN Cached(Result(failed, r))
                                                     ELSE cache[r]]

(* A value is kept from the moment it was answered; a hit changes nothing  *)
(* and a failure keeps what there was.                                     *)
Remember(reads, failed) ==
    cache' = [r \in Reads |-> IF r \in reads \ (Hits \cup failed) THEN Cached(Value(r))
                                                                 ELSE cache[r]]

(* readTokenBalance alone swallows the failure, and answers nothing held.  *)
TokenBalance(failed, r) ==
    IF Result(failed, r) = Failed THEN 0 ELSE Result(failed, r)

ReaderRestart == cache' = [r \in Reads |-> NotCached]

----
(* The chain and the network                                               *)

ChainMoves ==
    /\ height < Len(ChainStates)
    /\ height' = height + 1
    /\ UNCHANGED <<net, troubles>>

NetChanges ==
    /\ \/ net = "up" /\ troubles < MaxTroubles /\ net' \in {"flaky", "down"}
          /\ troubles' = troubles + 1
       \/ net # "up" /\ net' = "up" /\ UNCHANGED troubles
    /\ UNCHANGED height

(* The values a read has had so far.                                       *)
Seen(r) == {ChainStates[n][r] : n \in 1..height}
====
