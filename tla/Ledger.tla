---- MODULE Ledger ----
(***************************************************************************)
(* The Stellar ledger as the contracts see it: a sequence number that only *)
(* grows (env.ledger().sequence()).  A contract call is atomic and runs at *)
(* one sequence number; a call that returns an error or panics is rolled   *)
(* back with everything it called, so it is simply not a step.             *)
(***************************************************************************)
EXTENDS Integers

CONSTANT MaxLedger   \* bound: the last ledger that is explored

ASSUME MaxLedgerAssumption == MaxLedger \in Nat

VARIABLE seq

LedgerInit == seq = 0

LedgerTypeOK == seq \in Nat

CloseLedger ==
    /\ seq < MaxLedger
    /\ seq' = seq + 1

(* a - b, but never below zero: the clamp the contracts write out as       *)
(* "if a < b { 0 } else { a - b }".                                        *)
Monus(a, b) == IF a < b THEN 0 ELSE a - b
====
