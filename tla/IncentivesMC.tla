---- MODULE IncentivesMC ----
(***************************************************************************)
(* A small instance for TLC: two vaults and the streamer itself are paid   *)
(* from one pool, and tokens are also sent to the pool directly.           *)
(***************************************************************************)
EXTENDS Incentives

CONSTANTS donor, vault, otherVault, streamer, controller, treasury, reserve

MCAccounts == {donor, vault, otherVault, streamer, controller, treasury, reserve}
MCFunds == [a \in MCAccounts |-> IF a = donor THEN 5 ELSE 0]
====
