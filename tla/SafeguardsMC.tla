---- MODULE SafeguardsMC ----
(***************************************************************************)
(* Two vaults, of which one names the sentinel as its guardian.            *)
(***************************************************************************)
EXTENDS Safeguards

CONSTANTS admin, guardian, sentinel, guarded, unguarded, keeper

MCPausersOf == [v \in WatchedVaults |-> {admin, IF v = guarded THEN sentinel ELSE guardian}]
MCUnpauserOf == [v \in WatchedVaults |-> admin]
MCNavs == -1..25
====
