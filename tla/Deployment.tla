---- MODULE Deployment ----
(***************************************************************************)
(* The addresses of one deployment of the protocol, fixed by constructors. *)
(***************************************************************************)
EXTENDS Ledger, FiniteSets

CONSTANTS
    Vault,          \* the vault contract
    Vaults,         \* vault addresses an admin may re-bind a contract to
    Strategies      \* the strategy adapters

ASSUME DeploymentAssumption ==
    /\ Vault \in Vaults
    /\ Vaults \cap Strategies = {}
    /\ IsFiniteSet(Strategies)
====
