---- MODULE HikariSystemMC ----
(***************************************************************************)
(* A small deployment for TLC: see the README for the bounds.              *)
(***************************************************************************)
EXTENDS HikariSystem

CONSTANTS alice, bob, agent, stranger, admin, guardian, lending, amm, clamm, vault

CONSTANTS
    MCHolders,      \* the share holders of this instance
    MCAdapters,     \* the adapters of this instance
    MCFunding       \* what each holder starts with

MCKind == [s \in MCAdapters |-> CASE s = lending -> "blend"
                                  [] s = amm     -> "soroswap"
                                  [] s = clamm   -> "phoenix"
                                  [] OTHER       -> "mock"]
MCAccounts == MCHolders \cup MCAdapters \cup {vault}
MCFunds == [a \in MCAccounts |-> IF a \in MCHolders THEN MCFunding ELSE 0]
====
