---- MODULE AuthService ----
(***************************************************************************)
(* services/database/src/auth-service.ts: challenges, consumed nonces and  *)
(* sessions, all of them in the memory of the API server's process.  A     *)
(* challenge is known by its number, its nonce and message with it: both   *)
(* are random and never repeat, not even after a restart.                  *)
(***************************************************************************)
EXTENDS Integers, Sequences

CONSTANTS
    Addresses,      \* the account addresses of the right form
    MaxChallenges   \* bound: challenges issued in all lives of the process

ASSUME AuthAssumption == MaxChallenges \in Nat

VARIABLES
    issuedTo,       \* history: the address of each challenge ever issued
    expired,        \* the challenges whose five minutes are over
    active,         \* activeChallenges
    consumed,       \* consumedNonces
    sessions,       \* activeSessions
    earned          \* history: the sessions ever created, in order

authVars == <<issuedTo, expired, active, consumed, sessions, earned>>

Challenges == DOMAIN issuedTo

(* What a wallet returns when it signs the message of a challenge.         *)
Signatures == [signer : Addresses, over : Challenges]

Sessions ==
    [challenge : Challenges, address : Addresses, signer : Addresses, over : Challenges,
     late : BOOLEAN]

AuthTypeOK ==
    /\ issuedTo \in Seq(Addresses)
    /\ expired \subseteq Challenges
    /\ active \subseteq Challenges
    /\ consumed \subseteq Challenges
    /\ sessions \subseteq Sessions
    /\ earned \in Seq(Sessions)

AuthInit ==
    /\ issuedTo = <<>>
    /\ expired = {}
    /\ active = {}
    /\ consumed = {}
    /\ sessions = {}
    /\ earned = <<>>

GenerateChallenge(address) ==
    /\ Len(issuedTo) < MaxChallenges
    /\ issuedTo' = Append(issuedTo, address)
    /\ active' = active \cup {Len(issuedTo) + 1}
    /\ UNCHANGED <<expired, consumed, sessions, earned>>

(* Five minutes after its issue.                                           *)
ChallengeExpires(c) ==
    /\ c \in Challenges \ expired
    /\ expired' = expired \cup {c}
    /\ UNCHANGED <<issuedTo, active, consumed, sessions, earned>>

(* The signature is by the key that the request claims, over the message   *)
(* of the challenge.                                                       *)
VerifyEd25519(c, signature, address) == signature = [signer |-> address, over |-> c]

(* A variant that relies on the signature alone to tie the address to the  *)
(* challenge.                                                              *)
AcceptsAnyAddress(c, address, signature) ==
    /\ c \in active \ expired
    /\ c \notin consumed
    /\ VerifyEd25519(c, signature, address)

Accepts(c, address, signature) ==
    /\ c \in active \ expired
    /\ issuedTo[c] = address
    /\ c \notin consumed
    /\ VerifyEd25519(c, signature, address)

(* The nonce is consumed and the challenge deleted before the session is   *)
(* created.                                                                *)
CreateSession(c, address, signature) ==
    LET session == [challenge |-> c, address |-> address, signer |-> signature.signer,
                    over |-> signature.over, late |-> c \in expired]
    IN  /\ consumed' = consumed \cup {c}
        /\ active' = active \ {c}
        /\ sessions' = sessions \cup {session}
        /\ earned' = Append(earned, session)
        /\ UNCHANGED <<issuedTo, expired>>

(* An answer that is turned down takes an expired or replayed challenge    *)
(* with it and leaves any other for another attempt.                       *)
TurnDown(c, address) ==
    /\ active' = IF c \in expired \/ (issuedTo[c] = address /\ c \in consumed)
                 THEN active \ {c} ELSE active
    /\ UNCHANGED <<issuedTo, expired, consumed, sessions, earned>>

(* A new process.                                                          *)
AuthRestart ==
    /\ active' = {}
    /\ consumed' = {}
    /\ sessions' = {}
    /\ UNCHANGED <<issuedTo, expired, earned>>

----

(* Every session, of every life of the process, was given to the address   *)
(* the challenge was issued to, for its own signature over that challenge, *)
(* in time, and no challenge gave two.                                     *)
SessionsEarned ==
    \A n \in DOMAIN earned :
        /\ issuedTo[earned[n].challenge] = earned[n].address
        /\ earned[n].signer = earned[n].address
        /\ earned[n].over = earned[n].challenge
        /\ ~earned[n].late
        /\ \A m \in DOMAIN earned : earned[m].challenge = earned[n].challenge => m = n
====
