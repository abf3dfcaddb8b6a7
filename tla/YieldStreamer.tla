---- MODULE YieldStreamer ----
(***************************************************************************)
(* contracts/streamer: deposits of yield that unlock linearly to a vault.  *)
(* One pool of tokens stands behind the streams of every vault.  Time is   *)
(* counted in ledgers; one asset is streamed.                              *)
(***************************************************************************)
EXTENDS Ledger, Asset, Sequences, Totals

CONSTANTS
    Streamer,       \* the streamer contract
    Payees,         \* addresses a stream may name as its vault: nothing asks whether one is
    MaxStreams      \* bound: streams added

ASSUME StreamerAssumption ==
    /\ MaxStreams \in Nat
    /\ Streamer \in Accounts
    /\ Payees \subseteq Accounts

VARIABLE streams    \* DataKey::Stream(id) for id in 1..StreamCount

StreamerTypeOK ==
    streams \in Seq([vault : Payees, totalAmount : Nat, claimedAmount : Nat,
                     startTime : 0..seq, duration : Nat \ {0}])

StreamerInit == streams = << >>

(* Wrong variant: a stream of no duration is accepted.                     *)
AddYieldStreamAnyDuration(from, vault, amount, duration) ==
    /\ Len(streams) < MaxStreams
    /\ amount > 0
    /\ AssetTransfer(from, Streamer, amount)
    /\ streams' = Append(streams, [vault |-> vault, totalAmount |-> amount,
                                   claimedAmount |-> 0, startTime |-> seq,
                                   duration |-> duration])

AddYieldStream(from, vault, amount, duration) ==
    /\ Len(streams) < MaxStreams
    /\ amount > 0
    /\ duration > 0
    /\ AssetTransfer(from, Streamer, amount)
    /\ streams' = Append(streams, [vault |-> vault, totalAmount |-> amount,
                                   claimedAmount |-> 0, startTime |-> seq,
                                   duration |-> duration])

Unlocked(stream) ==
    LET elapsed == seq - stream.startTime
    IN  IF elapsed >= stream.duration THEN stream.totalAmount
        ELSE (stream.totalAmount * elapsed) \div stream.duration

StreamsOf(vault) == {i \in DOMAIN streams : streams[i].vault = vault}

(* Wrong variant: what was claimed before is not deducted.                 *)
ClaimableForgettingClaimed(vault) ==
    [i \in DOMAIN streams |-> IF i \in StreamsOf(vault) THEN Unlocked(streams[i]) ELSE 0]

(* What a harvest pays from each stream; streams of other vaults pay none. *)
Claimable(vault) ==
    [i \in DOMAIN streams |->
        IF i \in StreamsOf(vault) THEN Unlocked(streams[i]) - streams[i].claimedAmount ELSE 0]

(* Wrong variant: only the first stream's claim is written back.           *)
HarvestClaimableFirstOnly(vault) ==
    /\ Total(Claimable(vault)) > 0
    /\ AssetTransfer(Streamer, vault, Total(Claimable(vault)))
    /\ streams' = [i \in DOMAIN streams |->
                      IF i = 1 THEN [streams[i] EXCEPT !.claimedAmount = @ + Claimable(vault)[i]]
                               ELSE streams[i]]

(* Anyone may call; with nothing to pay the call changes nothing.  Streams *)
(* to the streamer itself are claimed too, and their tokens stay.          *)
HarvestClaimable(vault) ==
    /\ Total(Claimable(vault)) > 0
    /\ AssetTransfer(Streamer, vault, Total(Claimable(vault)))
    /\ streams' = [i \in DOMAIN streams |->
                      [streams[i] EXCEPT !.claimedAmount = @ + Claimable(vault)[i]]]
====
