---- MODULE RedemptionTickets ----
(***************************************************************************)
(* What a redemption queue promises, without ledgers, modes or owners: a   *)
(* ticket is issued for shares; it is either cancelled for exactly those   *)
(* shares, or granted an amount of assets once and then paid once, in full *)
(* or cut by at most half; nothing happens to it after that.               *)
(***************************************************************************)
EXTENDS Integers

CONSTANT TicketIds

VARIABLE ticket

Init == ticket = [id \in TicketIds |-> [status |-> "none", worth |-> 0]]

Issue(id) ==
    /\ ticket[id].status = "none"
    /\ ticket'[id].status = "open"
    /\ ticket'[id].worth > 0

Grant(id) ==
    /\ ticket[id].status = "open"
    /\ ticket'[id].status = "granted"

Cancel(id) ==
    /\ ticket[id].status = "open"
    /\ ticket'[id] = [ticket[id] EXCEPT !.status = "cancelled"]

Pay(id) ==
    /\ ticket[id].status = "granted"
    /\ ticket'[id].status = "paid"
    /\ ticket'[id].worth <= ticket[id].worth
    /\ 2 * ticket'[id].worth >= ticket[id].worth - 1

(* One ticket is issued, granted or cancelled, or some are paid together.  *)
Next ==
    \E ids \in SUBSET TicketIds :
        /\ \A id \in TicketIds \ ids : ticket'[id] = ticket[id]
        /\ \/ \E id \in ids : ids = {id} /\ (Issue(id) \/ Grant(id) \/ Cancel(id))
           \/ \A id \in ids : Pay(id)

Spec == Init /\ [][Next]_ticket
====
