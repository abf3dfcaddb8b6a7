---- MODULE PortfolioStore ----
(***************************************************************************)
(* services/database/src/db-client.ts: tables in the memory of the API     *)
(* server's process, all of them written to one file after each change and *)
(* read back when a process starts.  The file is overwritten in place, and *)
(* an error of the write is logged and forgotten.                          *)
(***************************************************************************)
EXTENDS Totals, Sequences

CONSTANTS
    Users,          \* addresses that start with G
    VaultTypes,
    Amounts,        \* what a deposit may be of
    HistoryCap,     \* transactions kept per user (200)
    HistoryPage,    \* transactions answered at once (20)
    MaxRecords      \* bound: deposits recorded in all lives of the process

ASSUME StoreAssumption ==
    /\ Amounts \subseteq Nat \ {0}
    /\ HistoryCap \in Nat \ {0}
    /\ HistoryPage \in 1..HistoryCap
    /\ MaxRecords \in Nat

VARIABLES
    table,      \* usersTable, portfoliosTable, transactionsTable
    opened,     \* users whose map was set before an amount was refused
    file,       \* what the disk holds: tables, or the torn rest of a write
    unsaved,    \* history: the last write did not reach the disk whole
    acked,      \* history: what was acknowledged, per user and vault
    recorded    \* deposits recorded so far

storeVars == <<table, opened, file, unsaved, acked, recorded>>

Torn == [torn |-> TRUE]

Empty ==
    [users        |-> {},
     portfolio    |-> [u \in Users |-> [v \in VaultTypes |-> 0]],
     transactions |-> [u \in Users |-> <<>>]]

StoreInit ==
    /\ table = Empty
    /\ opened = {}
    /\ file = Empty
    /\ unsaved = FALSE
    /\ acked = Empty.portfolio
    /\ recorded = 0

(* Writing the tables: the file holds them, keeps what it held (it could   *)
(* not be opened), or is cut short (the disk is full).                     *)
PersistState(written) ==
    \/ file' = written /\ unsaved' = FALSE
    \/ file' \in {file, Torn} /\ unsaved' = TRUE

----
(* Profiles                                                                *)

WithProfile(user) == [table EXCEPT !.users = @ \cup {user}]

(* The profile is new, or its last activity is: both are persisted.        *)
GetOrCreateUserProfile(user) ==
    /\ table' = WithProfile(user)
    /\ PersistState(table')
    /\ UNCHANGED <<opened, acked, recorded>>

----
(* Deposits                                                                *)

Transaction(vault, amount) == [vault |-> vault, amount |-> amount]

(* unshift and pop: the newest first, the oldest of too many dropped.      *)
Recent(transactions) ==
    SubSeq(transactions, 1, IF Len(transactions) < HistoryCap THEN Len(transactions)
                                                             ELSE HistoryCap)

WithTransaction(tables, user, vault, amount) ==
    [tables EXCEPT !.transactions[user] = Recent(<<Transaction(vault, amount)>> \o @)]

WithPortfolio(tables, user, vault, amount) ==
    [tables EXCEPT !.portfolio[user][vault] = @ + amount]

Deposited(user, vault, amount) ==
    WithTransaction(WithPortfolio(table, user, vault, amount), user, vault, amount)

(* A variant whose transaction is written before the portfolio changes.    *)
TransactionFirst(user, vault, amount) == WithTransaction(table, user, vault, amount)

(* What recordTransaction writes; the portfolio has changed by then.       *)
FirstWrite(user, vault, amount) == Deposited(user, vault, amount)

Record(user, vault, amount) ==
    /\ recorded < MaxRecords
    /\ recorded' = recorded + 1
    /\ table' = Deposited(user, vault, amount)
    /\ opened' = opened \ {user}

(* The deposit is written twice and acknowledged whatever became of the    *)
(* writes; the second decides.                                             *)
RecordDeposit(user, vault, amount) ==
    /\ Record(user, vault, amount)
    /\ PersistState(table')
    /\ acked' = [acked EXCEPT ![user][vault] = @ + amount]

(* An amount that is no integer: the user's map was set already.           *)
RefuseDeposit(user) ==
    /\ opened' = IF \A v \in VaultTypes : table.portfolio[user][v] = 0
                 THEN opened \cup {user} ELSE opened
    /\ UNCHANGED <<table, file, unsaved, acked, recorded>>

(* getUserPortfolio: a row of zeros for a user without a map, the rows of  *)
(* the map otherwise, which are none after a refused amount.               *)
GetUserPortfolio(user) ==
    LET held == {v \in VaultTypes : table.portfolio[user][v] > 0}
    IN  IF held = {} /\ user \notin opened THEN [v \in VaultTypes |-> 0]
        ELSE [v \in held |-> table.portfolio[user][v]]

(* getUserTransactions: the newest first.                                  *)
GetUserTransactions(user) ==
    SubSeq(table.transactions[user], 1,
           IF Len(table.transactions[user]) < HistoryPage THEN Len(table.transactions[user])
                                                          ELSE HistoryPage)

----
(* The end and the start of a process                                      *)

(* The process ends while no write is under way: the memory is gone.       *)
StoreCrash ==
    /\ table' = Empty
    /\ opened' = {}
    /\ UNCHANGED <<file, unsaved, acked, recorded>>

(* It ends in one of the two writes of a deposit nobody will acknowledge.  *)
CrashInDeposit(user, vault, amount) ==
    /\ recorded < MaxRecords
    /\ recorded' = recorded + 1
    /\ table' = Empty
    /\ opened' = {}
    /\ \/ file' = FirstWrite(user, vault, amount) /\ unsaved' = FALSE
       \/ file' = Torn /\ unsaved' = TRUE
    /\ UNCHANGED acked

Loaded == IF file = Torn THEN Empty ELSE file

(* A file that cannot be parsed is taken for no data; what was only in the *)
(* memory, or in a torn file, is lost, acknowledged or not.                *)
InitializeStorage ==
    /\ table' = Loaded
    /\ opened' = {}
    /\ acked' = IF unsaved THEN Loaded.portfolio ELSE acked
    /\ unsaved' = FALSE
    /\ UNCHANGED <<file, recorded>>

----

DepositsOf(history, vault) ==
    [i \in DOMAIN history |-> IF history[i].vault = vault THEN history[i].amount ELSE 0]

HistoryTotal(history, vault) == Total(DepositsOf(history, vault))

(* Every unit of a portfolio is in its user's history, as long as nothing  *)
(* was dropped from it.                                                    *)
Balanced(tables) ==
    \A u \in Users, v \in VaultTypes :
        IF Len(tables.transactions[u]) < HistoryCap
        THEN tables.portfolio[u][v] = HistoryTotal(tables.transactions[u], v)
        ELSE tables.portfolio[u][v] >= HistoryTotal(tables.transactions[u], v)

(* What a client is answered covers what it was told was recorded.         *)
AnswersCover ==
    \A u \in Users : LET rows == GetUserPortfolio(u) IN
        \A v \in VaultTypes : acked[u][v] > 0 =>
            /\ v \in DOMAIN rows /\ acked[u][v] <= rows[v]
            /\ GetUserTransactions(u) # <<>>
====
