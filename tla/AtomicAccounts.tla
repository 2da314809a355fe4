--------------------------- MODULE AtomicAccounts ---------------------------
(***************************************************************************)
(* What BalanceMutator.withAccountLock promises: "reading the balance,     *)
(* checking it and writing it is atomic".  An invocation happens as a      *)
(* whole, on the accounts as they are at that moment, or not at all.       *)
(***************************************************************************)
EXTENDS Integers

CONSTANTS Clients, Accounts, Jobs, Start

VARIABLES
    accounts,  \* account -> balance, and the holding that goes with it
    outcome    \* client -> what became of its invocation

AtomicInit ==
    /\ accounts = [a \in Accounts |-> Start]
    /\ outcome = [c \in Clients |-> "pending"]

Apply(c) ==
    LET job == Jobs[c] IN
    /\ outcome[c] = "pending"
    /\ \A a \in job.ids : accounts[a].balance + job.balance[a] >= 0
    /\ accounts' = [a \in Accounts |->
           IF a \in job.ids
           THEN [balance |-> accounts[a].balance + job.balance[a],
                 holding |-> accounts[a].holding + job.holding[a]]
           ELSE accounts[a]]
    /\ outcome' = [outcome EXCEPT ![c] = "done"]

Fail(c) ==
    /\ outcome[c] = "pending"
    /\ outcome' = [outcome EXCEPT ![c] = "failed"]
    /\ UNCHANGED accounts

AtomicNext == \E c \in Clients : Apply(c) \/ Fail(c)

AtomicSpec == AtomicInit /\ [][AtomicNext]_<<accounts, outcome>>
=============================================================================
