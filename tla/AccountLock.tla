---------------------------- MODULE AccountLock ----------------------------
(***************************************************************************)
(* BalanceMutator.withAccountLock, in its three strategies: optimistic     *)
(* (versions), pessimistic (SELECT ... FOR UPDATE) and distributed (Redis  *)
(* locks with a time to live, and fencing tokens).  Every client makes one *)
(* invocation; its function changes balances of the accounts and holdings  *)
(* that belong to them, in any order.                                      *)
(*                                                                         *)
(* The database is READ COMMITTED: a statement sees what is committed, an  *)
(* UPDATE waits for the lock of its row and then looks at the row again,   *)
(* and locks are kept until the transaction ends.                          *)
(***************************************************************************)
EXTENDS Integers, FiniteSets, FiniteSetsExt

CONSTANTS
    Clients,
    AccountIds,  \* ordered
    Jobs,        \* client -> ids, and what it adds to balances and holdings
    Start,       \* balance and holding, to begin with
    Strategies,
    MaxRetries,
    Stallers,    \* clients that may stop for longer than a Redis lock lives
    NoOne

ASSUME AccountLockAssumption ==
    /\ AccountIds \subseteq Int
    /\ \A S \in SUBSET AccountIds \ {{}} : \E a \in S : \A b \in S : a <= b
    /\ Start \in [balance : Nat, holding : Nat]
    /\ \A c \in Clients : /\ Jobs[c].ids \subseteq AccountIds /\ Jobs[c].ids # {}
                          /\ Jobs[c].balance \in [Jobs[c].ids -> Int]
                          /\ Jobs[c].holding \in [Jobs[c].ids -> Int]
    /\ Strategies \subseteq {"optimistic", "pessimistic", "distributed"}
    /\ MaxRetries \in Nat \ {0}
    /\ Stallers \subseteq Clients /\ NoOne \notin Clients

VARIABLES
    strategy,
    \* the database, as committed, and the locks of its rows
    row,        \* account -> balance, version, fence
    holding,    \* account -> quantity
    rowLock, holdingLock,
    \* Redis
    redisLock,  \* account -> who holds the lock
    fenceCount, \* account -> the last fencing token
    \* the clients
    pc,
    tries,
    acquired,   \* Redis locks taken
    fences,     \* account -> fencing token
    snap,       \* account -> row as read
    seen,       \* account -> holding as read
    written,    \* account -> row as updated
    stored,     \* account -> holding as updated
    effect      \* what became of the invocation's transaction

database == <<row, holding, rowLock, holdingLock>>
redis == <<redisLock, fenceCount>>
tx == <<snap, seen, written, stored>>
lockVars == <<strategy, database, redis, pc, tries, acquired, fences, tx, effect>>

None == [a \in {} |-> NoOne]

LockInit ==
    /\ strategy \in Strategies
    /\ row = [a \in AccountIds |-> [balance |-> Start.balance, version |-> 0, fence |-> 0]]
    /\ holding = [a \in AccountIds |-> Start.holding]
    /\ rowLock = [a \in AccountIds |-> NoOne] /\ holdingLock = rowLock
    /\ redisLock = rowLock /\ fenceCount = [a \in AccountIds |-> 0]
    /\ pc = [c \in Clients |-> IF strategy = "distributed" THEN "acquire" ELSE "read"]
    /\ tries = [c \in Clients |-> 1]
    /\ acquired = [c \in Clients |-> {}]
    /\ fences = [c \in Clients |-> None]
    /\ snap = fences /\ seen = fences /\ written = fences /\ stored = fences
    /\ effect = [c \in Clients |-> "pending"]

----------------------------------------------------------------------------
Ids(c) == Jobs[c].ids
BalanceIds(c) == {a \in Ids(c) : Jobs[c].balance[a] # 0}
HoldingIds(c) == {a \in Ids(c) : Jobs[c].holding[a] # 0}

Set(f, a, v) == [x \in DOMAIN f \cup {a} |-> IF x = a THEN v ELSE f[x]]

\* Accounts are taken in ascending order.
NextOf(S) == CHOOSE a \in S : \A b \in S : a <= b

Free(lock, a, c) == lock[a] \in {NoOne, c}

----------------------------------------------------------------------------
(***************************************************************************)
(* Distributed: SET NX PX and INCR, account by account                     *)
(***************************************************************************)
Acquire(c) ==
    LET a == NextOf(Ids(c) \ acquired[c]) IN
    /\ pc[c] = "acquire"
    /\ redisLock[a] = NoOne
    /\ redisLock' = [redisLock EXCEPT ![a] = c]
    /\ acquired' = [acquired EXCEPT ![c] = @ \cup {a}]
    /\ pc' = [pc EXCEPT ![c] = "fence"]
    /\ UNCHANGED <<strategy, database, fenceCount, tries, fences, tx, effect>>

TakeFence(c) ==
    LET a == NextOf(acquired[c] \ DOMAIN fences[c]) IN
    /\ pc[c] = "fence"
    /\ fenceCount' = [fenceCount EXCEPT ![a] = @ + 1]
    /\ fences' = [fences EXCEPT ![c] = Set(@, a, fenceCount[a] + 1)]
    /\ pc' = [pc EXCEPT ![c] = IF acquired[c] = Ids(c) THEN "read" ELSE "acquire"]
    /\ UNCHANGED <<strategy, database, redisLock, tries, acquired, tx, effect>>

\* A lock lives for ttlMs: long enough unless its holder is gone, or stalls.
Expire(a) ==
    /\ redisLock[a] # NoOne
    /\ pc[redisLock[a]] = "over" \/ redisLock[a] \in Stallers
    /\ redisLock' = [redisLock EXCEPT ![a] = NoOne]
    /\ UNCHANGED <<strategy, database, fenceCount, pc, tries, acquired, fences, tx, effect>>

\* The release script deletes a lock only if it is still the client's own.
Release(c) ==
    \E a \in acquired[c] :
        /\ pc[c] = "release"
        /\ redisLock' = [redisLock EXCEPT ![a] = IF @ = c THEN NoOne ELSE @]
        /\ acquired' = [acquired EXCEPT ![c] = @ \ {a}]
        /\ pc' = [pc EXCEPT ![c] = IF acquired[c] = {a} THEN "over" ELSE @]
        /\ UNCHANGED <<strategy, database, fenceCount, tries, fences, tx, effect>>

\* Redis does not answer, or the process is gone: the locks are left to expire.
ReleaseFails(c) ==
    /\ pc[c] = "release"
    /\ pc' = [pc EXCEPT ![c] = "over"]
    /\ UNCHANGED <<strategy, database, redis, tries, acquired, fences, tx, effect>>

----------------------------------------------------------------------------
(***************************************************************************)
(* The transaction                                                         *)
(***************************************************************************)
\* Where an invocation goes when it is over with the database.
Leaving(c) == IF acquired[c] = {} THEN "over" ELSE "release"

Unlocked(lock, c) == [a \in AccountIds |-> IF lock[a] = c THEN NoOne ELSE lock[a]]

\* The rows are read one by one, in pessimistic mode FOR UPDATE.
Read(c) ==
    LET a == NextOf(Ids(c) \ DOMAIN snap[c]) IN
    /\ pc[c] = "read"
    /\ IF strategy = "pessimistic"
       THEN rowLock[a] = NoOne /\ rowLock' = [rowLock EXCEPT ![a] = c]
       ELSE UNCHANGED rowLock
    /\ snap' = [snap EXCEPT ![c] = Set(@, a, row[a])]
    /\ pc' = [pc EXCEPT ![c] = IF Ids(c) \ DOMAIN snap[c] = {a} THEN "fn" ELSE @]
    /\ UNCHANGED <<strategy, row, holding, holdingLock, redis, tries, acquired, fences,
                   seen, written, stored, effect>>

\* What fn checks: what it read is enough.
Enough(c) == \A a \in Ids(c) : snap[c][a].balance + Jobs[c].balance[a] >= 0

\* WHERE version = the one read; WHERE fencing_token <= one's own.
GuardHolds(c, a) ==
    CASE strategy = "optimistic"  -> row[a].version = snap[c][a].version
      [] strategy = "pessimistic" -> TRUE
      [] strategy = "distributed" -> row[a].fence <= fences[c][a]

Updated(c, a, balance) ==
    [balance |-> balance, version |-> row[a].version + 1,
     fence |-> IF strategy = "distributed" THEN fences[c][a] ELSE row[a].fence]

NoTouch(c) == {}

\* Accounts that fn leaves alone: the optimistic mutator raises their version too.
TouchIds(c) == IF strategy = "optimistic" THEN Ids(c) \ BalanceIds(c) ELSE {}

ReadHolding(c, a) ==
    /\ pc[c] = "fn" /\ Enough(c)
    /\ a \in HoldingIds(c) \ DOMAIN seen[c]
    /\ seen' = [seen EXCEPT ![c] = Set(@, a, holding[a])]
    /\ UNCHANGED <<strategy, database, redis, pc, tries, acquired, fences,
                   snap, written, stored, effect>>

WriteHolding(c, a) ==
    /\ pc[c] = "fn"
    /\ a \in DOMAIN seen[c] \ DOMAIN stored[c]
    /\ Free(holdingLock, a, c)
    /\ holdingLock' = [holdingLock EXCEPT ![a] = c]
    /\ stored' = [stored EXCEPT ![c] = Set(@, a, seen[c][a] + Jobs[c].holding[a])]
    /\ UNCHANGED <<strategy, row, holding, rowLock, redis, pc, tries, acquired, fences,
                   snap, seen, written, effect>>

\* updateAccount; and the versions that are touched after fn.
Updates(c, a) ==
    /\ pc[c] = "fn" /\ Enough(c)
    /\ a \notin DOMAIN written[c]
    /\ \/ a \in BalanceIds(c)
       \/ /\ a \in TouchIds(c)
          /\ DOMAIN stored[c] = HoldingIds(c) /\ BalanceIds(c) \subseteq DOMAIN written[c]
    /\ Free(rowLock, a, c)

UpdateAccount(c, a) ==
    /\ Updates(c, a)
    /\ GuardHolds(c, a)
    /\ rowLock' = [rowLock EXCEPT ![a] = c]
    /\ written' = [written EXCEPT ![c] = Set(@, a, Updated(c, a, snap[c][a].balance + Jobs[c].balance[a]))]
    /\ UNCHANGED <<strategy, row, holding, holdingLock, redis, pc, tries, acquired, fences,
                   snap, seen, stored, effect>>

Rollback(c) ==
    /\ rowLock' = Unlocked(rowLock, c) /\ holdingLock' = Unlocked(holdingLock, c)
    /\ snap' = [snap EXCEPT ![c] = None] /\ seen' = [seen EXCEPT ![c] = None]
    /\ written' = [written EXCEPT ![c] = None] /\ stored' = [stored EXCEPT ![c] = None]
    /\ UNCHANGED <<strategy, row, holding, redis, acquired, fences>>

GivesUp(c) ==
    /\ pc' = [pc EXCEPT ![c] = Leaving(c)]
    /\ effect' = [effect EXCEPT ![c] = "failed"]
    /\ UNCHANGED tries

\* VersionConflict is tried again, up to maxRetries; FencingError is not.
Conflict(c, a) ==
    /\ Updates(c, a)
    /\ ~GuardHolds(c, a)
    /\ Rollback(c)
    /\ IF strategy = "optimistic" /\ tries[c] < MaxRetries
       THEN /\ pc' = [pc EXCEPT ![c] = "read"]
            /\ tries' = [tries EXCEPT ![c] = @ + 1]
            /\ UNCHANGED effect
       ELSE GivesUp(c)

\* fn refuses what is not enough.  An exception can come at any time: a lock
\* timeout, a deadlock the database has found, a connection that is lost.
Throws(c) ==
    /\ pc[c] \in {"acquire", "fence", "read", "fn"}
    /\ Rollback(c)
    /\ GivesUp(c)

Commit(c) ==
    /\ pc[c] = "fn" /\ Enough(c)
    /\ DOMAIN stored[c] = HoldingIds(c)
    /\ DOMAIN written[c] = BalanceIds(c) \cup TouchIds(c)
    /\ row' = [a \in AccountIds |-> IF a \in DOMAIN written[c] THEN written[c][a] ELSE row[a]]
    /\ holding' = [a \in AccountIds |-> IF a \in DOMAIN stored[c] THEN stored[c][a] ELSE holding[a]]
    /\ rowLock' = Unlocked(rowLock, c) /\ holdingLock' = Unlocked(holdingLock, c)
    /\ pc' = [pc EXCEPT ![c] = Leaving(c)]
    /\ effect' = [effect EXCEPT ![c] = "done"]
    /\ UNCHANGED <<strategy, redis, tries, acquired, fences, tx>>

----------------------------------------------------------------------------
LockNext ==
    \/ \E c \in Clients :
           \/ Acquire(c) \/ TakeFence(c) \/ Release(c) \/ ReleaseFails(c)
           \/ Read(c) \/ Commit(c) \/ Throws(c)
           \/ \E a \in Ids(c) : \/ ReadHolding(c, a) \/ WriteHolding(c, a)
                                \/ UpdateAccount(c, a) \/ Conflict(c, a)
    \/ \E a \in AccountIds : Expire(a)

LockSpec == LockInit /\ [][LockNext]_lockVars

----------------------------------------------------------------------------
(***************************************************************************)
(* withAccountLock does what it promises: what a transaction commits is    *)
(* its function applied to the accounts as they were when it committed,    *)
(* and what fails has left nothing.                                        *)
(***************************************************************************)
Atomic == INSTANCE AtomicAccounts WITH
    Accounts <- AccountIds,
    accounts <- [a \in AccountIds |-> [balance |-> row[a].balance, holding |-> holding[a]]],
    outcome <- effect

IsAtomic == Atomic!AtomicSpec

(***************************************************************************)
(* "A zombie's write after the lock has expired is warded off by the       *)
(* fencing token": every balance is the start and what has been committed. *)
(***************************************************************************)
NothingIsLost ==
    \A a \in AccountIds :
        row[a].balance = Start.balance
            + MapThenSumSet(LAMBDA c : Jobs[c].balance[a],
                            {c \in Clients : effect[c] = "done" /\ a \in Ids(c)})
=============================================================================
