--------------------------- MODULE PaymentLedger ----------------------------
(***************************************************************************)
(* The ledger as the API processes run it: concurrent sessions, each       *)
(* serving one POST request at a time through the Redis cache and a        *)
(* READ COMMITTED PostgreSQL transaction (src/internal/api/handlers.go,    *)
(* src/internal/ledger/{service,repo}.go, src/internal/idempotency,        *)
(* src/internal/storage/postgres.go).                                      *)
(*                                                                         *)
(* The five tables hold committed data only.  What a session has written   *)
(* but not committed is determined by its command and its pc, becomes      *)
(* visible to the others in Commit, and vanishes in every other exit from  *)
(* the transaction.  The steps of a session are the statements on which it *)
(* may wait for another session or read what another one commits:          *)
(*                                                                         *)
(*    idle -> lookup -> lockkey -> claim -> load -> lockbalance            *)
(*                                  |        (reverse)     |               *)
(*                                  +-> (create) ------> post -> commit    *)
(*                                                                |        *)
(*    idle <- respond <- finish <---------------------------------+        *)
(***************************************************************************)
EXTENDS LedgerSchema

CONSTANTS Sessions,     \* requests the API processes serve at the same time
          LockIDs,      \* the keys of PostgreSQL's advisory locks
          KeyHash,      \* FNV-1a of <<scope, key>>: it may collide
          MaxRetries,   \* DB_MAX_TX_RETRIES: attempts of one transaction
          RedisEnabled  \* a Redis client is configured

ASSUME SessionAssumption ==
    /\ KeyHash \in [Slots -> LockIDs]
    /\ MaxRetries \in Nat \ {0}
    /\ RedisEnabled \in BOOLEAN
    /\ None \notin Sessions

VARIABLES accounts, balances, txns, idem, outbox,   \* committed tables
          cache,     \* Redis: by slot, a completed response or None
          keyLock,   \* by advisory lock id, the session that holds it or None
          rowLock,   \* by account, the session that locked its balance or None
          pc,        \* by session, the statement it executes next
          req,       \* by session, the command it serves or None
          attempt,   \* by session, attempts of InTx that have failed
          toLock,    \* by session, the balances lockBalances still has to lock
          reply      \* by session, the response it is about to send or None

tables == <<accounts, balances, txns, idem, outbox>>

locks == <<keyLock, rowLock>>

vars == <<tables, cache, locks, pc, req, attempt, toLock, reply>>

ErrorCodes == {"idempotency_conflict", "idempotency_in_progress",
               "invalid_request", "unknown_account", "currency_mismatch",
               "insufficient_funds", "transaction_not_found",
               "transaction_already_reversed", "account_exists", "internal_error"}

\* replayed is the Idempotent-Replay response header.
Replies == [code : ErrorCodes \cup {"created"}, body : Bodies \cup {None},
            replayed : BOOLEAN]

CacheEntries == [hash : Hashes, body : Bodies]

\* None is not a row, a cached response, a reply or an error.
ASSUME NoneAssumption ==
    /\ None \notin AccountRows \cup TxRows \cup IdemRows \cup CacheEntries
    /\ None \notin Replies \cup ErrorCodes

\* Inside the transaction of InTx, and inside it with a row claimed.
InTxPC == {"lockkey", "claim", "load", "lockbalance", "post", "commit"}

ClaimedPC == {"load", "lockbalance", "post", "commit"}

Init ==
    /\ accounts = Seeded
    /\ balances = [a \in AccountIDs |-> 0]
    /\ txns = [t \in TxIDs |-> None]
    /\ idem = [k \in Slots |-> None]
    /\ outbox = {}
    /\ cache = [k \in Slots |-> None]
    /\ keyLock = [l \in LockIDs |-> None]
    /\ rowLock = [a \in AccountIDs |-> None]
    /\ pc = [s \in Sessions |-> "idle"]
    /\ req = [s \in Sessions |-> None]
    /\ attempt = [s \in Sessions |-> 0]
    /\ toLock = [s \in Sessions |-> {}]
    /\ reply = [s \in Sessions |-> None]

(***************************************************************************)
(* Building blocks of the actions.                                         *)
(***************************************************************************)
Goto(s, label) == pc' = [pc EXCEPT ![s] = label]

AnswerCreated(s, body, replayed) ==
    reply' = [reply EXCEPT ![s] = [code |-> "created", body |-> body,
                                   replayed |-> replayed]]

AnswerError(s, code) ==
    reply' = [reply EXCEPT ![s] = [code |-> code, body |-> None,
                                   replayed |-> FALSE]]

\* COMMIT and ROLLBACK both release every lock of the transaction.
ReleaseLocks(s) ==
    /\ keyLock' = [l \in LockIDs |-> IF keyLock[l] = s THEN None ELSE keyLock[l]]
    /\ rowLock' = [a \in AccountIDs |-> IF rowLock[a] = s THEN None ELSE rowLock[a]]
    /\ toLock' = [toLock EXCEPT ![s] = {}]

\* The callback of InTx returned an error that is not retried: runOnce rolls
\* back and the handler answers with the error.
RollBack(s, code) ==
    /\ ReleaseLocks(s)
    /\ AnswerError(s, code)
    /\ Goto(s, "respond")
    /\ UNCHANGED <<tables, cache, req, attempt>>

\* A session that leaves the handler keeps nothing.
Forget(s) ==
    /\ Goto(s, "idle")
    /\ req' = [req EXCEPT ![s] = None]
    /\ attempt' = [attempt EXCEPT ![s] = 0]
    /\ reply' = [reply EXCEPT ![s] = None]

\* t has inserted, and not committed, a row that s's INSERT would collide
\* with: the same account id, or a reversal of the same transaction.
InsertConflict(s, t) ==
    /\ t # s
    /\ pc[t] = "commit"
    /\ req[t].op = req[s].op
    /\ \/ req[s].op = "create" /\ req[t].account = req[s].account
       \/ req[s].op = "reverse" /\ req[t].original = req[s].original

\* t has inserted the idempotency record of slot k and not committed it.
HoldsClaim(t, k) == pc[t] \in ClaimedPC /\ Slot(req[t]) = k

(***************************************************************************)
(* The handler.                                                            *)
(***************************************************************************)

\* A client sends a command, for the first time or again.
Receive(s, cmd) ==
    /\ pc[s] = "idle"
    /\ req' = [req EXCEPT ![s] = cmd]
    /\ Goto(s, "lookup")
    /\ UNCHANGED <<tables, cache, locks, attempt, toLock, reply>>

\* replayFromCache hits: the response, or a conflict, without PostgreSQL.
CacheHit(s) ==
    LET entry == cache[Slot(req[s])] IN
    /\ pc[s] = "lookup"
    /\ entry # None
    /\ IF entry.hash = RequestHash(req[s])
       THEN AnswerCreated(s, entry.body, TRUE)
       ELSE AnswerError(s, "idempotency_conflict")
    /\ Goto(s, "respond")
    /\ UNCHANGED <<tables, cache, locks, req, attempt, toLock>>

\* replayFromCache misses, or Redis fails: the command is validated and the
\* service begins a transaction.
CacheMiss(s) ==
    /\ pc[s] = "lookup"
    /\ IF Valid(req[s])
       THEN Goto(s, "lockkey") /\ UNCHANGED reply
       ELSE Goto(s, "respond") /\ AnswerError(s, "invalid_request")
    /\ UNCHANGED <<tables, cache, locks, req, attempt, toLock>>

\* idempotency.LockKey waits for pg_advisory_xact_lock.
LockKey(s) ==
    LET l == KeyHash[Slot(req[s])] IN
    /\ pc[s] = "lockkey"
    /\ keyLock[l] = None
    /\ keyLock' = [keyLock EXCEPT ![l] = s]
    /\ Goto(s, "claim")
    /\ UNCHANGED <<tables, cache, rowLock, req, attempt, toLock, reply>>

\* A mutant of Claim: a committed record does not stop the INSERT.
ClaimAgain(s) ==
    /\ pc[s] = "claim"
    /\ IF req[s].op = "transfer"
       THEN /\ toLock' = [toLock EXCEPT ![s] = {req[s].source, req[s].destination}]
            /\ Goto(s, "lockbalance")
       ELSE /\ Goto(s, IF req[s].op = "reverse" THEN "load" ELSE "post")
            /\ UNCHANGED toLock
    /\ UNCHANGED <<tables, cache, locks, req, attempt, reply>>

\* idempotency.Claim inserts the record: no other transaction has it.
Claim(s) ==
    /\ pc[s] = "claim"
    /\ \A t \in Sessions \ {s} : ~HoldsClaim(t, Slot(req[s]))
    /\ idem[Slot(req[s])] = None
    /\ IF req[s].op = "transfer"
       THEN /\ toLock' = [toLock EXCEPT ![s] = {req[s].source, req[s].destination}]
            /\ Goto(s, "lockbalance")
       ELSE /\ Goto(s, IF req[s].op = "reverse" THEN "load" ELSE "post")
            /\ UNCHANGED toLock
    /\ UNCHANGED <<tables, cache, locks, req, attempt, reply>>

\* A mutant of Replay: the response is rendered again from the tables.
RenderAgain(s) ==
    LET rec == idem[Slot(req[s])] IN
    /\ pc[s] = "claim"
    /\ rec # None
    /\ rec.hash = RequestHash(req[s])
    /\ ReleaseLocks(s)
    /\ AnswerCreated(s, IF rec.txn = None THEN rec.body
                        ELSE RenderedTransaction(txns, rec.txn), TRUE)
    /\ Goto(s, "finish")
    /\ UNCHANGED <<tables, cache, req, attempt>>

\* idempotency.Claim meets a committed record and replayResult judges it: a
\* stored response is replayed byte for byte, the empty transaction commits.
Replay(s) ==
    LET rec == idem[Slot(req[s])] IN
    /\ pc[s] = "claim"
    /\ \A t \in Sessions \ {s} : ~HoldsClaim(t, Slot(req[s]))
    /\ rec # None
    /\ \/ /\ rec.hash # RequestHash(req[s]) \/ rec.state # "completed"
          /\ RollBack(s, IF rec.hash # RequestHash(req[s])
                         THEN "idempotency_conflict" ELSE "idempotency_in_progress")
       \/ /\ rec.hash = RequestHash(req[s])
          /\ rec.state = "completed"
          /\ ReleaseLocks(s)
          /\ AnswerCreated(s, rec.body, TRUE)
          /\ Goto(s, "finish")
          /\ UNCHANGED <<tables, cache, req, attempt>>

\* Reverse loads the original and checks it, holding no lock on it.
LoadOriginal(s) ==
    LET row == txns[req[s].original] IN
    /\ pc[s] = "load"
    /\ \/ row = None /\ RollBack(s, "transaction_not_found")
       \/ /\ row # None
          /\ row.kind = "reversal"
          /\ RollBack(s, "invalid_request")
       \/ /\ row # None
          /\ row.kind # "reversal"
          /\ ReversalsOf(txns, req[s].original) # {}
          /\ RollBack(s, "transaction_already_reversed")
       \/ /\ row # None
          /\ row.kind # "reversal"
          /\ ReversalsOf(txns, req[s].original) = {}
          /\ toLock' = [toLock EXCEPT ![s] = AccountsOf(row.entries)]
          /\ Goto(s, "lockbalance")
          /\ UNCHANGED <<tables, cache, locks, req, attempt, reply>>

\* A mutant of NextToLock: the ids are not sorted.
AnyToLock(s, a) == a \in toLock[s]

\* The account whose balance lockBalances locks next: the smallest one left.
NextToLock(s, a) == a \in toLock[s] /\ \A b \in toLock[s] : a <= b

\* A mutant of LockBalance: a plain SELECT, which waits for nobody.
ReadBalance(s, a) ==
    /\ pc[s] = "lockbalance"
    /\ NextToLock(s, a)
    /\ \/ accounts[a] = None /\ RollBack(s, "unknown_account")
       \/ /\ accounts[a] # None
          /\ toLock' = [toLock EXCEPT ![s] = @ \ {a}]
          /\ Goto(s, IF toLock[s] = {a} THEN "post" ELSE "lockbalance")
          /\ UNCHANGED <<tables, cache, locks, req, attempt, reply>>

\* SELECT ... FOR NO KEY UPDATE of one balance row, which may have to wait.
LockBalance(s, a) ==
    /\ pc[s] = "lockbalance"
    /\ NextToLock(s, a)
    /\ \/ accounts[a] = None /\ RollBack(s, "unknown_account")
       \/ /\ accounts[a] # None
          /\ rowLock[a] = None
          /\ rowLock' = [rowLock EXCEPT ![a] = s]
          /\ toLock' = [toLock EXCEPT ![s] = @ \ {a}]
          /\ Goto(s, IF toLock[s] = {a} THEN "post" ELSE "lockbalance")
          /\ UNCHANGED <<tables, cache, keyLock, req, attempt, reply>>

\* The checks of executeTransfer, and the INSERTs and UPDATEs of the command,
\* each with the constraint it may violate, up to idempotency.Complete.
Post(s) ==
    LET refusal == Refusal(req[s], accounts, balances, txns) IN
    /\ pc[s] = "post"
    /\ \A t \in Sessions : ~InsertConflict(s, t)
    /\ \/ refusal # None /\ RollBack(s, refusal)
       \/ /\ refusal = None
          /\ Goto(s, "commit")
          /\ UNCHANGED <<tables, cache, locks, req, attempt, toLock, reply>>

(***************************************************************************)
(* COMMIT.                                                                 *)
(***************************************************************************)
CommitAccount(cmd) ==
    /\ accounts' = [accounts EXCEPT ![cmd.account] = AccountRow(cmd)]
    /\ balances' = [balances EXCEPT ![cmd.account] = 0]
    /\ idem' = [idem EXCEPT ![Slot(cmd)] =
                  CompletedRecord(cmd, RenderedAccount(cmd.account), None)]
    /\ UNCHANGED <<txns, outbox>>

\* t is the uuid.NewString() of the request.  It is chosen here because
\* nothing shows it before the commit.  Postings that do not cancel out make
\* the deferred trigger fail the COMMIT: the transaction then ends in Abort.
CommitTransaction(cmd, t) ==
    LET row == TransactionRow(cmd, accounts, txns) IN
    /\ txns[t] = None
    /\ ZeroSum(row.entries)
    /\ txns' = [txns EXCEPT ![t] = row]
    /\ balances' = Applied(balances, row.entries)
    /\ outbox' = outbox \cup {EventOf(t, row)}
    /\ idem' = [idem EXCEPT ![Slot(cmd)] =
                  CompletedRecord(cmd, RenderedTransaction(txns, t), t)]
    /\ UNCHANGED accounts

\* The commit succeeds, and the service learns that it did or, when the
\* connection breaks under COMMIT, only sees an error.
Commit(s) ==
    /\ pc[s] = "commit"
    /\ IF req[s].op = "create"
       THEN CommitAccount(req[s])
       ELSE \E t \in TxIDs : CommitTransaction(req[s], t)
    /\ ReleaseLocks(s)
    /\ \/ AnswerCreated(s, idem'[Slot(req[s])].body, FALSE) /\ Goto(s, "finish")
       \/ AnswerError(s, "internal_error") /\ Goto(s, "respond")
    /\ UNCHANGED <<cache, req, attempt>>

(***************************************************************************)
(* After the transaction.                                                  *)
(***************************************************************************)

\* A mutant of Finish: the cached body is rendered after the commit.
CacheRendered(s) ==
    LET t == idem[Slot(req[s])].txn IN
    /\ pc[s] = "finish"
    /\ cache' = [cache EXCEPT ![Slot(req[s])] =
                   [hash |-> RequestHash(req[s]),
                    body |-> IF t = None THEN reply[s].body
                             ELSE RenderedTransaction(txns, t)]]
    /\ Goto(s, "respond")
    /\ UNCHANGED <<tables, locks, req, attempt, toLock, reply>>

\* finishIdempotent: Cache.Put, whose failure is ignored.
Finish(s) ==
    LET entry == [hash |-> RequestHash(req[s]), body |-> reply[s].body] IN
    /\ pc[s] = "finish"
    /\ \/ RedisEnabled /\ cache' = [cache EXCEPT ![Slot(req[s])] = entry]
       \/ UNCHANGED cache
    /\ Goto(s, "respond")
    /\ UNCHANGED <<tables, locks, req, attempt, toLock, reply>>

\* The service fails after the commit (failpoint AfterCommit): Transfer only
\* when it has executed the command, Reverse also when it replays.
LoseResult(s) ==
    /\ pc[s] = "finish"
    /\ \/ req[s].op = "transfer" /\ ~reply[s].replayed
       \/ req[s].op = "reverse"
    /\ AnswerError(s, "internal_error")
    /\ Goto(s, "respond")
    /\ UNCHANGED <<tables, cache, locks, req, attempt, toLock>>

\* The response is written, whether or not the client receives it.
Respond(s) ==
    /\ pc[s] = "respond"
    /\ Forget(s)
    /\ UNCHANGED <<tables, cache, locks, toLock>>

(***************************************************************************)
(* Failures.                                                               *)
(***************************************************************************)

\* Mutants of RetryableError: one attempt too many, and attempts not counted.
RetryOnceMore(s) ==
    /\ pc[s] \in InTxPC
    /\ attempt[s] < MaxRetries
    /\ attempt' = [attempt EXCEPT ![s] = @ + 1]
    /\ ReleaseLocks(s)
    /\ Goto(s, "lockkey")
    /\ UNCHANGED <<tables, cache, req, reply>>

RetryUncounted(s) ==
    /\ pc[s] \in InTxPC
    /\ ReleaseLocks(s)
    /\ Goto(s, "lockkey")
    /\ UNCHANGED <<tables, cache, req, attempt, reply>>

\* A deadlock, a serialization failure, lock_timeout or statement_timeout:
\* InTx rolls back and runs its callback again, up to MaxRetries times.
RetryableError(s) ==
    /\ pc[s] \in InTxPC
    /\ \/ /\ attempt[s] + 1 < MaxRetries
          /\ attempt' = [attempt EXCEPT ![s] = @ + 1]
          /\ ReleaseLocks(s)
          /\ Goto(s, "lockkey")
          /\ UNCHANGED <<tables, cache, req, reply>>
       \/ /\ attempt[s] + 1 >= MaxRetries
          /\ RollBack(s, "internal_error")

\* Any other error inside the transaction, a failpoint or a panic.
Abort(s) ==
    /\ pc[s] \in InTxPC
    /\ RollBack(s, "internal_error")

\* The process dies; PostgreSQL rolls the open transaction back.
Crash(s) ==
    /\ pc[s] # "idle"
    /\ ReleaseLocks(s)
    /\ Forget(s)
    /\ UNCHANGED <<tables, cache>>

\* The TTL of a cached response expires, or Redis loses it.
Evict(k) ==
    /\ cache[k] # None
    /\ cache' = [cache EXCEPT ![k] = None]
    /\ UNCHANGED <<tables, locks, pc, req, attempt, toLock, reply>>

\* The steps a session takes by itself once it has received a command.
Step(s) ==
    \/ CacheHit(s) \/ CacheMiss(s)
    \/ LockKey(s) \/ Claim(s) \/ Replay(s) \/ LoadOriginal(s)
    \/ \E a \in AccountIDs : LockBalance(s, a)
    \/ Post(s) \/ Commit(s) \/ Finish(s) \/ LoseResult(s) \/ Respond(s)
    \/ RetryableError(s)

Next ==
    \/ \E s \in Sessions :
          \/ \E cmd \in Commands : Receive(s, cmd)
          \/ Step(s)
          \/ Abort(s)
          \/ Crash(s)
    \/ \E k \in Slots : Evict(k)

Spec == Init /\ [][Next]_vars

\* The Go scheduler runs every handler, and PostgreSQL answers every
\* statement: by executing it, or with an error once lock_timeout or
\* statement_timeout has passed.
FairSpec == Spec /\ \A s \in Sessions : WF_vars(Step(s))

-----------------------------------------------------------------------------
(***************************************************************************)
(* Properties.                                                             *)
(***************************************************************************)

\* Type correctness of the tables and of the sessions.
TypeOK ==
    /\ accounts \in [AccountIDs -> AccountRows \cup {None}]
    /\ balances \in [AccountIDs -> Int]
    /\ txns \in [TxIDs -> TxRows \cup {None}]
    /\ idem \in [Slots -> IdemRows \cup {None}]
    /\ outbox \in SUBSET Events
    /\ cache \in [Slots -> CacheEntries \cup {None}]
    /\ keyLock \in [LockIDs -> Sessions \cup {None}]
    /\ rowLock \in [AccountIDs -> Sessions \cup {None}]
    /\ pc \in [Sessions -> InTxPC \cup {"idle", "lookup", "finish", "respond"}]
    /\ req \in [Sessions -> Commands \cup {None}]
    /\ attempt \in [Sessions -> 0..(MaxRetries - 1)]
    /\ toLock \in [Sessions -> SUBSET AccountIDs]
    /\ reply \in [Sessions -> Replies \cup {None}]

\* INVARIANT 7: however transfers and reversals interleave, an account without
\* overdraft never has a committed negative balance.  A reversal takes money
\* back without a funds check of its own, so this rests on the CHECK
\* constraint and on the locks that keep its verdict valid until COMMIT.
NonNegativeBalances ==
    \A a \in AccountIDs :
        accounts[a] # None /\ ~accounts[a].overdraft => balances[a] >= 0

\* No committed balance leaves the range of BIGINT, on the credited account or on
\* an account with overdraft, in whatever order payments and reversals commit.
\* The UPDATE that PostgreSQL rejects is executed some steps before the COMMIT,
\* so this also rests on the locks that keep the sum it has computed.
BalancesFitBigInt ==
    \A a \in AccountIDs : balances[a] \in (-BigIntMax - 1)..BigIntMax

\* INVARIANTS 4 and 5: a committed transaction has exactly one idempotency
\* record and exactly one outbox event, and neither exists without it.
PaymentsAreAtomic ==
    /\ \A t \in TxIDs : txns[t] # None =>
          /\ \E k \in Slots : idem[k] # None /\ idem[k].txn = t
          /\ EventOf(t, txns[t]) \in outbox
    /\ \A k, l \in Slots :
          idem[k] # None /\ idem[l] # None /\ idem[k].txn = idem[l].txn
              => k = l \/ idem[k].txn = None
    /\ \A k \in Slots : idem[k] # None =>
          /\ idem[k].state = "completed"
          /\ idem[k].txn = None <=> k[1] = "create"
          /\ idem[k].txn # None => txns[idem[k].txn] # None
    /\ \A e \in outbox : txns[e.txn] # None /\ e = EventOf(e.txn, txns[e.txn])

\* INVARIANT 9: a transaction is reversed at most once, by the exact mirror of
\* its postings, and a reversal is never reversed, although Reverse looks at
\* the original before it holds any lock.
ReversedAtMostOnce ==
    \A r \in TxIDs : txns[r] # None =>
        /\ txns[r].kind = "reversal" <=> txns[r].reverses # None
        /\ txns[r].reverses # None =>
              /\ txns[txns[r].reverses] # None
              /\ txns[txns[r].reverses].kind # "reversal"
              /\ txns[r].entries = MirroredEntries(txns[txns[r].reverses].entries)
              /\ ReversalsOf(txns, txns[r].reverses) = {r}

ReplyIsDurable(s) ==
    reply[s] # None =>
        LET rec == idem[Slot(req[s])] IN
        /\ reply[s].code = "created" =>
              /\ rec # None
              /\ rec.hash = RequestHash(req[s])
              /\ rec.body = reply[s].body
        /\ reply[s].code = "idempotency_conflict" =>
              rec # None /\ rec.hash # RequestHash(req[s])
        /\ reply[s].code # "idempotency_in_progress"

\* INVARIANT 6: a session that answers 201, from PostgreSQL or from Redis,
\* answers with the response stored for exactly this request, and one that
\* answers with a conflict has met a different request under the same key.
\* The defensive in-progress answer of replayResult is never given.
RepliesAreDurable == \A s \in Sessions : ReplyIsDurable(s)

\* INVARIANT 12: Redis only ever holds responses that are durable, as they are
\* stored, whenever it lost others and whichever writes to it failed.
CacheAgreesWithTable ==
    \A k \in Slots : cache[k] # None =>
        /\ idem[k] # None
        /\ cache[k] = [hash |-> idem[k].hash, body |-> idem[k].body]

\* s cannot take its next step until t ends its transaction.
WaitsFor(s, t) ==
    /\ s # t
    /\ \/ pc[s] = "lockkey" /\ keyLock[KeyHash[Slot(req[s])]] = t
       \/ pc[s] = "claim" /\ HoldsClaim(t, Slot(req[s]))
       \/ /\ pc[s] = "lockbalance"
          /\ \E a \in AccountIDs : NextToLock(s, a) /\ rowLock[a] = t
       \/ pc[s] = "post" /\ InsertConflict(s, t)

\* INVARIANT 8: no set of sessions waits for itself, so PostgreSQL never has a
\* deadlock to break, even when advisory lock keys collide.
NoDeadlock ==
    \A S \in SUBSET Sessions :
        S # {} => \E s \in S : \A t \in S : ~WaitsFor(s, t)

\* INVARIANT 2: committed accounts, transactions, idempotency records and
\* events are never changed or removed.
AppendOnly ==
    [][/\ \A a \in AccountIDs : accounts[a] # None => accounts'[a] = accounts[a]
       /\ \A t \in TxIDs : txns[t] # None => txns'[t] = txns[t]
       /\ \A k \in Slots : idem[k] # None => idem'[k] = idem[k]
       /\ outbox \subseteq outbox']_vars

\* Every request is answered, or its process dies: a transaction that is retried
\* gives its locks back and stops after MaxRetries attempts, and whoever waits
\* for one of its locks gets it or gives up.
RequestsEnd == \A s \in Sessions : (pc[s] # "idle") ~> (pc[s] = "idle")

\* The committed tables behave as if every command were executed in one step.
Atomic == INSTANCE AtomicLedger
          WITH accounts <- accounts, balances <- balances, txns <- txns,
               idem <- idem, outbox <- outbox

ImplementsAtomicLedger == Atomic!Spec
=============================================================================
