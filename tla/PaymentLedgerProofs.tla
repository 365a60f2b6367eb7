------------------------ MODULE PaymentLedgerProofs -------------------------
(***************************************************************************)
(* Theorems about PaymentLedger, for every number of sessions, accounts,   *)
(* keys and commands.                                                      *)
(***************************************************************************)
EXTENDS PaymentLedgerInvariant, SumTheorems, TLAPS

(***************************************************************************)
(* Type correctness.                                                       *)
(***************************************************************************)

\* A command has one of the three shapes; RequestHash and Slot have types.
LEMMA CommandTypes ==
    ASSUME NEW cmd \in Commands
    PROVE  /\ cmd.op \in Scopes
           /\ cmd.key \in Keys
           /\ Slot(cmd) \in Slots
           /\ RequestHash(cmd) \in Hashes
           /\ cmd.op = "create" => /\ cmd.account \in AccountIDs
                                   /\ AccountRow(cmd) \in AccountRows
           /\ cmd.op = "transfer" => /\ cmd.source \in AccountIDs
                                     /\ cmd.destination \in AccountIDs
                                     /\ cmd.amount \in Int
                                     /\ cmd.currency \in Currencies
           /\ cmd.op = "reverse" => cmd.original \in TxIDs
<1>1. cmd \in CreateCommands \cup TransferCommands \cup ReverseCommands
  BY SchemaAssumption
<1>2. RequestHash(cmd) \in Hashes
  BY DEF Hashes
<1>3. QED
  BY <1>1, <1>2 DEF CreateCommands, TransferCommands, ReverseCommands, Scopes,
                    Slots, Slot, AccountRow, AccountRows

\* The postings of a transfer are two entries.
LEMMA TransferEntriesType ==
    ASSUME NEW cmd \in Commands, cmd.op = "transfer"
    PROVE  TransferEntries(cmd) \in Entries \X Entries
BY CommandTypes DEF TransferEntries, Entries

\* The mirror of two entries is two entries.
LEMMA MirrorType ==
    ASSUME NEW es \in Entries \X Entries
    PROVE  MirroredEntries(es) \in Entries \X Entries
BY DEF MirroredEntries, Mirror, Entries

\* Postings change balances by integers.
LEMMA DeltaType ==
    ASSUME NEW es \in Entries \X Entries, NEW a \in AccountIDs
    PROVE  Delta(es, a) \in Int
BY DEF Delta, Entries

\* Applying postings to the balances yields balances.
LEMMA AppliedType ==
    ASSUME NEW es \in Entries \X Entries, NEW bal \in [AccountIDs -> Int]
    PROVE  Applied(bal, es) \in [AccountIDs -> Int]
BY DeltaType DEF Applied

\* The gross amount of two postings is an integer.
LEMMA GrossAmountType ==
    ASSUME NEW es \in Entries \X Entries
    PROVE  GrossAmount(es) \in Int
BY DEF GrossAmount, Entries

\* writeOutboxEvent writes an event.
LEMMA EventType ==
    ASSUME NEW t \in TxIDs, NEW row \in TxRows
    PROVE  EventOf(t, row) \in Events
BY GrossAmountType DEF EventOf, Events, TxRows

\* idempotency.Complete writes an idempotency record.
LEMMA RecordType ==
    ASSUME NEW cmd \in Commands, NEW body \in Bodies, NEW t \in TxIDs \cup {None}
    PROVE  CompletedRecord(cmd, body, t) \in IdemRows
BY CommandTypes DEF CompletedRecord, IdemRows

\* The rendered transaction and the rendered account are response bodies.
LEMMA RenderedType ==
    /\ \A a \in AccountIDs : RenderedAccount(a) \in Bodies
    /\ \A f, t : t \in TxIDs => RenderedTransaction(f, t) \in Bodies
BY DEF RenderedAccount, RenderedTransaction, Bodies

\* A refusal is None or one of these errors.
Refusals == {"account_exists", "currency_mismatch", "insufficient_funds",
             "internal_error", "transaction_already_reversed"}

\* A refusal is None or one of the error codes the service maps it to.
LEMMA RefusalType ==
    ASSUME NEW cmd, NEW acc, NEW bal, NEW tx
    PROVE  Refusal(cmd, acc, bal, tx) \in Refusals \cup {None}
BY DEF Refusal, CreateRefusal, TransferRefusal, ReverseRefusal, BalanceRefusal,
       Refusals

\* Ending a transaction keeps the types of the locks.
LEMMA ReleaseLocksType ==
    ASSUME TypeOK, NEW s \in Sessions, ReleaseLocks(s)
    PROVE  /\ keyLock' \in [LockIDs -> Sessions \cup {None}]
           /\ rowLock' \in [AccountIDs -> Sessions \cup {None}]
           /\ toLock' \in [Sessions -> SUBSET AccountIDs]
BY DEF ReleaseLocks, TypeOK

\* The answers of the handler are replies.
LEMMA AnswerCreatedType ==
    ASSUME TypeOK, NEW s \in Sessions, NEW body \in Bodies, NEW b \in BOOLEAN,
           AnswerCreated(s, body, b)
    PROVE  /\ reply' \in [Sessions -> Replies \cup {None}]
           /\ \A u \in Sessions \ {s} : reply'[u] = reply[u]
           /\ reply'[s] \in Replies
           /\ reply'[s].code = "created"
           /\ reply'[s].body = body
<1> DEFINE r == [code |-> "created", body |-> body, replayed |-> b]
<1>1. r \in Replies /\ r.body = body /\ r.code = "created"
  BY DEF Replies
<1>2. reply' = [reply EXCEPT ![s] = r]
  BY DEF AnswerCreated
<1> HIDE DEF r
<1>3. QED
  BY <1>1, <1>2 DEF TypeOK

\* An error answer is a reply too.
LEMMA AnswerErrorType ==
    ASSUME TypeOK, NEW s \in Sessions, NEW code \in ErrorCodes,
           AnswerError(s, code)
    PROVE  /\ reply' \in [Sessions -> Replies \cup {None}]
           /\ \A u \in Sessions \ {s} : reply'[u] = reply[u]
           /\ reply'[s].code = code
<1> DEFINE r == [code |-> code, body |-> None, replayed |-> FALSE]
<1>1. r \in Replies /\ r.code = code
  BY DEF Replies
<1>2. reply' = [reply EXCEPT ![s] = r]
  BY DEF AnswerError
<1> HIDE DEF r
<1>3. QED
  BY <1>1, <1>2 DEF TypeOK

(***************************************************************************)
(* A step of one session that commits nothing.                             *)
(***************************************************************************)

\* The other sessions keep their place, their command and their row locks.
Frame(s) ==
    \A u \in Sessions \ {s} :
        /\ pc'[u] = pc[u]
        /\ req'[u] = req[u]
        /\ toLock'[u] = toLock[u]
        /\ reply'[u] = reply[u]
        /\ \A a \in AccountIDs : rowLock[a] = u => rowLock'[a] = u

\* It preserves the invariant as soon as it preserves the types, the cache
\* and the part of the session that takes it.
LEMMA QuietStep ==
    ASSUME Inv, NEW s \in Sessions, UNCHANGED tables, Frame(s),
           TypeOK', CacheAgreesWithTable', SessionInv(s)'
    PROVE  Inv'
<1> USE DEF tables
<1>1. NonNegativeBalances' /\ PaymentsAreAtomic' /\ ReversedAtMostOnce'
  BY DEF Inv, NonNegativeBalances, PaymentsAreAtomic, ReversedAtMostOnce,
         ReversalsOf
<1>2. ASSUME NEW u \in Sessions \ {s}
      PROVE  SessionInv(u)'
  <2>1. SessionInv(u)
    BY DEF Inv
  <2>2. ShapeOf(u)'
    BY <2>1 DEF SessionInv, ShapeOf, Frame
  <2>3. ClaimOf(u)'
    BY <2>1 DEF SessionInv, ClaimOf, HoldsClaim, Frame
  <2>4. LocksOf(u)'
    <3>1. LockSet(req[u])' = LockSet(req[u])
      BY DEF LockSet, Frame
    <3>2. pc[u] \in LockingPC => LockSet(req[u]) \subseteq AccountIDs
      <4>1. SUFFICES ASSUME pc[u] \in LockingPC
                     PROVE  LockSet(req[u]) \subseteq AccountIDs
        OBVIOUS
      <4>2. req[u] \in Commands
        BY <2>1, <4>1 DEF SessionInv, ShapeOf, LockingPC
      <4>3. req[u].op = "reverse" =>
              AccountsOf(txns[req[u].original].entries) \subseteq AccountIDs
        BY <2>1, <4>1, <4>2, CommandTypes
        DEF SessionInv, ShapeOf, Inv, TypeOK, TxRows, Entries, AccountsOf
      <4>4. QED
        BY <4>2, <4>3, CommandTypes DEF LockSet, Scopes
    <3>3. QED
      BY <2>1, <3>1, <3>2 DEF SessionInv, LocksOf, Frame
  <2>5. VerdictOf(u)'
    <3>1. SUFFICES ASSUME pc[u] = "commit"
                   PROVE  VerdictOf(u)'
      BY DEF VerdictOf, Frame
    <3>2. Refusal(req[u], accounts, balances, txns)' = None
      BY <2>1, <3>1 DEF SessionInv, VerdictOf, Frame
    <3>3. ASSUME NEW t \in Sessions, InsertConflict(u, t)'
          PROVE  FALSE
      <4>1. CASE t = s
        BY <3>1, <3>3, <4>1 DEF InsertConflict, SessionInv, VerdictOf, Frame
      <4>2. CASE t # s
        BY <2>1, <3>1, <3>3, <4>2 DEF InsertConflict, SessionInv, VerdictOf, Frame
      <4>3. QED
        BY <4>1, <4>2
    <3>4. QED
      BY <3>2, <3>3 DEF VerdictOf
  <2>6. ReplyIsDurable(u)'
    BY <2>1 DEF SessionInv, ReplyIsDurable, Frame
  <2>7. QED
    BY <2>2, <2>3, <2>4, <2>5, <2>6 DEF SessionInv
<1>3. QED
  BY <1>1, <1>2 DEF Inv

\* Leaving the transaction with an error.
LEMMA RollBackStep ==
    ASSUME Inv, NEW s \in Sessions, NEW code \in ErrorCodes, RollBack(s, code),
           pc[s] \in InTxPC, code # "idempotency_in_progress",
           code = "idempotency_conflict" =>
               /\ idem[Slot(req[s])] # None
               /\ idem[Slot(req[s])].hash # RequestHash(req[s])
    PROVE  Inv'
<1> USE DEF Inv
<1>1. TypeOK'
  BY ReleaseLocksType, AnswerErrorType DEF RollBack, TypeOK, Goto, tables
<1>2. Frame(s)
  BY AnswerErrorType DEF RollBack, ReleaseLocks, Goto, Frame, TypeOK
<1>3. pc'[s] = "respond" /\ toLock'[s] = {} /\ reply'[s].code = code
  BY AnswerErrorType DEF RollBack, ReleaseLocks, Goto, TypeOK
<1>4. ShapeOf(s)'
  BY <1>3 DEF RollBack, ShapeOf, SessionInv, InTxPC, LockingPC
<1>5. ReplyIsDurable(s)'
  BY <1>3 DEF RollBack, ReplyIsDurable, tables, ErrorCodes
<1>6. SessionInv(s)'
  BY <1>3, <1>4, <1>5 DEF SessionInv, ClaimOf, LocksOf, VerdictOf, ClaimedPC,
     LockingPC
<1>7. CacheAgreesWithTable'
  BY DEF RollBack, CacheAgreesWithTable, tables
<1>8. QED
  BY <1>1, <1>2, <1>6, <1>7, QuietStep DEF RollBack

\* The migrated database, with every session idle, satisfies the invariant.
LEMMA InitInv == Init => Inv
<1> SUFFICES ASSUME Init PROVE Inv
  OBVIOUS
<1> USE DEF Init
<1>1. TypeOK
  BY SchemaAssumption, SessionAssumption DEF TypeOK
<1>2. NonNegativeBalances
  BY DEF NonNegativeBalances
<1>3. PaymentsAreAtomic /\ ReversedAtMostOnce /\ CacheAgreesWithTable
  BY DEF PaymentsAreAtomic, ReversedAtMostOnce, CacheAgreesWithTable
<1>4. \A s \in Sessions : SessionInv(s)
  BY DEF SessionInv, ShapeOf, ClaimOf, LocksOf, VerdictOf, ReplyIsDurable,
         InTxPC, ClaimedPC, LockingPC
<1>5. QED
  BY <1>1, <1>2, <1>3, <1>4 DEF Inv

\* Receiving a request preserves the invariant.
LEMMA ReceiveStep ==
    ASSUME Inv, NEW s \in Sessions, NEW cmd \in Commands, Receive(s, cmd)
    PROVE  Inv'
<1> USE DEF Inv, Receive
<1>1. TypeOK'
  BY DEF TypeOK, Goto, tables, locks
<1>2. Frame(s)
  BY DEF Goto, Frame, TypeOK, locks
<1>3. SessionInv(s)'
  BY DEF Goto, TypeOK, SessionInv, ShapeOf, ClaimOf, LocksOf, VerdictOf,
         ReplyIsDurable, InTxPC, ClaimedPC, LockingPC
<1>4. CacheAgreesWithTable'
  BY DEF CacheAgreesWithTable, tables
<1>5. QED
  BY <1>1, <1>2, <1>3, <1>4, QuietStep

\* Answering from Redis preserves it: a cached response is the stored one.
LEMMA CacheHitStep ==
    ASSUME Inv, NEW s \in Sessions, CacheHit(s)
    PROVE  Inv'
<1> USE DEF Inv, CacheHit
<1> DEFINE entry == cache[Slot(req[s])]
<1>1. /\ req[s] \in Commands
      /\ Slot(req[s]) \in Slots
      /\ toLock[s] = {}
  BY CommandTypes DEF SessionInv, ShapeOf, LocksOf
<1>2. /\ entry \in CacheEntries
      /\ idem[Slot(req[s])] # None
      /\ entry = [hash |-> idem[Slot(req[s])].hash,
                  body |-> idem[Slot(req[s])].body]
  BY <1>1 DEF TypeOK, CacheAgreesWithTable
<1>3. entry.hash = idem[Slot(req[s])].hash /\ entry.body = idem[Slot(req[s])].body
  BY <1>2
<1>4. /\ reply' \in [Sessions -> Replies \cup {None}]
      /\ \A u \in Sessions \ {s} : reply'[u] = reply[u]
      /\ \/ /\ reply'[s].code = "created"
            /\ reply'[s].body = entry.body
            /\ entry.hash = RequestHash(req[s])
         \/ /\ reply'[s].code = "idempotency_conflict"
            /\ entry.hash # RequestHash(req[s])
  <2>1. CASE entry.hash = RequestHash(req[s])
    BY <1>2, <2>1, AnswerCreatedType DEF CacheEntries
  <2>2. CASE entry.hash # RequestHash(req[s])
    BY <2>2, AnswerErrorType DEF ErrorCodes
  <2>3. QED
    BY <2>1, <2>2
<1>5. TypeOK'
  BY <1>4 DEF TypeOK, Goto, tables, locks
<1>6. Frame(s)
  BY <1>4 DEF Goto, Frame, TypeOK, locks
<1>7. pc'[s] = "respond" /\ toLock'[s] = {} /\ req'[s] = req[s]
  BY <1>1 DEF Goto, TypeOK
<1>8. ShapeOf(s)'
  BY <1>1, <1>7 DEF ShapeOf, InTxPC, LockingPC
<1>9. ReplyIsDurable(s)'
  BY <1>2, <1>3, <1>4, <1>7 DEF ReplyIsDurable, tables
<1>10. SessionInv(s)'
  BY <1>7, <1>8, <1>9 DEF SessionInv, ClaimOf, LocksOf, VerdictOf, ClaimedPC,
     LockingPC
<1>11. CacheAgreesWithTable'
  BY DEF CacheAgreesWithTable, tables
<1>12. QED
  BY <1>5, <1>6, <1>10, <1>11, QuietStep

\* Validating the command preserves it: only valid ones begin a transaction.
LEMMA CacheMissStep ==
    ASSUME Inv, NEW s \in Sessions, CacheMiss(s)
    PROVE  Inv'
<1> USE DEF Inv, CacheMiss
<1>1. /\ req[s] \in Commands
      /\ reply[s] = None
      /\ toLock[s] = {}
  BY DEF SessionInv, ShapeOf, LocksOf
<1>2. /\ reply' \in [Sessions -> Replies \cup {None}]
      /\ \A u \in Sessions \ {s} : reply'[u] = reply[u]
      /\ \/ Valid(req[s]) /\ reply'[s] = None /\ pc'[s] = "lockkey"
         \/ reply'[s].code = "invalid_request" /\ pc'[s] = "respond"
  BY <1>1, AnswerErrorType DEF TypeOK, Goto, ErrorCodes
<1>3. /\ pc' \in [Sessions -> InTxPC \cup {"idle", "lookup", "finish", "respond"}]
      /\ \A u \in Sessions \ {s} : pc'[u] = pc[u]
  BY DEF TypeOK, Goto, InTxPC
<1>4. TypeOK'
  BY <1>2, <1>3 DEF TypeOK, tables, locks
<1>5. Frame(s)
  BY <1>2, <1>3 DEF Frame, locks
<1>6. SessionInv(s)'
  BY <1>1, <1>2 DEF SessionInv, ShapeOf, ClaimOf, LocksOf, VerdictOf,
     ReplyIsDurable, InTxPC, ClaimedPC, LockingPC
<1>7. CacheAgreesWithTable'
  BY DEF CacheAgreesWithTable, tables
<1>8. QED
  BY <1>4, <1>5, <1>6, <1>7, QuietStep

\* Taking the advisory lock preserves it.
LEMMA LockKeyStep ==
    ASSUME Inv, NEW s \in Sessions, LockKey(s)
    PROVE  Inv'
<1> USE DEF Inv, LockKey
<1>1. TypeOK'
  BY DEF TypeOK, Goto, InTxPC, tables
<1>2. Frame(s)
  BY DEF Goto, Frame, TypeOK
<1>3. SessionInv(s)'
  BY DEF Goto, TypeOK, SessionInv, ShapeOf, ClaimOf, LocksOf, VerdictOf,
         ReplyIsDurable, InTxPC, ClaimedPC, LockingPC
<1>4. CacheAgreesWithTable'
  BY DEF CacheAgreesWithTable, tables
<1>5. QED
  BY <1>1, <1>2, <1>3, <1>4, QuietStep

\* Inserting the idempotency record preserves it: the slot was free.
LEMMA ClaimStep ==
    ASSUME Inv, NEW s \in Sessions, Claim(s)
    PROVE  Inv'
<1> USE DEF Inv, Claim
<1>1. /\ req[s] \in Commands
      /\ Valid(req[s])
      /\ reply[s] = None
      /\ toLock[s] = {}
  BY DEF SessionInv, ShapeOf, LocksOf, InTxPC
<1>2. /\ req[s].op \in Scopes
      /\ req[s].op = "transfer" =>
            {req[s].source, req[s].destination} \subseteq AccountIDs
  BY <1>1, CommandTypes
<1>3. /\ toLock' \in [Sessions -> SUBSET AccountIDs]
      /\ pc' \in [Sessions -> InTxPC \cup {"idle", "lookup", "finish", "respond"}]
      /\ \A u \in Sessions \ {s} : pc'[u] = pc[u] /\ toLock'[u] = toLock[u]
      /\ \/ /\ req[s].op = "transfer"
            /\ pc'[s] = "lockbalance"
            /\ toLock'[s] = {req[s].source, req[s].destination}
         \/ req[s].op = "reverse" /\ pc'[s] = "load" /\ toLock'[s] = {}
         \/ req[s].op = "create" /\ pc'[s] = "post" /\ toLock'[s] = {}
  BY <1>1, <1>2 DEF TypeOK, Goto, InTxPC, Scopes
<1>4. TypeOK'
  BY <1>3 DEF TypeOK, tables, locks
<1>5. Frame(s)
  BY <1>3 DEF Frame, locks
<1>6. ShapeOf(s)'
  BY <1>1, <1>3 DEF ShapeOf, InTxPC, LockingPC
<1>7. ClaimOf(s)'
  BY <1>3 DEF ClaimOf, HoldsClaim, tables
<1>8. LocksOf(s)'
  BY <1>3 DEF LocksOf, LockSet, LockingPC
<1>9. VerdictOf(s)' /\ ReplyIsDurable(s)'
  BY <1>1, <1>3 DEF VerdictOf, ReplyIsDurable
<1>10. CacheAgreesWithTable'
  BY DEF CacheAgreesWithTable, tables
<1>11. QED
  BY <1>4, <1>5, <1>6, <1>7, <1>8, <1>9, <1>10, QuietStep DEF SessionInv

\* Meeting a committed record preserves it: its body is what is answered.
LEMMA ReplayStep ==
    ASSUME Inv, NEW s \in Sessions, Replay(s)
    PROVE  Inv'
<1> USE DEF Inv, Replay
<1> DEFINE rec == idem[Slot(req[s])]
<1>1. /\ req[s] \in Commands
      /\ Slot(req[s]) \in Slots
  BY CommandTypes DEF SessionInv, ShapeOf
<1>2. rec \in IdemRows /\ rec.body \in Bodies /\ rec.state = "completed"
  BY <1>1 DEF TypeOK, IdemRows, PaymentsAreAtomic
<1>3. CASE rec.hash # RequestHash(req[s])
  BY <1>2, <1>3, RollBackStep DEF ErrorCodes, InTxPC
<1>4. CASE rec.hash = RequestHash(req[s])
  <2>1. /\ ReleaseLocks(s)
        /\ AnswerCreated(s, rec.body, TRUE)
        /\ Goto(s, "finish")
        /\ UNCHANGED <<tables, cache, req, attempt>>
    BY <1>2, <1>4
  <2>2. TypeOK'
    BY <1>2, <2>1, ReleaseLocksType, AnswerCreatedType DEF TypeOK, Goto, tables
  <2>3. Frame(s)
    BY <1>2, <2>1, AnswerCreatedType DEF ReleaseLocks, Goto, Frame, TypeOK
  <2>4. /\ pc'[s] = "finish" /\ toLock'[s] = {} /\ req'[s] = req[s]
        /\ reply'[s] \in Replies /\ reply'[s].code = "created"
        /\ reply'[s].body = rec.body
    BY <1>2, <2>1, AnswerCreatedType DEF ReleaseLocks, Goto, TypeOK
  <2>5. ShapeOf(s)'
    BY <1>1, <1>2, <2>4 DEF ShapeOf, InTxPC, LockingPC
  <2>6. ReplyIsDurable(s)'
    BY <1>4, <2>1, <2>4 DEF ReplyIsDurable, tables
  <2>7. SessionInv(s)'
    BY <2>4, <2>5, <2>6 DEF SessionInv, ClaimOf, LocksOf, VerdictOf, ClaimedPC,
       LockingPC
  <2>8. CacheAgreesWithTable'
    BY <2>1 DEF CacheAgreesWithTable, tables
  <2>9. QED
    BY <2>1, <2>2, <2>3, <2>7, <2>8, QuietStep
<1>5. QED
  BY <1>3, <1>4

\* Loading the original of a reversal preserves it.
LEMMA LoadOriginalStep ==
    ASSUME Inv, NEW s \in Sessions, LoadOriginal(s)
    PROVE  Inv'
<1> USE DEF Inv
<1> DEFINE row == txns[req[s].original]
<1>1. /\ pc[s] = "load" /\ pc[s] \in InTxPC /\ pc[s] \in ClaimedPC
      /\ req[s] \in Commands /\ req[s].op = "reverse"
      /\ req[s].original \in TxIDs
      /\ Valid(req[s]) /\ reply[s] = None
  BY CommandTypes DEF LoadOriginal, SessionInv, ShapeOf, InTxPC, ClaimedPC
<1>2. CASE \E code \in {"transaction_not_found", "invalid_request",
                       "transaction_already_reversed"} : RollBack(s, code)
  BY <1>1, <1>2, RollBackStep DEF ErrorCodes
<1>3. CASE /\ row # None
           /\ row.kind # "reversal"
           /\ toLock' = [toLock EXCEPT ![s] = AccountsOf(row.entries)]
           /\ Goto(s, "lockbalance")
           /\ UNCHANGED <<tables, cache, locks, req, attempt, reply>>
  <2>1. AccountsOf(row.entries) \subseteq AccountIDs
    BY <1>1, <1>3 DEF TypeOK, TxRows, AccountsOf, Entries
  <2>2. TypeOK'
    BY <1>3, <2>1 DEF TypeOK, Goto, InTxPC, tables, locks
  <2>3. Frame(s)
    BY <1>3 DEF Frame, Goto, TypeOK, locks
  <2>4. /\ pc'[s] = "lockbalance" /\ toLock'[s] = AccountsOf(row.entries)
        /\ req'[s] = req[s] /\ reply'[s] = reply[s]
    BY <1>3 DEF Goto, TypeOK
  <2>5. ShapeOf(s)'
    BY <1>1, <1>3, <2>4 DEF ShapeOf, InTxPC, LockingPC, tables
  <2>6. ClaimOf(s)'
    BY <1>1, <1>3, <2>4, <2>3 DEF SessionInv, ClaimOf, HoldsClaim, Frame, tables
  <2>7. LockSet(req[s])' = AccountsOf(row.entries)
    BY <1>1, <1>3 DEF LockSet, tables
  <2>8. LocksOf(s)'
    BY <2>4, <2>7 DEF LocksOf, LockingPC
  <2>9. VerdictOf(s)' /\ ReplyIsDurable(s)'
    BY <1>1, <2>4 DEF VerdictOf, ReplyIsDurable
  <2>10. CacheAgreesWithTable'
    BY <1>3 DEF CacheAgreesWithTable, tables
  <2>11. QED
    BY <1>3, <2>2, <2>3, <2>5, <2>6, <2>8, <2>9, <2>10, QuietStep DEF SessionInv
<1>4. QED
  BY <1>2, <1>3 DEF LoadOriginal

\* Locking one balance preserves it: nobody else held it.
LEMMA LockBalanceStep ==
    ASSUME Inv, NEW s \in Sessions, NEW a \in AccountIDs, LockBalance(s, a)
    PROVE  Inv'
<1> USE DEF Inv
<1>1. /\ pc[s] = "lockbalance" /\ pc[s] \in InTxPC /\ pc[s] \in ClaimedPC
      /\ pc[s] \in LockingPC
      /\ req[s] \in Commands /\ req[s].op # "create"
      /\ Valid(req[s]) /\ reply[s] = None /\ a \in toLock[s]
  BY DEF LockBalance, NextToLock, SessionInv, ShapeOf, InTxPC, ClaimedPC, LockingPC
<1>2. CASE RollBack(s, "unknown_account")
  BY <1>1, <1>2, RollBackStep DEF ErrorCodes
<1>3. CASE /\ accounts[a] # None
           /\ rowLock[a] = None
           /\ rowLock' = [rowLock EXCEPT ![a] = s]
           /\ toLock' = [toLock EXCEPT ![s] = @ \ {a}]
           /\ Goto(s, IF toLock[s] = {a} THEN "post" ELSE "lockbalance")
           /\ UNCHANGED <<tables, cache, keyLock, req, attempt, reply>>
  <2>1. TypeOK'
    BY <1>3 DEF TypeOK, Goto, InTxPC, tables
  <2>2. Frame(s)
    BY <1>3, SessionAssumption DEF Frame, Goto, TypeOK
  <2>3. /\ pc'[s] \in {"post", "lockbalance"}
        /\ pc'[s] = "post" => toLock'[s] = {}
        /\ toLock'[s] = toLock[s] \ {a}
        /\ req'[s] = req[s] /\ reply'[s] = reply[s]
        /\ rowLock'[a] = s
        /\ \A b \in AccountIDs : rowLock[b] = s => rowLock'[b] = s
    BY <1>3 DEF Goto, TypeOK
  <2>4. ShapeOf(s)'
    BY <1>1, <1>3, <2>3 DEF SessionInv, ShapeOf, InTxPC, LockingPC, tables
  <2>5. ClaimOf(s)'
    BY <1>1, <1>3, <2>2, <2>3 DEF SessionInv, ClaimOf, HoldsClaim, Frame, tables
  <2>6. LockSet(req[s])' = LockSet(req[s])
    BY <1>3 DEF LockSet, tables
  <2>7. LockSet(req[s]) \subseteq AccountIDs
    <3>1. req[s].op = "reverse" =>
            AccountsOf(txns[req[s].original].entries) \subseteq AccountIDs
      BY <1>1, CommandTypes
      DEF SessionInv, ShapeOf, TypeOK, TxRows, Entries, AccountsOf
    <3>2. QED
      BY <1>1, <3>1, CommandTypes DEF LockSet, Scopes
  <2>8. LocksOf(s)'
    BY <1>1, <1>3, <2>3, <2>6, <2>7 DEF SessionInv, LocksOf, LockingPC, tables
  <2>9. VerdictOf(s)' /\ ReplyIsDurable(s)'
    BY <1>1, <2>3 DEF VerdictOf, ReplyIsDurable
  <2>10. CacheAgreesWithTable'
    BY <1>3 DEF CacheAgreesWithTable, tables
  <2>11. QED
    BY <1>3, <2>1, <2>2, <2>4, <2>5, <2>8, <2>9, <2>10, QuietStep DEF SessionInv
<1>4. QED
  BY <1>2, <1>3 DEF LockBalance

\* Accepting or refusing the writes preserves it: from here on the verdict
\* holds until the commit.
LEMMA PostStep ==
    ASSUME Inv, NEW s \in Sessions, Post(s)
    PROVE  Inv'
<1> USE DEF Inv
<1> DEFINE refusal == Refusal(req[s], accounts, balances, txns)
<1>1. /\ pc[s] = "post" /\ pc[s] \in InTxPC /\ pc[s] \in ClaimedPC
      /\ pc[s] \in LockingPC
      /\ req[s] \in Commands
      /\ Valid(req[s]) /\ reply[s] = None
  BY DEF Post, SessionInv, ShapeOf, InTxPC, ClaimedPC, LockingPC
<1>2. CASE refusal # None /\ RollBack(s, refusal)
  BY <1>1, <1>2, RefusalType, RollBackStep DEF ErrorCodes, Refusals
<1>3. CASE /\ refusal = None
           /\ Goto(s, "commit")
           /\ UNCHANGED <<tables, cache, locks, req, attempt, toLock, reply>>
  <2>1. TypeOK'
    BY <1>3 DEF TypeOK, Goto, InTxPC, tables, locks
  <2>2. Frame(s)
    BY <1>3 DEF Frame, Goto, TypeOK, locks
  <2>3. pc'[s] = "commit"
    BY <1>3 DEF Goto, TypeOK
  <2>4. ShapeOf(s)'
    BY <1>1, <1>3, <2>3 DEF SessionInv, ShapeOf, InTxPC, LockingPC, tables
  <2>5. ClaimOf(s)'
    BY <1>1, <1>3, <2>2, <2>3 DEF SessionInv, ClaimOf, HoldsClaim, Frame, tables
  <2>6. LockSet(req[s])' = LockSet(req[s])
    BY <1>3 DEF LockSet, tables
  <2>7. LocksOf(s)'
    BY <1>1, <1>3, <2>3, <2>6 DEF SessionInv, LocksOf, LockingPC, tables, locks
  <2>8. VerdictOf(s)'
    <3>1. \A t \in Sessions : ~InsertConflict(s, t)'
      BY <1>3, <2>2 DEF Post, InsertConflict, Frame
    <3>2. QED
      BY <1>3, <3>1 DEF VerdictOf, tables
  <2>9. ReplyIsDurable(s)'
    BY <1>1, <1>3 DEF ReplyIsDurable
  <2>10. CacheAgreesWithTable'
    BY <1>3 DEF CacheAgreesWithTable, tables
  <2>11. QED
    BY <1>3, <2>1, <2>2, <2>4, <2>5, <2>7, <2>8, <2>9, <2>10, QuietStep
    DEF SessionInv
<1>4. QED
  BY <1>2, <1>3 DEF Post

\* Writing the response to Redis preserves it: it is the stored one.
LEMMA FinishStep ==
    ASSUME Inv, NEW s \in Sessions, Finish(s)
    PROVE  Inv'
<1> USE DEF Inv
<1> DEFINE entry == [hash |-> RequestHash(req[s]), body |-> reply[s].body]
<1>1. /\ pc[s] = "finish" /\ req[s] \in Commands /\ Slot(req[s]) \in Slots
      /\ RequestHash(req[s]) \in Hashes
      /\ reply[s] # None /\ reply[s].code = "created" /\ reply[s].body \in Bodies
      /\ toLock[s] = {}
  <2>1. pc[s] = "finish" /\ req[s] \in Commands /\ toLock[s] = {}
    BY DEF Finish, SessionInv, ShapeOf, LocksOf
  <2>2. reply[s] \in Replies /\ reply[s].code = "created" /\ reply[s].body \in Bodies
    BY <2>1 DEF SessionInv, ShapeOf
  <2>3. reply[s] # None
    BY <2>2, NoneAssumption
  <2>4. QED
    BY <2>1, <2>2, <2>3, CommandTypes
<1>2. /\ idem[Slot(req[s])] # None
      /\ entry = [hash |-> idem[Slot(req[s])].hash,
                  body |-> idem[Slot(req[s])].body]
  BY <1>1 DEF SessionInv, ReplyIsDurable
<1>3. cache' \in [Slots -> CacheEntries \cup {None}] /\ CacheAgreesWithTable'
  <2>1. CASE cache' = [cache EXCEPT ![Slot(req[s])] = entry]
    <3>1. entry \in CacheEntries
      BY <1>1 DEF CacheEntries
    <3>2. QED
      BY <1>1, <1>2, <2>1, <3>1 DEF Finish, CacheAgreesWithTable, TypeOK, tables
  <2>2. CASE cache' = cache
    BY <2>2 DEF Finish, CacheAgreesWithTable, TypeOK, tables
  <2>3. QED
    BY <2>1, <2>2 DEF Finish
<1>4. TypeOK'
  BY <1>3 DEF Finish, TypeOK, Goto, tables, locks
<1>5. Frame(s)
  BY DEF Finish, Frame, Goto, TypeOK, locks
<1>6. SessionInv(s)'
  BY <1>1 DEF Finish, Goto, TypeOK, SessionInv, ShapeOf, ClaimOf, LocksOf,
     VerdictOf, ReplyIsDurable, InTxPC, ClaimedPC, LockingPC, tables
<1>7. QED
  BY <1>3, <1>4, <1>5, <1>6, QuietStep DEF Finish

\* Losing the result after the commit preserves it.
LEMMA LoseResultStep ==
    ASSUME Inv, NEW s \in Sessions, LoseResult(s)
    PROVE  Inv'
<1> USE DEF Inv, LoseResult
<1>1. req[s] \in Commands /\ toLock[s] = {}
  BY DEF SessionInv, ShapeOf, LocksOf
<1>2. /\ reply' \in [Sessions -> Replies \cup {None}]
      /\ \A u \in Sessions \ {s} : reply'[u] = reply[u]
      /\ reply'[s].code = "internal_error"
  BY AnswerErrorType DEF ErrorCodes
<1>3. TypeOK'
  BY <1>2 DEF TypeOK, Goto, tables, locks
<1>4. Frame(s)
  BY <1>2 DEF Frame, Goto, TypeOK, locks
<1>5. pc'[s] = "respond" /\ toLock'[s] = {} /\ req'[s] = req[s]
  BY <1>1 DEF Goto, TypeOK
<1>6. SessionInv(s)'
  BY <1>1, <1>2, <1>5 DEF SessionInv, ShapeOf, ClaimOf, LocksOf, VerdictOf,
     ReplyIsDurable, InTxPC, ClaimedPC, LockingPC
<1>7. CacheAgreesWithTable'
  BY DEF CacheAgreesWithTable, tables
<1>8. QED
  BY <1>3, <1>4, <1>6, <1>7, QuietStep

\* Leaving the handler: after the response, or because the process died.
LEMMA LeaveStep ==
    ASSUME Inv, NEW s \in Sessions, Respond(s) \/ Crash(s)
    PROVE  Inv'
<1> USE DEF Inv
<1>1. /\ keyLock' \in [LockIDs -> Sessions \cup {None}]
      /\ rowLock' \in [AccountIDs -> Sessions \cup {None}]
      /\ toLock' \in [Sessions -> SUBSET AccountIDs]
      /\ toLock'[s] = {}
      /\ \A u \in Sessions \ {s} :
            /\ toLock'[u] = toLock[u]
            /\ \A a \in AccountIDs : rowLock[a] = u => rowLock'[a] = u
  <2>1. CASE Respond(s)
    BY <2>1 DEF Respond, TypeOK, SessionInv, LocksOf, locks
  <2>2. CASE Crash(s)
    BY <2>2, ReleaseLocksType DEF Crash, TypeOK, ReleaseLocks
  <2>3. QED
    BY <2>1, <2>2
<1>2. Forget(s) /\ UNCHANGED <<tables, cache>>
  BY DEF Respond, Crash
<1>3. TypeOK'
  BY <1>1, <1>2, SessionAssumption DEF TypeOK, Forget, Goto, tables
<1>4. Frame(s)
  BY <1>1, <1>2 DEF Frame, Forget, Goto, TypeOK
<1>5. SessionInv(s)'
  BY <1>1, <1>2 DEF Forget, Goto, TypeOK, SessionInv, ShapeOf, ClaimOf, LocksOf,
     VerdictOf, ReplyIsDurable, InTxPC, ClaimedPC, LockingPC
<1>6. CacheAgreesWithTable'
  BY <1>2 DEF CacheAgreesWithTable, tables
<1>7. QED
  BY <1>2, <1>3, <1>4, <1>5, <1>6, QuietStep

\* Rolling back and trying again, or giving up, preserves it.
LEMMA RetryableErrorStep ==
    ASSUME Inv, NEW s \in Sessions, RetryableError(s)
    PROVE  Inv'
<1> USE DEF Inv
<1>1. CASE RollBack(s, "internal_error")
  BY <1>1, RollBackStep DEF RetryableError, ErrorCodes
<1>2. CASE /\ attempt[s] + 1 < MaxRetries
           /\ attempt' = [attempt EXCEPT ![s] = @ + 1]
           /\ ReleaseLocks(s)
           /\ Goto(s, "lockkey")
           /\ UNCHANGED <<tables, cache, req, reply>>
  <2>1. TypeOK'
    BY <1>2, ReleaseLocksType, SessionAssumption DEF TypeOK, Goto, InTxPC, tables
  <2>2. Frame(s)
    BY <1>2 DEF Frame, ReleaseLocks, Goto, TypeOK
  <2>3. /\ req[s] \in Commands /\ Valid(req[s]) /\ reply[s] = None
    BY DEF RetryableError, SessionInv, ShapeOf, InTxPC
  <2>4. SessionInv(s)'
    BY <1>2, <2>3 DEF ReleaseLocks, Goto, TypeOK, SessionInv, ShapeOf, ClaimOf,
       LocksOf, VerdictOf, ReplyIsDurable, InTxPC, ClaimedPC, LockingPC
  <2>5. CacheAgreesWithTable'
    BY <1>2 DEF CacheAgreesWithTable, tables
  <2>6. QED
    BY <1>2, <2>1, <2>2, <2>4, <2>5, QuietStep
<1>3. QED
  BY <1>1, <1>2 DEF RetryableError

\* Any other error inside the transaction preserves it.
LEMMA AbortStep ==
    ASSUME Inv, NEW s \in Sessions, Abort(s)
    PROVE  Inv'
BY RollBackStep DEF Abort, ErrorCodes

\* Losing a cached response preserves it.
LEMMA EvictStep ==
    ASSUME Inv, NEW k \in Slots, Evict(k)
    PROVE  Inv'
<1> USE DEF Inv, Evict
<1>1. TypeOK'
  BY DEF TypeOK, tables, locks
<1>2. CacheAgreesWithTable'
  BY DEF TypeOK, CacheAgreesWithTable, tables
<1>3. NonNegativeBalances' /\ PaymentsAreAtomic' /\ ReversedAtMostOnce'
  BY DEF NonNegativeBalances, PaymentsAreAtomic, ReversedAtMostOnce,
         ReversalsOf, tables
<1>4. ASSUME NEW s \in Sessions PROVE SessionInv(s)'
  <2> USE DEF SessionInv, tables, locks
  <2>1. ShapeOf(s)'
    BY DEF ShapeOf
  <2>2. ClaimOf(s)'
    BY DEF ClaimOf, HoldsClaim
  <2>3. LocksOf(s)'
    <3>1. LockSet(req[s])' = LockSet(req[s])
      BY DEF LockSet
    <3>2. QED
      BY <3>1 DEF LocksOf
  <2>4. VerdictOf(s)'
    BY DEF VerdictOf, InsertConflict
  <2>5. ReplyIsDurable(s)'
    BY DEF ReplyIsDurable
  <2>6. QED
    BY <2>1, <2>2, <2>3, <2>4, <2>5
<1>5. QED
  BY <1>1, <1>2, <1>3, <1>4

(***************************************************************************)
(* COMMIT.                                                                 *)
(***************************************************************************)

\* A posting that is not refused violates no constraint.
LEMMA AcceptedPostings ==
    ASSUME NEW acc, NEW bal, NEW es, BalanceRefusal(acc, bal, es) = None
    PROVE  \A i \in 1..2 : ~Rejected(acc, bal, es[i])
BY NoneAssumption DEF BalanceRefusal, ErrorCodes

\* Whether postings are refused depends on the rows of their accounts only.
LEMMA RefusalIsLocal ==
    ASSUME NEW acc, NEW bal, NEW acc2, NEW bal2, NEW es,
           \A i \in 1..2 : /\ acc2[es[i].account] = acc[es[i].account]
                           /\ bal2[es[i].account] = bal[es[i].account],
           BalanceRefusal(acc, bal, es) = None
    PROVE  BalanceRefusal(acc2, bal2, es) = None
<1>1. \A i \in 1..2 : ~Rejected(acc, bal, es[i])
  BY AcceptedPostings
<1>2. \A i \in 1..2 : ~Rejected(acc2, bal2, es[i])
  BY <1>1 DEF Rejected, CheckFails, Overflows
<1>3. {i \in 1..2 : Rejected(acc2, bal2, es[i])} = {}
  BY <1>2
<1>4. QED
  BY <1>3 DEF BalanceRefusal

\* What a session knows when it commits.
LEMMA AtCommit ==
    ASSUME Inv, NEW s \in Sessions, pc[s] = "commit"
    PROVE  /\ req[s] \in Commands /\ Valid(req[s]) /\ req[s].op \in Scopes
           /\ Slot(req[s]) \in Slots /\ idem[Slot(req[s])] = None
           /\ Refusal(req[s], accounts, balances, txns) = None
           /\ LockSet(req[s]) \subseteq AccountIDs
           /\ \A a \in LockSet(req[s]) : rowLock[a] = s /\ accounts[a] # None
           /\ req[s].op = "create" => /\ req[s].account \in AccountIDs
                                      /\ accounts[req[s].account] = None
           /\ req[s].op = "reverse" =>
                 /\ req[s].original \in TxIDs
                 /\ txns[req[s].original] \in TxRows
                 /\ txns[req[s].original].kind # "reversal"
                 /\ ReversalsOf(txns, req[s].original) = {}
<1>1. SessionInv(s) /\ TypeOK
  BY DEF Inv
<1>2. /\ req[s] \in Commands /\ Valid(req[s])
      /\ idem[Slot(req[s])] = None
      /\ Refusal(req[s], accounts, balances, txns) = None
  BY <1>1 DEF SessionInv, ShapeOf, ClaimOf, VerdictOf, InTxPC, ClaimedPC
<1>3. req[s].op \in Scopes /\ Slot(req[s]) \in Slots
  BY <1>2, CommandTypes
<1>4. req[s].op = "create" => /\ req[s].account \in AccountIDs
                              /\ accounts[req[s].account] = None
  BY <1>2, CommandTypes, NoneAssumption DEF Refusal, CreateRefusal, ErrorCodes
<1>5. req[s].op = "reverse" => /\ req[s].original \in TxIDs
                               /\ txns[req[s].original] \in TxRows
                               /\ txns[req[s].original].kind # "reversal"
  BY <1>1, <1>2, CommandTypes DEF SessionInv, ShapeOf, TypeOK, LockingPC
<1>6. req[s].op = "reverse" => ReversalsOf(txns, req[s].original) = {}
  BY <1>2, NoneAssumption DEF Refusal, ReverseRefusal, ErrorCodes
<1>7. LockSet(req[s]) \subseteq AccountIDs
  <2>1. req[s].op = "reverse" =>
          AccountsOf(txns[req[s].original].entries) \subseteq AccountIDs
    BY <1>5 DEF TxRows, Entries, AccountsOf
  <2>2. QED
    BY <1>2, <1>3, <2>1, CommandTypes DEF LockSet, Scopes
<1>8. \A a \in LockSet(req[s]) : rowLock[a] = s /\ accounts[a] # None
  BY <1>1 DEF SessionInv, LocksOf, LockingPC
<1>9. QED
  BY <1>2, <1>3, <1>4, <1>5, <1>6, <1>7, <1>8

\* The transaction a session commits: a row whose postings touch exactly the
\* locked balances and violate no constraint.
LEMMA CommittedRow ==
    ASSUME Inv, NEW s \in Sessions, pc[s] = "commit", req[s].op # "create",
           NEW row, row = TransactionRow(req[s], accounts, txns)
    PROVE  /\ row \in TxRows
           /\ row.reverses = IF req[s].op = "reverse" THEN req[s].original ELSE None
           /\ row.kind = "reversal" <=> req[s].op = "reverse"
           /\ req[s].op = "reverse" =>
                 row.entries = MirroredEntries(txns[req[s].original].entries)
           /\ AccountsOf(row.entries) = LockSet(req[s])
           /\ \A i \in 1..2 : ~Rejected(accounts, balances, row.entries[i])
<1>1. CASE req[s].op = "transfer"
  <2>1. TransferEntries(req[s]) \in Entries \X Entries
    BY <1>1, AtCommit, TransferEntriesType
  <2>2. row \in TxRows /\ row.reverses = None /\ row.kind # "reversal"
        /\ row.entries = TransferEntries(req[s])
    BY <1>1, <2>1, AtCommit, CommandTypes DEF TransactionRow, TxRows
  <2>3. AccountsOf(row.entries) = LockSet(req[s])
    BY <1>1, <2>2 DEF AccountsOf, TransferEntries, LockSet
  <2>4. BalanceRefusal(accounts, balances, row.entries) = None
    BY <1>1, <2>2, AtCommit, NoneAssumption
    DEF Refusal, TransferRefusal, ErrorCodes
  <2>5. QED
    BY <1>1, <2>2, <2>3, <2>4, AcceptedPostings
<1>2. CASE req[s].op = "reverse"
  <2> DEFINE orig == txns[req[s].original]
  <2>1. orig \in TxRows /\ orig.entries \in Entries \X Entries
        /\ orig.currency \in Currencies /\ req[s].original \in TxIDs
    BY <1>2, AtCommit DEF TxRows
  <2>2. MirroredEntries(orig.entries) \in Entries \X Entries
    BY <2>1, MirrorType
  <2>3. row \in TxRows /\ row.reverses = req[s].original
        /\ row.kind = "reversal" /\ row.entries = MirroredEntries(orig.entries)
    BY <1>2, <2>1, <2>2 DEF TransactionRow, TxRows
  <2>4. AccountsOf(row.entries) = LockSet(req[s])
    <3>1. /\ MirroredEntries(orig.entries)[1].account = orig.entries[1].account
          /\ MirroredEntries(orig.entries)[2].account = orig.entries[2].account
      BY DEF MirroredEntries, Mirror
    <3>2. AccountsOf(row.entries) = AccountsOf(orig.entries)
      BY <2>3, <3>1 DEF AccountsOf
    <3>3. LockSet(req[s]) = AccountsOf(orig.entries)
      BY <1>2 DEF LockSet
    <3>4. QED
      BY <3>2, <3>3
  <2>5. BalanceRefusal(accounts, balances, row.entries) = None
    BY <1>2, <2>3, AtCommit, NoneAssumption
    DEF Refusal, ReverseRefusal, ErrorCodes
  <2>6. QED
    BY <1>2, <2>3, <2>4, <2>5, AcceptedPostings
<1>3. QED
  BY <1>1, <1>2, AtCommit DEF Scopes

\* Postings that cancel out and violate no constraint leave no account
\* without overdraft negative.
LEMMA AcceptedBalances ==
    ASSUME NEW acc, NEW bal \in [AccountIDs -> Int],
           NEW es \in Entries \X Entries, ZeroSum(es),
           \A i \in 1..2 : ~Rejected(acc, bal, es[i]),
           NEW a \in AccountIDs, ~acc[a].overdraft, bal[a] >= 0
    PROVE  Applied(bal, es)[a] >= 0
<1>1. /\ es[1].account \in AccountIDs /\ es[1].amount \in Int
      /\ es[2].account \in AccountIDs /\ es[2].amount \in Int
  BY DEF Entries
<1>2. es[1].account = a => bal[a] + es[1].amount >= 0
  BY <1>1 DEF Rejected, CheckFails
<1>3. es[2].account = a => bal[a] + es[2].amount >= 0
  BY <1>1 DEF Rejected, CheckFails
<1>4. QED
  BY <1>1, <1>2, <1>3 DEF Applied, Delta, ZeroSum

\* What a commit leaves alone for a session u that does not commit: the rows
\* it has read, the balances it has locked, and the slot it has claimed.
StableFor(s) ==
    /\ \A a \in AccountIDs : accounts[a] # None => accounts'[a] = accounts[a]
    /\ \A t \in TxIDs : txns[t] # None => txns'[t] = txns[t]
    /\ \A k \in Slots \ {Slot(req[s])} : idem'[k] = idem[k]
    /\ \A k \in Slots : idem[k] # None => idem'[k] = idem[k]
    /\ \A u \in Sessions \ {s}, a \in AccountIDs :
          rowLock[a] = u /\ accounts[a] # None => balances'[a] = balances[a]
    /\ \A u \in Sessions \ {s} : pc[u] = "commit" =>
          /\ req[u].op = "create" =>
                accounts'[req[u].account] = accounts[req[u].account]
          /\ req[u].op = "reverse" =>
                ReversalsOf(txns', req[u].original) =
                ReversalsOf(txns, req[u].original)

\* If the commit of s is stable in this sense, every other session keeps its
\* part of the invariant.
LEMMA OthersAfterCommit ==
    ASSUME Inv, NEW s \in Sessions, pc[s] = "commit", pc'[s] # "commit",
           pc'[s] \notin ClaimedPC, Frame(s), StableFor(s),
           NEW u \in Sessions \ {s}
    PROVE  SessionInv(u)'
<1>1. SessionInv(u) /\ TypeOK
  BY DEF Inv
<1>2. pc'[u] = pc[u] /\ req'[u] = req[u] /\ toLock'[u] = toLock[u]
      /\ reply'[u] = reply[u]
  BY DEF Frame
<1>3. pc[u] # "idle" => req[u] \in Commands /\ Slot(req[u]) \in Slots
  BY <1>1, CommandTypes DEF SessionInv, ShapeOf
<1>4. pc[u] \in LockingPC /\ req[u].op = "reverse" =>
        /\ req[u].original \in TxIDs
        /\ txns[req[u].original] \in TxRows
        /\ txns[req[u].original].kind # "reversal"
        /\ txns'[req[u].original] = txns[req[u].original]
  BY <1>1, <1>3, CommandTypes DEF SessionInv, ShapeOf, TypeOK, LockingPC, StableFor
<1>5. pc[u] \in LockingPC => /\ LockSet(req[u])' = LockSet(req[u])
                             /\ LockSet(req[u]) \subseteq AccountIDs
  <2>1. SUFFICES ASSUME pc[u] \in LockingPC
                 PROVE  /\ LockSet(req[u])' = LockSet(req[u])
                        /\ LockSet(req[u]) \subseteq AccountIDs
    OBVIOUS
  <2>2. req[u] \in Commands /\ req[u].op \in Scopes
    BY <1>3, <2>1, CommandTypes DEF LockingPC
  <2>3. req[u].op = "reverse" =>
          AccountsOf(txns[req[u].original].entries) \subseteq AccountIDs
    BY <1>4, <2>1 DEF TxRows, Entries, AccountsOf
  <2>4. QED
    BY <1>2, <1>4, <2>1, <2>2, <2>3, CommandTypes DEF LockSet, Scopes
<1>6. ShapeOf(u)'
  BY <1>1, <1>2, <1>4, NoneAssumption DEF SessionInv, ShapeOf
<1>7. ClaimOf(u)'
  <2>1. SUFFICES ASSUME pc[u] \in ClaimedPC
                 PROVE  /\ idem'[Slot(req[u])] = None
                        /\ \A t \in Sessions \ {u} : ~HoldsClaim(t, Slot(req[u]))'
    BY <1>2 DEF ClaimOf
  <2>2. idem[Slot(req[u])] = None /\ Slot(req[u]) # Slot(req[s])
        /\ Slot(req[u]) \in Slots
    BY <1>1, <1>3, <2>1 DEF SessionInv, ClaimOf, HoldsClaim, ClaimedPC
  <2>3. idem'[Slot(req[u])] = None
    BY <2>2 DEF StableFor
  <2>4. \A t \in Sessions \ {u} : ~HoldsClaim(t, Slot(req[u]))'
    BY <1>1, <1>2, <2>1 DEF SessionInv, ClaimOf, HoldsClaim, Frame
  <2>5. QED
    BY <2>3, <2>4
<1>8. LocksOf(u)'
  BY <1>1, <1>2, <1>5 DEF SessionInv, LocksOf, Frame, StableFor
<1>9. VerdictOf(u)'
  <2>1. SUFFICES ASSUME pc[u] = "commit"
                 PROVE  /\ Refusal(req[u], accounts', balances', txns') = None
                        /\ \A t \in Sessions : ~InsertConflict(u, t)'
    BY <1>2 DEF VerdictOf
  <2>2. \A t \in Sessions : ~InsertConflict(u, t)'
    BY <1>1, <1>2, <2>1 DEF SessionInv, VerdictOf, InsertConflict, Frame
  <2>3. req[u].op \in Scopes /\ req[u] \in Commands
        /\ Refusal(req[u], accounts, balances, txns) = None
    BY <2>1, AtCommit
  <2>4. ASSUME NEW a \in LockSet(req[u])
        PROVE  accounts'[a] = accounts[a] /\ balances'[a] = balances[a]
    <3>1. a \in AccountIDs /\ rowLock[a] = u /\ accounts[a] # None
      BY <2>1, AtCommit
    <3>2. QED
      BY <3>1 DEF StableFor
  <2>5. ASSUME NEW es, AccountsOf(es) = LockSet(req[u]),
               BalanceRefusal(accounts, balances, es) = None
        PROVE  BalanceRefusal(accounts', balances', es) = None
    <3>1. \A i \in 1..2 : es[i].account \in LockSet(req[u])
      BY <2>5 DEF AccountsOf
    <3>2. QED
      BY <2>4, <2>5, <3>1, RefusalIsLocal
  <2>6. CASE req[u].op = "create"
    BY <2>1, <2>2, <2>3, <2>6 DEF Refusal, CreateRefusal, StableFor
  <2>7. CASE req[u].op = "transfer"
    <3>1. /\ req[u].source \in LockSet(req[u])
          /\ req[u].destination \in LockSet(req[u])
          /\ AccountsOf(TransferEntries(req[u])) = LockSet(req[u])
      BY <2>7 DEF LockSet, AccountsOf, TransferEntries
    <3>2. TransferRefusal(req[u], accounts, balances) = None
      BY <2>3, <2>7 DEF Refusal
    <3>3. BalanceRefusal(accounts, balances, TransferEntries(req[u])) = None
      BY <3>2, NoneAssumption DEF TransferRefusal, ErrorCodes
    <3>4. BalanceRefusal(accounts', balances', TransferEntries(req[u])) = None
      BY <2>5, <3>1, <3>3
    <3>5. TransferRefusal(req[u], accounts', balances') = None
      BY <2>4, <3>1, <3>2, <3>4, NoneAssumption DEF TransferRefusal, ErrorCodes
    <3>6. QED
      BY <2>2, <2>7, <3>5 DEF Refusal
  <2>8. CASE req[u].op = "reverse"
    <3> DEFINE es == MirroredEntries(txns[req[u].original].entries)
    <3>1. txns'[req[u].original] = txns[req[u].original]
          /\ txns[req[u].original].entries \in Entries \X Entries
      BY <1>4, <2>1, <2>8 DEF LockingPC, TxRows
    <3>2. AccountsOf(es) = LockSet(req[u])
      BY <2>8, <3>1 DEF LockSet, AccountsOf, MirroredEntries, Mirror
    <3>3. ReversalsOf(txns, req[u].original) = {}
          /\ BalanceRefusal(accounts, balances, es) = None
      BY <2>1, <2>3, <2>8, AtCommit, NoneAssumption
      DEF Refusal, ReverseRefusal, ErrorCodes
    <3>4. ReversalsOf(txns', req[u].original) = {}
      BY <2>1, <2>8, <3>3 DEF StableFor
    <3>5. BalanceRefusal(accounts', balances', es) = None
      BY <2>5, <3>2, <3>3
    <3>6. ReverseRefusal(req[u], accounts', balances', txns') = None
      BY <3>1, <3>4, <3>5 DEF ReverseRefusal
    <3>7. QED
      BY <2>2, <2>8, <3>6 DEF Refusal
  <2>9. QED
    BY <2>3, <2>6, <2>7, <2>8 DEF Scopes
<1>10. ReplyIsDurable(u)'
  <2>1. SUFFICES ASSUME reply[u] # None
                 PROVE  ReplyIsDurable(u)'
    BY <1>2 DEF ReplyIsDurable
  <2>2. Slot(req[u]) \in Slots
    BY <1>1, <1>3, <2>1 DEF SessionInv, ShapeOf
  <2>3. QED
    BY <1>1, <1>2, <2>1, <2>2 DEF SessionInv, ReplyIsDurable, StableFor
<1>11. QED
  BY <1>6, <1>7, <1>8, <1>9, <1>10 DEF SessionInv

\* A committing session leaves the transaction with its response, or with an
\* error, and without locks.
LEMMA CommitSession ==
    ASSUME Inv, NEW s \in Sessions, pc[s] = "commit", ReleaseLocks(s),
           \/ AnswerCreated(s, idem'[Slot(req[s])].body, FALSE) /\ Goto(s, "finish")
           \/ AnswerError(s, "internal_error") /\ Goto(s, "respond"),
           UNCHANGED <<cache, req, attempt>>,
           idem'[Slot(req[s])] # None,
           idem'[Slot(req[s])].hash = RequestHash(req[s]),
           idem'[Slot(req[s])].body \in Bodies
    PROVE  /\ Frame(s)
           /\ SessionInv(s)'
           /\ pc'[s] \in {"finish", "respond"}
           /\ keyLock' \in [LockIDs -> Sessions \cup {None}]
           /\ rowLock' \in [AccountIDs -> Sessions \cup {None}]
           /\ toLock' \in [Sessions -> SUBSET AccountIDs]
           /\ pc' \in [Sessions -> InTxPC \cup {"idle", "lookup", "finish", "respond"}]
           /\ reply' \in [Sessions -> Replies \cup {None}]
<1> DEFINE body == idem'[Slot(req[s])].body
<1>1. TypeOK /\ req[s] \in Commands
  BY AtCommit DEF Inv
<1>2. /\ keyLock' \in [LockIDs -> Sessions \cup {None}]
      /\ rowLock' \in [AccountIDs -> Sessions \cup {None}]
      /\ toLock' \in [Sessions -> SUBSET AccountIDs]
  BY <1>1, ReleaseLocksType
<1>3. /\ reply' \in [Sessions -> Replies \cup {None}]
      /\ \A u \in Sessions \ {s} : reply'[u] = reply[u]
      /\ \/ /\ pc'[s] = "finish"
            /\ reply'[s] \in Replies
            /\ reply'[s].code = "created"
            /\ reply'[s].body = body
         \/ pc'[s] = "respond" /\ reply'[s].code = "internal_error"
  <2>1. CASE AnswerCreated(s, body, FALSE) /\ Goto(s, "finish")
    BY <1>1, <2>1, AnswerCreatedType DEF Goto, TypeOK
  <2>2. CASE AnswerError(s, "internal_error") /\ Goto(s, "respond")
    BY <1>1, <2>2, AnswerErrorType DEF Goto, TypeOK, ErrorCodes
  <2>3. QED
    BY <2>1, <2>2
<1>4. /\ pc' \in [Sessions -> InTxPC \cup {"idle", "lookup", "finish", "respond"}]
      /\ \A u \in Sessions \ {s} : pc'[u] = pc[u]
  BY <1>1 DEF Goto, TypeOK
<1>5. Frame(s)
  BY <1>1, <1>3, <1>4 DEF Frame, ReleaseLocks, TypeOK
<1>6. toLock'[s] = {} /\ req'[s] = req[s]
  BY <1>1 DEF ReleaseLocks, TypeOK
<1>7. ShapeOf(s)'
  BY <1>1, <1>3, <1>6 DEF ShapeOf, InTxPC, LockingPC
<1>8. ReplyIsDurable(s)'
  BY <1>3, <1>6 DEF ReplyIsDurable
<1>9. SessionInv(s)'
  BY <1>3, <1>6, <1>7, <1>8 DEF SessionInv, ClaimOf, LocksOf, VerdictOf,
     ClaimedPC, LockingPC
<1>10. QED
  BY <1>2, <1>3, <1>4, <1>5, <1>9

\* The tables after a step, with every constraint the schema and the service
\* maintain.
TablesInv ==
    /\ accounts \in [AccountIDs -> AccountRows \cup {None}]
    /\ balances \in [AccountIDs -> Int]
    /\ txns \in [TxIDs -> TxRows \cup {None}]
    /\ idem \in [Slots -> IdemRows \cup {None}]
    /\ outbox \in SUBSET Events
    /\ NonNegativeBalances
    /\ PaymentsAreAtomic
    /\ ReversedAtMostOnce

\* The record of the command that commits is stored under its slot.
RecordStored(s) ==
    /\ idem'[Slot(req[s])] # None
    /\ idem'[Slot(req[s])].hash = RequestHash(req[s])
    /\ idem'[Slot(req[s])].body \in Bodies

\* Committing an account.
LEMMA AccountCommits ==
    ASSUME Inv, NEW s \in Sessions, pc[s] = "commit", req[s].op = "create",
           CommitAccount(req[s])
    PROVE  TablesInv' /\ RecordStored(s) /\ StableFor(s)
<1> DEFINE cmd == req[s]
           k0 == Slot(cmd)
           rec == CompletedRecord(cmd, RenderedAccount(cmd.account), None)
<1>1. /\ cmd \in Commands /\ k0 \in Slots /\ idem[k0] = None
      /\ cmd.account \in AccountIDs /\ accounts[cmd.account] = None
      /\ AccountRow(cmd) \in AccountRows
      /\ k0[1] = "create"
  BY AtCommit, CommandTypes DEF Slot
<1>2. rec \in IdemRows /\ rec # None /\ rec.hash = RequestHash(cmd)
      /\ rec.body \in Bodies /\ rec.txn = None /\ rec.state = "completed"
  BY <1>1, RecordType, RenderedType, NoneAssumption DEF CompletedRecord
<1>3. /\ accounts' = [accounts EXCEPT ![cmd.account] = AccountRow(cmd)]
      /\ balances' = [balances EXCEPT ![cmd.account] = 0]
      /\ idem' = [idem EXCEPT ![k0] = rec]
      /\ txns' = txns /\ outbox' = outbox
  BY DEF CommitAccount
<1>4. TypeOK /\ NonNegativeBalances /\ PaymentsAreAtomic /\ ReversedAtMostOnce
  BY DEF Inv
<1> HIDE DEF rec, k0
<1>5. /\ accounts' \in [AccountIDs -> AccountRows \cup {None}]
      /\ balances' \in [AccountIDs -> Int]
      /\ txns' \in [TxIDs -> TxRows \cup {None}]
      /\ idem' \in [Slots -> IdemRows \cup {None}]
      /\ outbox' \in SUBSET Events
  BY <1>1, <1>2, <1>3, <1>4 DEF TypeOK
<1>6. NonNegativeBalances'
  BY <1>1, <1>3, <1>4 DEF NonNegativeBalances, TypeOK
<1>7. idem'[k0] = rec /\ \A k \in Slots \ {k0} : idem'[k] = idem[k]
  BY <1>1, <1>3, <1>4 DEF TypeOK
<1>8. PaymentsAreAtomic'
  <2>1. \A t \in TxIDs : txns'[t] # None =>
          /\ \E k \in Slots : idem'[k] # None /\ idem'[k].txn = t
          /\ EventOf(t, txns'[t]) \in outbox'
    BY <1>1, <1>3, <1>4, <1>7 DEF PaymentsAreAtomic
  <2>2. \A k, l \in Slots :
          idem'[k] # None /\ idem'[l] # None /\ idem'[k].txn = idem'[l].txn
              => k = l \/ idem'[k].txn = None
    BY <1>1, <1>2, <1>4, <1>7 DEF PaymentsAreAtomic
  <2>3. \A k \in Slots : idem'[k] # None =>
          /\ idem'[k].state = "completed"
          /\ idem'[k].txn = None <=> k[1] = "create"
          /\ idem'[k].txn # None => txns'[idem'[k].txn] # None
    BY <1>1, <1>2, <1>3, <1>4, <1>7 DEF PaymentsAreAtomic
  <2>4. \A e \in outbox' : txns'[e.txn] # None /\ e = EventOf(e.txn, txns'[e.txn])
    BY <1>3, <1>4 DEF PaymentsAreAtomic
  <2>5. QED
    BY <2>1, <2>2, <2>3, <2>4 DEF PaymentsAreAtomic
<1>9. ReversedAtMostOnce'
  BY <1>3, <1>4 DEF ReversedAtMostOnce, ReversalsOf
<1>10. RecordStored(s)
  BY <1>2, <1>7 DEF RecordStored, k0
<1>11. ASSUME NEW u \in Sessions \ {s}, pc[u] = "commit", req[u].op = "create"
       PROVE  accounts'[req[u].account] = accounts[req[u].account]
  <2>1. req[u].account \in AccountIDs /\ ~InsertConflict(u, s)
    BY <1>11, AtCommit DEF Inv, SessionInv, VerdictOf
  <2>2. req[u].account # req[s].account
    BY <1>11, <2>1 DEF InsertConflict
  <2>3. QED
    BY <1>1, <1>3, <1>4, <2>1, <2>2 DEF TypeOK
<1>12. StableFor(s)
  <2>1. \A a \in AccountIDs : accounts[a] # None =>
          accounts'[a] = accounts[a] /\ balances'[a] = balances[a]
    BY <1>1, <1>3, <1>4 DEF TypeOK
  <2>2. /\ \A k \in Slots \ {Slot(req[s])} : idem'[k] = idem[k]
        /\ \A k \in Slots : idem[k] # None => idem'[k] = idem[k]
    BY <1>1, <1>7 DEF k0
  <2>3. \A t : ReversalsOf(txns', t) = ReversalsOf(txns, t)
    BY <1>3 DEF ReversalsOf
  <2>4. QED
    BY <1>3, <1>11, <2>1, <2>2, <2>3 DEF StableFor
<1>13. QED
  BY <1>5, <1>6, <1>8, <1>9, <1>10, <1>12 DEF TablesInv

\* Postings leave the balance of every other account alone.
LEMMA AppliedElsewhere ==
    ASSUME NEW es, NEW bal \in [AccountIDs -> Int], NEW a \in AccountIDs,
           a \notin AccountsOf(es)
    PROVE  Applied(bal, es)[a] = bal[a]
BY DEF Applied, Delta, AccountsOf

\* Committing a transfer or a reversal under the fresh id t0.
LEMMA TransactionCommits ==
    ASSUME Inv, NEW s \in Sessions, pc[s] = "commit", req[s].op # "create",
           NEW t0 \in TxIDs, CommitTransaction(req[s], t0)
    PROVE  TablesInv' /\ RecordStored(s) /\ StableFor(s)
<1> DEFINE cmd == req[s]
           k0 == Slot(cmd)
           row == TransactionRow(cmd, accounts, txns)
           event == EventOf(t0, row)
           rec == CompletedRecord(cmd, RenderedTransaction(txns, t0), t0)
<1>1. /\ cmd \in Commands /\ k0 \in Slots /\ idem[k0] = None
      /\ k0[1] # "create" /\ cmd.op \in {"transfer", "reverse"}
      /\ LockSet(cmd) \subseteq AccountIDs
      /\ \A a \in LockSet(cmd) : rowLock[a] = s /\ accounts[a] # None
  BY AtCommit DEF Slot, Scopes
<1>2. /\ row \in TxRows
      /\ row # None
      /\ row.reverses = IF cmd.op = "reverse" THEN cmd.original ELSE None
      /\ row.kind = "reversal" <=> cmd.op = "reverse"
      /\ cmd.op = "reverse" =>
            row.entries = MirroredEntries(txns[cmd.original].entries)
      /\ AccountsOf(row.entries) = LockSet(cmd)
      /\ \A i \in 1..2 : ~Rejected(accounts, balances, row.entries[i])
  BY CommittedRow, NoneAssumption
<1>3. rec \in IdemRows /\ rec # None /\ rec.hash = RequestHash(cmd)
      /\ rec.body \in Bodies /\ rec.txn = t0 /\ rec.state = "completed"
  BY <1>1, RecordType, RenderedType, NoneAssumption DEF CompletedRecord
<1>4. event \in Events /\ event.txn = t0
  BY <1>2, EventType DEF EventOf
<1>5. /\ txns[t0] = None
      /\ ZeroSum(row.entries)
      /\ txns' = [txns EXCEPT ![t0] = row]
      /\ balances' = Applied(balances, row.entries)
      /\ outbox' = outbox \cup {event}
      /\ idem' = [idem EXCEPT ![k0] = rec]
      /\ accounts' = accounts
  BY DEF CommitTransaction
<1>6. TypeOK /\ NonNegativeBalances /\ PaymentsAreAtomic /\ ReversedAtMostOnce
  BY DEF Inv
<1>7. row.entries \in Entries \X Entries
  BY <1>2 DEF TxRows
<1>8. event = EventOf(t0, row)
  OBVIOUS
<1>9. cmd.op = "reverse" => /\ cmd.original \in TxIDs
                            /\ txns[cmd.original] # None
                            /\ txns[cmd.original].kind # "reversal"
                            /\ ReversalsOf(txns, cmd.original) = {}
  BY AtCommit, NoneAssumption
<1> HIDE DEF rec, k0, row, event
<1>10. /\ idem'[k0] = rec
       /\ \A k \in Slots \ {k0} : idem'[k] = idem[k]
       /\ txns'[t0] = row
       /\ \A t \in TxIDs \ {t0} : txns'[t] = txns[t]
  BY <1>1, <1>5, <1>6 DEF TypeOK
<1>11. /\ accounts' \in [AccountIDs -> AccountRows \cup {None}]
       /\ balances' \in [AccountIDs -> Int]
       /\ txns' \in [TxIDs -> TxRows \cup {None}]
       /\ idem' \in [Slots -> IdemRows \cup {None}]
       /\ outbox' \in SUBSET Events
  BY <1>1, <1>2, <1>3, <1>4, <1>5, <1>6, <1>7, AppliedType DEF TypeOK
<1>12. NonNegativeBalances'
  BY <1>2, <1>5, <1>6, <1>7, AcceptedBalances DEF NonNegativeBalances, TypeOK
<1>13. PaymentsAreAtomic'
  <2>1. ASSUME NEW t \in TxIDs, txns'[t] # None
        PROVE  /\ \E k \in Slots : idem'[k] # None /\ idem'[k].txn = t
               /\ EventOf(t, txns'[t]) \in outbox'
    <3>1. CASE t = t0
      BY <1>1, <1>3, <1>5, <1>8, <1>10, <3>1
    <3>2. CASE t # t0
      BY <1>1, <1>5, <1>6, <1>10, <2>1, <3>2 DEF PaymentsAreAtomic
    <3>3. QED
      BY <3>1, <3>2
  <2>2. \A k \in Slots : idem[k] # None => idem[k].txn # t0
    BY <1>5, <1>6, SchemaAssumption DEF PaymentsAreAtomic
  <2>3. \A k, l \in Slots :
          idem'[k] # None /\ idem'[l] # None /\ idem'[k].txn = idem'[l].txn
              => k = l \/ idem'[k].txn = None
    BY <1>3, <1>6, <1>10, <2>2 DEF PaymentsAreAtomic
  <2>4. ASSUME NEW k \in Slots, idem'[k] # None
        PROVE  /\ idem'[k].state = "completed"
               /\ idem'[k].txn = None <=> k[1] = "create"
               /\ idem'[k].txn # None => txns'[idem'[k].txn] # None
    <3>1. CASE k = k0
      BY <1>1, <1>2, <1>3, <1>10, <3>1, SchemaAssumption
    <3>2. CASE k # k0
      <4>1. idem'[k] = idem[k] /\ idem[k] \in IdemRows
        BY <1>6, <1>10, <2>4, <3>2 DEF TypeOK
      <4>2. idem[k].txn # None => idem[k].txn \in TxIDs \ {t0}
        BY <2>2, <2>4, <4>1 DEF IdemRows
      <4>3. QED
        BY <1>6, <1>10, <2>4, <4>1, <4>2 DEF PaymentsAreAtomic
    <3>3. QED
      BY <3>1, <3>2
  <2>5. ASSUME NEW e \in outbox'
        PROVE  txns'[e.txn] # None /\ e = EventOf(e.txn, txns'[e.txn])
    <3>1. CASE e = event
      BY <1>2, <1>4, <1>8, <1>10, <3>1
    <3>2. CASE e # event
      <4>1. e \in outbox /\ e.txn \in TxIDs
        BY <1>5, <1>6, <2>5, <3>2 DEF TypeOK, Events
      <4>2. txns[e.txn] # None /\ e = EventOf(e.txn, txns[e.txn])
        BY <1>6, <4>1 DEF PaymentsAreAtomic
      <4>3. txns'[e.txn] = txns[e.txn]
        BY <1>5, <1>10, <4>1, <4>2
      <4>4. QED
        BY <4>2, <4>3
    <3>3. QED
      BY <3>1, <3>2
  <2>6. QED
    BY <2>1, <2>3, <2>4, <2>5 DEF PaymentsAreAtomic
<1>14. \A t \in TxIDs : txns[t] # None => txns'[t] = txns[t]
  BY <1>5, <1>10
<1>15. ASSUME NEW o \in TxIDs, o # row.reverses
       PROVE  ReversalsOf(txns', o) = ReversalsOf(txns, o)
  BY <1>2, <1>5, <1>10, <1>15 DEF ReversalsOf
<1>16. ReversedAtMostOnce'
  <2>1. SUFFICES ASSUME NEW r \in TxIDs, txns'[r] # None
                 PROVE  /\ txns'[r].kind = "reversal" <=> txns'[r].reverses # None
                        /\ txns'[r].reverses # None =>
                             LET o == txns'[r].reverses IN
                             /\ txns'[o] # None
                             /\ txns'[o].kind # "reversal"
                             /\ txns'[r].entries = MirroredEntries(txns'[o].entries)
                             /\ ReversalsOf(txns', o) = {r}
    BY DEF ReversedAtMostOnce, ReversalsOf
  <2>2. CASE r = t0
    <3>1. CASE cmd.op = "transfer"
      BY <1>2, <1>10, <2>2, <3>1
    <3>2. CASE cmd.op = "reverse"
      <4>1. row.kind = "reversal" /\ row.reverses = cmd.original
            /\ cmd.original # None
        BY <1>2, <1>9, <3>2, SchemaAssumption
      <4>2. txns'[cmd.original] = txns[cmd.original]
        BY <1>9, <1>14, <3>2
      <4>3. ReversalsOf(txns', cmd.original) = {t0}
        BY <1>2, <1>5, <1>9, <1>10, <3>2, <4>1 DEF ReversalsOf
      <4>4. QED
        BY <1>2, <1>9, <1>10, <2>2, <3>2, <4>1, <4>2, <4>3
    <3>3. QED
      BY <1>1, <3>1, <3>2
  <2>3. CASE r # t0
    <3> DEFINE o == txns[r].reverses
    <3>1. txns'[r] = txns[r] /\ txns[r] \in TxRows /\ txns[r] # None
      BY <1>6, <1>10, <2>1, <2>3 DEF TypeOK
    <3>2. /\ txns[r].kind = "reversal" <=> o # None
          /\ o # None => /\ txns[o] # None
                         /\ txns[o].kind # "reversal"
                         /\ txns[r].entries = MirroredEntries(txns[o].entries)
                         /\ ReversalsOf(txns, o) = {r}
      BY <1>6, <3>1 DEF ReversedAtMostOnce
    <3>3. o # None => o \in TxIDs
      BY <3>1 DEF TxRows
    <3>4. o # None => txns'[o] = txns[o]
      BY <1>14, <3>2, <3>3
    <3>5. o # None => o # row.reverses
      BY <1>2, <1>9, <3>2
    <3>6. o # None => ReversalsOf(txns', o) = {r}
      BY <1>15, <3>2, <3>3, <3>5
    <3>7. QED
      BY <3>1, <3>2, <3>4, <3>6
  <2>4. QED
    BY <2>2, <2>3
<1>17. RecordStored(s)
  BY <1>3, <1>10 DEF RecordStored, k0
<1>18. StableFor(s)
  <2>1. /\ \A k \in Slots \ {Slot(req[s])} : idem'[k] = idem[k]
        /\ \A k \in Slots : idem[k] # None => idem'[k] = idem[k]
    BY <1>1, <1>10 DEF k0
  <2>2. ASSUME NEW u \in Sessions \ {s}, NEW a \in AccountIDs, rowLock[a] = u
        PROVE  balances'[a] = balances[a]
    <3>1. a \notin AccountsOf(row.entries)
      BY <1>1, <1>2, <2>2
    <3>2. QED
      BY <1>5, <1>6, <3>1, AppliedElsewhere DEF TypeOK
  <2>3. ASSUME NEW u \in Sessions \ {s}, pc[u] = "commit", req[u].op = "reverse"
        PROVE  ReversalsOf(txns', req[u].original) =
               ReversalsOf(txns, req[u].original)
    <3>1. req[u].original \in TxIDs /\ ~InsertConflict(u, s)
      BY <2>3, AtCommit DEF Inv, SessionInv, VerdictOf
    <3>2. req[u].original # row.reverses
      BY <1>2, <2>3, <3>1, SchemaAssumption DEF InsertConflict
    <3>3. QED
      BY <1>15, <3>1, <3>2
  <2>4. QED
    BY <1>5, <1>14, <2>1, <2>2, <2>3 DEF StableFor
<1>19. QED
  BY <1>11, <1>12, <1>13, <1>16, <1>17, <1>18 DEF TablesInv

\* What the commit of a session does to the tables.
LEMMA CommitTables ==
    ASSUME Inv, NEW s \in Sessions, Commit(s)
    PROVE  TablesInv' /\ RecordStored(s) /\ StableFor(s)
<1>1. pc[s] = "commit"
  BY DEF Commit
<1>2. CASE req[s].op = "create"
  BY <1>1, <1>2, AccountCommits DEF Commit
<1>3. CASE req[s].op # "create"
  <2>1. PICK t \in TxIDs : CommitTransaction(req[s], t)
    BY <1>3 DEF Commit
  <2>2. QED
    BY <1>1, <1>3, <2>1, TransactionCommits
<1>4. QED
  BY <1>2, <1>3

\* Commit preserves the invariant: of the tables, of the session that commits
\* and of every session that waits for it or runs beside it.
LEMMA CommitStep ==
    ASSUME Inv, NEW s \in Sessions, Commit(s)
    PROVE  Inv'
<1>1. TablesInv' /\ RecordStored(s) /\ StableFor(s) /\ pc[s] = "commit"
  BY CommitTables DEF Commit
<1>2. /\ ReleaseLocks(s)
      /\ \/ AnswerCreated(s, idem'[Slot(req[s])].body, FALSE) /\ Goto(s, "finish")
         \/ AnswerError(s, "internal_error") /\ Goto(s, "respond")
      /\ UNCHANGED <<cache, req, attempt>>
  BY DEF Commit
<1>3. /\ Frame(s)
      /\ SessionInv(s)'
      /\ pc'[s] \in {"finish", "respond"}
      /\ keyLock' \in [LockIDs -> Sessions \cup {None}]
      /\ rowLock' \in [AccountIDs -> Sessions \cup {None}]
      /\ toLock' \in [Sessions -> SUBSET AccountIDs]
      /\ pc' \in [Sessions -> InTxPC \cup {"idle", "lookup", "finish", "respond"}]
      /\ reply' \in [Sessions -> Replies \cup {None}]
  BY <1>1, <1>2, CommitSession DEF RecordStored
<1>4. TypeOK'
  BY <1>1, <1>2, <1>3 DEF TypeOK, TablesInv, Inv
<1>5. CacheAgreesWithTable'
  BY <1>1, <1>2 DEF CacheAgreesWithTable, StableFor, Inv
<1>6. \A u \in Sessions \ {s} : SessionInv(u)'
  BY <1>1, <1>3, OthersAfterCommit DEF ClaimedPC
<1>7. QED
  BY <1>1, <1>3, <1>4, <1>5, <1>6 DEF Inv, TablesInv

\* Every step preserves the invariant.
LEMMA NextInv ==
    ASSUME Inv, [Next]_vars
    PROVE  Inv'
<1>1. ASSUME NEW s \in Sessions, NEW cmd \in Commands, Receive(s, cmd)
      PROVE  Inv'
  BY <1>1, ReceiveStep
<1>2. ASSUME NEW s \in Sessions, Step(s)
      PROVE  Inv'
  <2>1. CASE CacheHit(s)
    BY <2>1, CacheHitStep
  <2>2. CASE CacheMiss(s)
    BY <2>2, CacheMissStep
  <2>3. CASE LockKey(s)
    BY <2>3, LockKeyStep
  <2>4. CASE Claim(s)
    BY <2>4, ClaimStep
  <2>5. CASE Replay(s)
    BY <2>5, ReplayStep
  <2>6. CASE LoadOriginal(s)
    BY <2>6, LoadOriginalStep
  <2>7. CASE \E a \in AccountIDs : LockBalance(s, a)
    BY <2>7, LockBalanceStep
  <2>8. CASE Post(s)
    BY <2>8, PostStep
  <2>9. CASE Commit(s)
    BY <2>9, CommitStep
  <2>10. CASE Finish(s)
    BY <2>10, FinishStep
  <2>11. CASE LoseResult(s)
    BY <2>11, LoseResultStep
  <2>12. CASE Respond(s)
    BY <2>12, LeaveStep
  <2>13. CASE RetryableError(s)
    BY <2>13, RetryableErrorStep
  <2>14. QED
    BY <1>2, <2>1, <2>2, <2>3, <2>4, <2>5, <2>6, <2>7, <2>8, <2>9, <2>10,
       <2>11, <2>12, <2>13 DEF Step
<1>3. ASSUME NEW s \in Sessions, Abort(s)
      PROVE  Inv'
  BY <1>3, AbortStep
<1>4. ASSUME NEW s \in Sessions, Crash(s)
      PROVE  Inv'
  BY <1>4, LeaveStep
<1>5. ASSUME NEW k \in Slots, Evict(k)
      PROVE  Inv'
  BY <1>5, EvictStep
<1>6. CASE UNCHANGED vars
  <2> USE <1>6 DEF vars, tables, locks
  <2>1. TypeOK' /\ NonNegativeBalances' /\ CacheAgreesWithTable'
    BY DEF Inv, TypeOK, NonNegativeBalances, CacheAgreesWithTable
  <2>2. PaymentsAreAtomic' /\ ReversedAtMostOnce'
    BY DEF Inv, PaymentsAreAtomic, ReversedAtMostOnce, ReversalsOf
  <2>3. ASSUME NEW s \in Sessions
        PROVE  SessionInv(s)'
    <3>1. SessionInv(s)
      BY DEF Inv
    <3>2. ShapeOf(s)' /\ ClaimOf(s)' /\ ReplyIsDurable(s)'
      BY <3>1 DEF SessionInv, ShapeOf, ClaimOf, HoldsClaim, ReplyIsDurable
    <3>3. LocksOf(s)'
      BY <3>1 DEF SessionInv, LocksOf, LockSet
    <3>4. VerdictOf(s)'
      BY <3>1 DEF SessionInv, VerdictOf, InsertConflict
    <3>5. QED
      BY <3>2, <3>3, <3>4 DEF SessionInv
  <2>4. QED
    BY <2>1, <2>2, <2>3 DEF Inv
<1>7. QED
  BY <1>1, <1>2, <1>3, <1>4, <1>5, <1>6 DEF Next

(***************************************************************************)
(* The theorems.                                                           *)
(***************************************************************************)

\* The inductive invariant holds in every reachable state.
THEOREM InvariantHolds == Spec => []Inv
<1>1. Init => Inv
  BY InitInv
<1>2. Inv /\ [Next]_vars => Inv'
  BY NextInv
<1>3. QED
  BY <1>1, <1>2, PTL DEF Spec

\* Type correctness: in particular no transaction is attempted more than
\* MaxRetries times.
THEOREM TypeCorrect == Spec => []TypeOK
<1>1. Inv => TypeOK
  BY DEF Inv
<1>2. QED
  BY <1>1, InvariantHolds, PTL

\* No account without overdraft ever has a negative committed balance, for any
\* number of concurrent transfers, reversals, retries and crashes (the CHECK
\* constraint together with the row locks of lockBalances).
THEOREM BalancesStayNonNegative == Spec => []NonNegativeBalances
<1>1. Inv => NonNegativeBalances
  BY DEF Inv
<1>2. QED
  BY <1>1, InvariantHolds, PTL

\* A transaction, its idempotency record and its outbox event exist together
\* or not at all, and one to one (Transfer and Reverse inside InTx).
THEOREM PaymentsCommitAtomically == Spec => []PaymentsAreAtomic
<1>1. Inv => PaymentsAreAtomic
  BY DEF Inv
<1>2. QED
  BY <1>1, InvariantHolds, PTL

\* A transaction is reversed at most once, by its mirror (Reverse and the
\* index ledger_transactions_one_reversal).
THEOREM ReversalIsUnique == Spec => []ReversedAtMostOnce
<1>1. Inv => ReversedAtMostOnce
  BY DEF Inv
<1>2. QED
  BY <1>1, InvariantHolds, PTL

\* A response is sent only once it is durable, and it is the stored one
\* (replayResult, replayFromCache and finishIdempotent).
THEOREM ResponsesAreDurable == Spec => []RepliesAreDurable
<1>1. Inv => RepliesAreDurable
  BY DEF Inv, SessionInv, RepliesAreDurable
<1>2. QED
  BY <1>1, InvariantHolds, PTL

\* Redis never disagrees with idempotency_records (Cache.Put and Cache.Get).
THEOREM CacheIsCoherent == Spec => []CacheAgreesWithTable
<1>1. Inv => CacheAgreesWithTable
  BY DEF Inv
<1>2. QED
  BY <1>1, InvariantHolds, PTL

(***************************************************************************)
(* Steps and refinement.                                                   *)
(***************************************************************************)

\* Only Commit changes a table.
LEMMA OnlyCommitsWrite ==
    ASSUME [Next]_vars
    PROVE  UNCHANGED tables \/ \E s \in Sessions : Commit(s)
<1> USE DEF tables
<1>1. ASSUME NEW s \in Sessions, NEW cmd \in Commands, Receive(s, cmd)
      PROVE  UNCHANGED tables
  BY <1>1 DEF Receive
<1>2. ASSUME NEW s \in Sessions, Step(s), ~Commit(s)
      PROVE  UNCHANGED tables
  BY <1>2 DEF Step, CacheHit, CacheMiss, LockKey, Claim, Replay, LoadOriginal,
     LockBalance, Post, Finish, LoseResult, Respond, RetryableError, RollBack
<1>3. ASSUME NEW s \in Sessions, Abort(s) \/ Crash(s)
      PROVE  UNCHANGED tables
  BY <1>3 DEF Abort, Crash, RollBack
<1>4. ASSUME NEW k \in Slots, Evict(k)
      PROVE  UNCHANGED tables
  BY <1>4 DEF Evict
<1>5. QED
  BY <1>1, <1>2, <1>3, <1>4 DEF Next, vars

\* Committed rows are never changed or removed.
THEOREM LedgerIsAppendOnly == Spec => AppendOnly
<1> DEFINE Kept ==
        /\ \A a \in AccountIDs : accounts[a] # None => accounts'[a] = accounts[a]
        /\ \A t \in TxIDs : txns[t] # None => txns'[t] = txns[t]
        /\ \A k \in Slots : idem[k] # None => idem'[k] = idem[k]
        /\ outbox \subseteq outbox'
<1>1. Inv /\ [Next]_vars => Kept
  <2>1. SUFFICES ASSUME Inv, [Next]_vars PROVE Kept
    OBVIOUS
  <2>2. CASE UNCHANGED tables
    BY <2>2 DEF tables
  <2>3. ASSUME NEW s \in Sessions, Commit(s)
        PROVE  Kept
    <3>1. StableFor(s)
      BY <2>1, <2>3, CommitTables
    <3>2. outbox \subseteq outbox'
      BY <2>3 DEF Commit, CommitAccount, CommitTransaction
    <3>3. QED
      BY <3>1, <3>2 DEF StableFor
  <2>4. QED
    BY <2>1, <2>2, <2>3, OnlyCommitsWrite
<1>2. QED
  BY <1>1, InvariantHolds, PTL DEF Spec, AppendOnly

\* Accounts that do not exist stay without a balance.
LEMMA MissingStayEmpty == Spec => []MissingAreEmpty
<1>1. Init => MissingAreEmpty
  BY DEF Init, MissingAreEmpty
<1>2. Inv /\ MissingAreEmpty /\ [Next]_vars => MissingAreEmpty'
  <2>1. SUFFICES ASSUME Inv, MissingAreEmpty, [Next]_vars PROVE MissingAreEmpty'
    OBVIOUS
  <2>2. CASE UNCHANGED tables
    BY <2>1, <2>2 DEF MissingAreEmpty, tables
  <2>3. ASSUME NEW s \in Sessions, Commit(s)
        PROVE  MissingAreEmpty'
    <3>1. CASE req[s].op = "create"
      BY <2>1, <2>3, <3>1, CommandTypes, NoneAssumption, AtCommit
      DEF Commit, CommitAccount, MissingAreEmpty, Inv, TypeOK
    <3>2. CASE req[s].op # "create"
      <4> DEFINE es == TransactionRow(req[s], accounts, txns).entries
      <4>1. accounts' = accounts /\ balances' = Applied(balances, es)
        BY <2>3, <3>2 DEF Commit, CommitTransaction
      <4>2. \A a \in AccountsOf(es) : accounts[a] # None
        BY <2>1, <2>3, <3>2, CommittedRow, AtCommit DEF Commit
      <4> HIDE DEF es
      <4>3. QED
        BY <2>1, <4>1, <4>2, AppliedElsewhere DEF MissingAreEmpty, Inv, TypeOK
    <3>3. QED
      BY <3>1, <3>2
  <2>4. QED
    BY <2>1, <2>2, <2>3, OnlyCommitsWrite
<1>3. QED
  BY <1>1, <1>2, InvariantHolds, PTL DEF Spec

\* Postings that cancel out and violate no constraint keep balances in the
\* range of BIGINT.
LEMMA AcceptedRange ==
    ASSUME NEW acc, NEW bal \in [AccountIDs -> Int],
           NEW es \in Entries \X Entries, ZeroSum(es),
           \A i \in 1..2 : ~Rejected(acc, bal, es[i]),
           NEW a \in AccountIDs, bal[a] \in (-BigIntMax - 1)..BigIntMax
    PROVE  Applied(bal, es)[a] \in (-BigIntMax - 1)..BigIntMax
<1>1. /\ es[1].account \in AccountIDs /\ es[1].amount \in Int
      /\ es[2].account \in AccountIDs /\ es[2].amount \in Int
  BY DEF Entries
<1>2. es[1].account = a => bal[a] + es[1].amount \in (-BigIntMax - 1)..BigIntMax
  BY <1>1 DEF Rejected, Overflows
<1>3. es[2].account = a => bal[a] + es[2].amount \in (-BigIntMax - 1)..BigIntMax
  BY <1>1 DEF Rejected, Overflows
<1>4. Applied(bal, es)[a] = bal[a] + Delta(es, a)
  BY DEF Applied
<1>5. BigIntMax \in Nat
  BY SchemaAssumption
<1>6. QED
  BY <1>1, <1>2, <1>3, <1>4, <1>5 DEF Delta, ZeroSum

\* No committed balance leaves the range of BIGINT.
THEOREM BalancesNeverOverflow == Spec => []BalancesFitBigInt
<1>0. BigIntMax \in Nat
  BY SchemaAssumption
<1>1. Init => BalancesFitBigInt
  <2>1. Init => \A a \in AccountIDs : balances[a] = 0
    <3>1. Init => balances = [a \in AccountIDs |-> 0]
      BY DEF Init
    <3>2. QED
      BY <3>1
  <2>2. 0 \in (-BigIntMax - 1)..BigIntMax
    BY <1>0
  <2>3. QED
    BY <2>1, <2>2 DEF BalancesFitBigInt
<1>2. Inv /\ BalancesFitBigInt /\ [Next]_vars => BalancesFitBigInt'
  <2>1. SUFFICES ASSUME Inv, BalancesFitBigInt, [Next]_vars
                 PROVE  BalancesFitBigInt'
    OBVIOUS
  <2>2. CASE UNCHANGED tables
    BY <2>1, <2>2 DEF BalancesFitBigInt, tables
  <2>3. ASSUME NEW s \in Sessions, Commit(s)
        PROVE  BalancesFitBigInt'
    <3>1. CASE req[s].op = "create"
      <4>1. balances' = [balances EXCEPT ![req[s].account] = 0]
        BY <2>3, <3>1 DEF Commit, CommitAccount
      <4>2. QED
        BY <1>0, <2>1, <4>1 DEF BalancesFitBigInt, Inv, TypeOK
    <3>2. CASE req[s].op # "create"
      <4> DEFINE row == TransactionRow(req[s], accounts, txns)
      <4>1. balances' = Applied(balances, row.entries) /\ ZeroSum(row.entries)
        BY <2>3, <3>2 DEF Commit, CommitTransaction
      <4>2. /\ row \in TxRows
            /\ \A i \in 1..2 : ~Rejected(accounts, balances, row.entries[i])
        BY <2>1, <2>3, <3>2, CommittedRow DEF Commit
      <4> HIDE DEF row
      <4>3. row.entries \in Entries \X Entries
        BY <4>2 DEF TxRows
      <4>4. QED
        BY <2>1, <4>1, <4>2, <4>3, AcceptedRange DEF BalancesFitBigInt, Inv, TypeOK
    <3>3. QED
      BY <3>1, <3>2
  <2>4. QED
    BY <2>1, <2>2, <2>3, OnlyCommitsWrite
<1>3. QED
  BY <1>1, <1>2, InvariantHolds, PTL DEF Spec

\* A commit is one step of the atomic ledger.
LEMMA CommitIsAtomic ==
    ASSUME Inv, NEW s \in Sessions, Commit(s)
    PROVE  Atomic!Next
<1> DEFINE cmd == req[s]
<1>1. /\ cmd \in Commands /\ Valid(cmd) /\ idem[Slot(cmd)] = None
      /\ Refusal(cmd, accounts, balances, txns) = None
      /\ cmd.op = "transfer" =>
            accounts[cmd.source] # None /\ accounts[cmd.destination] # None
      /\ cmd.op = "reverse" =>
            txns[cmd.original] # None /\ txns[cmd.original].kind # "reversal"
  BY AtCommit, NoneAssumption DEF Commit, LockSet
<1>2. Atomic!Valid(cmd) /\ Atomic!Slot(cmd) = Slot(cmd)
  BY <1>1 DEF Valid, Atomic!Valid, Slot, Atomic!Slot
<1>3. Atomic!Refusal(cmd, accounts, balances, txns) = None
  BY <1>1 DEF Refusal, Atomic!Refusal, CreateRefusal, Atomic!CreateRefusal,
     TransferRefusal, Atomic!TransferRefusal, ReverseRefusal,
     Atomic!ReverseRefusal, BalanceRefusal, Atomic!BalanceRefusal,
     Rejected, Atomic!Rejected, CheckFails, Atomic!CheckFails, Overflows,
     Atomic!Overflows, TransferEntries, Atomic!TransferEntries,
     MirroredEntries, Atomic!MirroredEntries, Mirror, Atomic!Mirror,
     ReversalsOf, Atomic!ReversalsOf
<1>4. Atomic!Admissible(cmd)
  BY <1>1, <1>2, <1>3 DEF Atomic!Admissible
<1>5. Atomic!Execute(cmd)
  <2>1. CASE cmd.op = "create"
    <3>1. CommitAccount(cmd)
      BY <2>1 DEF Commit
    <3>2. Atomic!CreateAccount(cmd)
      BY <2>1, <3>1 DEF CommitAccount, Atomic!CreateAccount, AccountRow,
         Atomic!AccountRow, CompletedRecord, Atomic!CompletedRecord,
         RenderedAccount, Atomic!RenderedAccount, RequestHash,
         Atomic!RequestHash, Slot, Atomic!Slot
    <3>3. QED
      BY <3>2 DEF Atomic!Execute
  <2>2. CASE cmd.op # "create"
    <3> DEFINE row == TransactionRow(cmd, accounts, txns)
    <3>1. PICK t \in TxIDs : CommitTransaction(cmd, t)
      BY <2>2 DEF Commit
    <3>2. Atomic!TransactionRow(cmd, accounts, txns) = row
      BY DEF TransactionRow, Atomic!TransactionRow, TransferEntries,
         Atomic!TransferEntries, MirroredEntries, Atomic!MirroredEntries,
         Mirror, Atomic!Mirror
    <3>3. Atomic!EventOf(t, row) = EventOf(t, row)
      BY DEF EventOf, Atomic!EventOf, GrossAmount, Atomic!GrossAmount
    <3>4. Atomic!CompletedRecord(cmd, Atomic!RenderedTransaction(txns, t), t)
          = CompletedRecord(cmd, RenderedTransaction(txns, t), t)
      BY DEF CompletedRecord, Atomic!CompletedRecord, RenderedTransaction,
         Atomic!RenderedTransaction, ReversalsOf, Atomic!ReversalsOf,
         RequestHash, Atomic!RequestHash
    <3>5. /\ Atomic!ZeroSum(row.entries) <=> ZeroSum(row.entries)
          /\ Atomic!Applied(balances, row.entries) = Applied(balances, row.entries)
      BY DEF ZeroSum, Atomic!ZeroSum, Applied, Atomic!Applied, Delta, Atomic!Delta
    <3>6. Atomic!Post(cmd, t)
      BY <1>2, <2>2, <3>1, <3>2, <3>3, <3>4, <3>5
      DEF CommitTransaction, Atomic!Post
    <3>7. QED
      BY <3>6 DEF Atomic!Execute
  <2>3. QED
    BY <2>1, <2>2
<1>6. QED
  BY <1>1, <1>4, <1>5 DEF Atomic!Next

\* Refinement: whatever the sessions, the locks, the retries, the crashes and
\* the cache do, the committed tables behave as the atomic ledger.
THEOREM LedgerRefinesAtomicLedger == Spec => ImplementsAtomicLedger
<1>1. Init => Atomic!Init
  BY DEF Init, Atomic!Init, Slots, Atomic!Slots, Scopes, Atomic!Scopes
<1>2. Inv /\ [Next]_vars => [Atomic!Next]_(Atomic!tables)
  BY OnlyCommitsWrite, CommitIsAtomic DEF tables, Atomic!tables
<1>3. QED
  BY <1>1, <1>2, InvariantHolds, PTL DEF Spec, ImplementsAtomicLedger, Atomic!Spec

(***************************************************************************)
(* No deadlock.                                                            *)
(***************************************************************************)

\* The balances that are still to be locked have an upper bound: a state is
\* reached by finitely many steps, whatever the number of sessions.
WaitsAreBounded ==
    \E m \in Int : \A s \in Sessions : \A a \in toLock[s] : a <= m

\* A session keeps its locks, and what it still has to lock, or ends its
\* transaction and loses them all; the others keep theirs.
KeepsOrReleases(s) ==
    \/ ReleaseLocks(s)
    \/ /\ UNCHANGED <<keyLock, rowLock, toLock>>
       /\ pc[s] \in ClaimedPC \cup {"claim"} => pc'[s] \in ClaimedPC \cup {"claim"}
       /\ pc[s] \in LockingPC => pc'[s] \in LockingPC

\* Such a step preserves the order of the locks.
LEMMA OrderKept ==
    ASSUME Inv, Inv', LocksInOrder, NEW s \in Sessions, KeepsOrReleases(s),
           \A u \in Sessions \ {s} : pc'[u] = pc[u]
    PROVE  LocksInOrder'
<1>1. TypeOK /\ None \notin Sessions
  BY SessionAssumption DEF Inv
<1>2. CASE ReleaseLocks(s)
  <2>1. /\ \A l \in LockIDs : /\ keyLock'[l] # s
                              /\ keyLock'[l] # None => keyLock'[l] = keyLock[l]
        /\ \A a \in AccountIDs : /\ rowLock'[a] # s
                                 /\ rowLock'[a] # None => rowLock'[a] = rowLock[a]
        /\ \A u \in Sessions \ {s} : toLock'[u] = toLock[u]
    BY <1>1, <1>2 DEF ReleaseLocks, TypeOK
  <2>2. QED
    BY <1>1, <2>1 DEF LocksInOrder
<1>3. CASE ~ReleaseLocks(s)
  BY <1>1, <1>3 DEF KeepsOrReleases, LocksInOrder
<1>4. QED
  BY <1>2, <1>3

\* The steps that take no lock, and prepare no lock, are of this kind.
LEMMA OtherSteps ==
    ASSUME Inv, NEW s \in Sessions,
           \/ \E cmd \in Commands : Receive(s, cmd)
           \/ CacheHit(s) \/ CacheMiss(s) \/ Replay(s) \/ Post(s) \/ Commit(s)
           \/ Finish(s) \/ LoseResult(s) \/ Respond(s) \/ RetryableError(s)
           \/ Abort(s) \/ Crash(s)
    PROVE  KeepsOrReleases(s) /\ \A u \in Sessions \ {s} : pc'[u] = pc[u]
<1> USE DEF Inv, TypeOK, Goto, Forget, RollBack, KeepsOrReleases, locks,
            InTxPC, ClaimedPC, LockingPC
<1>1. ASSUME NEW cmd \in Commands, Receive(s, cmd)
      PROVE  KeepsOrReleases(s) /\ \A u \in Sessions \ {s} : pc'[u] = pc[u]
  BY <1>1 DEF Receive
<1>2. CASE CacheHit(s) \/ CacheMiss(s)
  BY <1>2 DEF CacheHit, CacheMiss
<1>3. CASE Replay(s)
  BY <1>3 DEF Replay
<1>4. CASE Post(s)
  BY <1>4 DEF Post
<1>5. CASE Commit(s)
  BY <1>5 DEF Commit
<1>6. CASE Finish(s) \/ LoseResult(s) \/ Respond(s)
  BY <1>6 DEF Finish, LoseResult, Respond
<1>7. CASE RetryableError(s) \/ Abort(s)
  BY <1>7 DEF RetryableError, Abort
<1>8. CASE Crash(s)
  BY <1>8 DEF Crash
<1>9. QED
  BY <1>1, <1>2, <1>3, <1>4, <1>5, <1>6, <1>7, <1>8

\* Taking the advisory lock, claiming the record, loading the original of a
\* reversal and locking a balance keep the order of the locks.
LEMMA LockingSteps ==
    ASSUME Inv, Inv', LocksInOrder, NEW s \in Sessions,
           \/ LockKey(s) \/ Claim(s) \/ LoadOriginal(s)
           \/ \E a \in AccountIDs : LockBalance(s, a)
    PROVE  LocksInOrder'
<1>1. TypeOK /\ TypeOK' /\ None \notin Sessions /\ AccountIDs \subseteq Int
  BY SessionAssumption, SchemaAssumption DEF Inv
<1>2. CASE LockKey(s)
  BY <1>1, <1>2 DEF LockKey, Goto, TypeOK, LocksInOrder, LockingPC
<1>3. CASE Claim(s)
  <2>1. \A a \in AccountIDs : rowLock[a] # s
    BY <1>3 DEF Claim, LocksInOrder, LockingPC
  <2>2. pc'[s] \in ClaimedPC
    BY <1>1, <1>3 DEF Claim, Goto, TypeOK, ClaimedPC
  <2>3. /\ UNCHANGED <<keyLock, rowLock>>
        /\ \A u \in Sessions \ {s} : pc'[u] = pc[u] /\ toLock'[u] = toLock[u]
    BY <1>1, <1>3 DEF Claim, Goto, TypeOK, locks
  <2>4. QED
    BY <2>1, <2>2, <2>3 DEF LocksInOrder
<1>4. CASE LoadOriginal(s)
  <2>1. CASE ReleaseLocks(s) /\ \A u \in Sessions \ {s} : pc'[u] = pc[u]
    BY <2>1, OrderKept DEF KeepsOrReleases
  <2>2. CASE UNCHANGED <<keyLock, rowLock>>
    <3>1. \A a \in AccountIDs : rowLock[a] # s
      BY <1>4 DEF LoadOriginal, LocksInOrder, LockingPC
    <3>2. CASE /\ pc'[s] = "lockbalance"
               /\ \A u \in Sessions \ {s} : /\ pc'[u] = pc[u]
                                            /\ toLock'[u] = toLock[u]
      BY <2>2, <3>1, <3>2 DEF LocksInOrder, ClaimedPC
    <3>3. QED
      BY <1>1, <1>4, <2>1, <3>2 DEF LoadOriginal, RollBack, Goto, TypeOK
  <2>3. QED
    BY <1>1, <1>4, <2>1, <2>2 DEF LoadOriginal, RollBack, Goto, TypeOK, locks
<1>5. ASSUME NEW a \in AccountIDs, LockBalance(s, a)
      PROVE  LocksInOrder'
  <2>1. CASE accounts[a] = None /\ RollBack(s, "unknown_account")
    BY <1>1, <2>1, OrderKept DEF KeepsOrReleases, RollBack, Goto, TypeOK
  <2>2. CASE ~(accounts[a] = None /\ RollBack(s, "unknown_account"))
    <3>1. /\ pc[s] = "lockbalance"
          /\ a \in toLock[s] /\ \A b \in toLock[s] : a <= b
          /\ rowLock' = [rowLock EXCEPT ![a] = s]
          /\ toLock' = [toLock EXCEPT ![s] = @ \ {a}]
          /\ pc'[s] \in {"post", "lockbalance"}
          /\ \A u \in Sessions \ {s} : pc'[u] = pc[u]
          /\ UNCHANGED keyLock
      BY <1>1, <1>5, <2>2 DEF LockBalance, NextToLock, Goto, TypeOK
    <3>2. /\ rowLock'[a] = s
          /\ \A b \in AccountIDs \ {a} : rowLock'[b] = rowLock[b]
          /\ toLock'[s] = toLock[s] \ {a}
          /\ \A u \in Sessions \ {s} : toLock'[u] = toLock[u]
          /\ toLock[s] \subseteq AccountIDs
      BY <1>1, <3>1 DEF TypeOK
    <3>3. \A b \in toLock'[s] : a < b
      BY <1>1, <3>1, <3>2
    <3>4. ASSUME NEW u \in Sessions, NEW b \in AccountIDs, rowLock'[b] = u
          PROVE  pc'[u] \in LockingPC /\ \A c \in toLock'[u] : b < c
      BY <3>1, <3>2, <3>3, <3>4 DEF LocksInOrder, LockingPC
    <3>5. ASSUME NEW u \in Sessions, NEW l \in LockIDs, keyLock'[l] = u
          PROVE  pc'[u] \in ClaimedPC \cup {"claim"}
      BY <3>1, <3>5 DEF LocksInOrder, ClaimedPC
    <3>6. QED
      BY <3>4, <3>5 DEF LocksInOrder
  <2>3. QED
    BY <2>1, <2>2
<1>6. QED
  BY <1>2, <1>3, <1>4, <1>5

\* A step adds at most two balances to those that are still to be locked.
LEMMA FewToLock ==
    ASSUME Inv, [Next]_vars
    PROVE  \E i, j \in Int : \A u \in Sessions :
              toLock'[u] \subseteq toLock[u] \cup {i, j}
<1>1. TypeOK /\ AccountIDs \subseteq Int
  BY SchemaAssumption DEF Inv
<1>2. ASSUME NEW s \in Sessions, NEW x \in AccountIDs, NEW y \in AccountIDs,
             toLock' = [toLock EXCEPT ![s] = {x, y}]
      PROVE  \E i, j \in Int : \A u \in Sessions :
                toLock'[u] \subseteq toLock[u] \cup {i, j}
  <2>1. \A u \in Sessions : toLock'[u] \subseteq toLock[u] \cup {x, y}
    BY <1>1, <1>2 DEF TypeOK
  <2>2. x \in Int /\ y \in Int
    BY <1>1
  <2>3. QED
    BY <2>1, <2>2
<1>3. ASSUME NEW s \in Sessions, ReleaseLocks(s) \/ UNCHANGED toLock
      PROVE  \A u \in Sessions : toLock'[u] \subseteq toLock[u] \cup {0, 0}
  BY <1>1, <1>3 DEF ReleaseLocks, TypeOK
<1>4. ASSUME NEW s \in Sessions, Claim(s)
      PROVE  \E i, j \in Int : \A u \in Sessions :
                toLock'[u] \subseteq toLock[u] \cup {i, j}
  <2>1. CASE req[s].op = "transfer"
    <3>1. req[s].source \in AccountIDs /\ req[s].destination \in AccountIDs
      BY <1>4, <2>1, CommandTypes DEF Claim, Inv, SessionInv, ShapeOf
    <3>2. QED
      BY <1>1, <1>2, <1>4, <2>1, <3>1 DEF Claim
  <2>2. CASE req[s].op # "transfer"
    BY <1>3, <1>4, <2>2 DEF Claim
  <2>3. QED
    BY <2>1, <2>2
<1>5. ASSUME NEW s \in Sessions, LoadOriginal(s)
      PROVE  \E i, j \in Int : \A u \in Sessions :
                toLock'[u] \subseteq toLock[u] \cup {i, j}
  <2>1. CASE ReleaseLocks(s)
    BY <1>3, <2>1
  <2>2. CASE ~ReleaseLocks(s)
    <3> DEFINE row == txns[req[s].original]
    <3>1. row # None /\ toLock' = [toLock EXCEPT ![s] = AccountsOf(row.entries)]
      BY <1>5, <2>2 DEF LoadOriginal, RollBack
    <3>2. req[s].original \in TxIDs
      BY <1>5, CommandTypes DEF LoadOriginal, Inv, SessionInv, ShapeOf
    <3>3. row \in TxRows
      BY <1>1, <3>1, <3>2 DEF TypeOK
    <3>4. /\ row.entries[1].account \in AccountIDs
          /\ row.entries[2].account \in AccountIDs
      BY <3>3 DEF TxRows, Entries
    <3>5. QED
      BY <1>1, <1>2, <3>1, <3>4 DEF AccountsOf
  <2>3. QED
    BY <2>1, <2>2
<1>6. ASSUME NEW s \in Sessions, NEW a \in AccountIDs, LockBalance(s, a)
      PROVE  \A u \in Sessions : toLock'[u] \subseteq toLock[u] \cup {0, 0}
  <2>1. CASE ReleaseLocks(s)
    BY <1>3, <2>1
  <2>2. CASE ~ReleaseLocks(s)
    BY <1>1, <1>6, <2>2 DEF LockBalance, RollBack, TypeOK
  <2>3. QED
    BY <2>1, <2>2
<1>7. ASSUME NEW s \in Sessions,
             \/ \E cmd \in Commands : Receive(s, cmd)
             \/ CacheHit(s) \/ CacheMiss(s) \/ Replay(s) \/ Post(s) \/ Commit(s)
             \/ Finish(s) \/ LoseResult(s) \/ Respond(s) \/ RetryableError(s)
             \/ Abort(s) \/ Crash(s)
      PROVE  \A u \in Sessions : toLock'[u] \subseteq toLock[u] \cup {0, 0}
  BY <1>3, <1>7, OtherSteps DEF KeepsOrReleases
<1>8. CASE UNCHANGED toLock
  BY <1>8
<1>9. QED
  BY <1>4, <1>5, <1>6, <1>7, <1>8 DEF Next, Step, LockKey, Evict, vars

\* Every step keeps the order of the locks and their bound.
LEMMA OrderStep ==
    ASSUME Inv, Inv', LocksInOrder, WaitsAreBounded, [Next]_vars
    PROVE  LocksInOrder' /\ WaitsAreBounded'
<1>1. LocksInOrder'
  <2>1. ASSUME NEW s \in Sessions,
               \/ LockKey(s) \/ Claim(s) \/ LoadOriginal(s)
               \/ \E a \in AccountIDs : LockBalance(s, a)
        PROVE  LocksInOrder'
    BY <2>1, LockingSteps
  <2>2. ASSUME NEW s \in Sessions,
               \/ \E cmd \in Commands : Receive(s, cmd)
               \/ CacheHit(s) \/ CacheMiss(s) \/ Replay(s) \/ Post(s) \/ Commit(s)
               \/ Finish(s) \/ LoseResult(s) \/ Respond(s) \/ RetryableError(s)
               \/ Abort(s) \/ Crash(s)
        PROVE  LocksInOrder'
    BY <2>2, OtherSteps, OrderKept
  <2>3. CASE UNCHANGED <<keyLock, rowLock, toLock, pc>>
    BY <2>3 DEF LocksInOrder
  <2>4. QED
    BY <2>1, <2>2, <2>3 DEF Next, Step, Evict, vars, locks
<1>2. WaitsAreBounded'
  <2>1. PICK m \in Int : \A s \in Sessions : \A a \in toLock[s] : a <= m
    BY DEF WaitsAreBounded
  <2>2. PICK i, j \in Int : \A u \in Sessions :
            toLock'[u] \subseteq toLock[u] \cup {i, j}
    BY FewToLock
  <2>3. PICK n \in Int : m <= n /\ i <= n /\ j <= n
    <3>1. CASE i <= m /\ j <= m
      BY <3>1
    <3>2. CASE m <= i /\ j <= i
      BY <3>2
    <3>3. CASE m <= j /\ i <= j
      BY <3>3
    <3>4. QED
      BY <3>1, <3>2, <3>3
  <2>4. ASSUME NEW s \in Sessions, NEW a \in toLock'[s]
        PROVE  a <= n
    <3>1. toLock[s] \subseteq Int
      BY SchemaAssumption DEF Inv, TypeOK
    <3>2. CASE a \in toLock[s]
      <4>1. a \in Int /\ a <= m
        BY <2>1, <3>1, <3>2
      <4>2. QED
        BY <2>3, <4>1
    <3>3. CASE a \in {i, j}
      BY <2>3, <3>3
    <3>4. QED
      BY <2>2, <2>4, <3>2, <3>3
  <2>5. QED
    BY <2>4 DEF WaitsAreBounded
<1>3. QED
  BY <1>1, <1>2

\* A session waits only for one that is further on: for a claim or a lock on
\* balances, or, when it locks balances itself, for one that locks a greater
\* balance next, or for one that waits for nobody.
LEMMA WaitingOrder ==
    ASSUME Inv, LocksInOrder, NEW S \in SUBSET Sessions,
           \A s \in S : \E t \in S : WaitsFor(s, t)
    PROVE  /\ \A s \in S : pc[s] \in {"lockkey", "claim", "lockbalance"}
           /\ \A s \in S : pc[s] = "claim" => \E t \in S : pc[t] = "lockbalance"
           /\ \A s \in S : pc[s] = "lockkey" =>
                 \E t \in S : pc[t] \in {"claim", "lockbalance"}
           /\ \A s \in S : pc[s] = "lockbalance" =>
                 \E t \in S, a \in AccountIDs :
                    /\ pc[t] = "lockbalance"
                    /\ NextToLock(s, a)
                    /\ \A b \in toLock[t] : a < b
<1>1. \A s \in S : pc[s] \in {"lockkey", "claim", "lockbalance", "post"}
  BY DEF WaitsFor
<1>2. ASSUME NEW s \in S
      PROVE  pc[s] # "post"
  BY <1>1 DEF WaitsFor, InsertConflict
<1>3. ASSUME NEW s \in S, pc[s] = "claim"
      PROVE  \E t \in S : pc[t] = "lockbalance"
  BY <1>1, <1>2, <1>3 DEF WaitsFor, HoldsClaim, ClaimedPC
<1>4. ASSUME NEW s \in S, pc[s] = "lockkey"
      PROVE  \E t \in S : pc[t] \in {"claim", "lockbalance"}
  <2>1. PICK t \in S : WaitsFor(s, t)
    OBVIOUS
  <2>2. keyLock[KeyHash[Slot(req[s])]] = t
    BY <1>4, <2>1 DEF WaitsFor
  <2>3. KeyHash[Slot(req[s])] \in LockIDs
    BY <1>4, SessionAssumption, CommandTypes DEF Inv, SessionInv, ShapeOf
  <2>4. pc[t] \in ClaimedPC \cup {"claim"}
    BY <2>2, <2>3 DEF LocksInOrder
  <2>5. QED
    BY <1>1, <1>2, <2>4 DEF ClaimedPC
<1>5. ASSUME NEW s \in S, pc[s] = "lockbalance"
      PROVE  \E t \in S, a \in AccountIDs :
                /\ pc[t] = "lockbalance"
                /\ NextToLock(s, a)
                /\ \A b \in toLock[t] : a < b
  <2>1. PICK t \in S : WaitsFor(s, t)
    OBVIOUS
  <2>2. PICK a \in AccountIDs : NextToLock(s, a) /\ rowLock[a] = t
    BY <1>5, <2>1 DEF WaitsFor
  <2>3. pc[t] \in LockingPC /\ \A b \in toLock[t] : a < b
    BY <2>2 DEF LocksInOrder
  <2>4. pc[t] = "lockbalance"
    BY <1>1, <1>2, <2>3 DEF LockingPC
  <2>5. QED
    BY <2>2, <2>3, <2>4
<1>6. QED
  BY <1>1, <1>2, <1>3, <1>4, <1>5

\* No set of sessions waits for itself: in it would be sessions that lock
\* balances, and one of them would wait for the greatest balance any of them
\* waits for, held by a session that waits for a greater one.
LEMMA OrderedMeansNoDeadlock ==
    ASSUME Inv, LocksInOrder, WaitsAreBounded
    PROVE  NoDeadlock
<1>1. SUFFICES ASSUME NEW S \in SUBSET Sessions, S # {},
                      \A s \in S : \E t \in S : WaitsFor(s, t)
               PROVE  FALSE
  BY DEF NoDeadlock
<1> DEFINE IsNext(a) == \E s \in S : pc[s] = "lockbalance" /\ NextToLock(s, a)
           A == {a \in AccountIDs : IsNext(a)}
<1>2. \A s \in S : pc[s] \in {"lockkey", "claim", "lockbalance"}
  BY <1>1, WaitingOrder
<1>3. PICK s0 \in S : pc[s0] = "lockbalance"
  BY <1>1, <1>2, WaitingOrder
<1>4. \A s \in S : pc[s] = "lockbalance" =>
          \E t \in S, a \in AccountIDs :
             /\ pc[t] = "lockbalance"
             /\ NextToLock(s, a)
             /\ \A b \in toLock[t] : a < b
  BY Zenon, <1>1, WaitingOrder
<1>5. A # {}
  BY <1>3, <1>4
<1>6. PICK m \in Int : \A s \in Sessions : \A a \in toLock[s] : a <= m
  BY DEF WaitsAreBounded
<1>7. A \subseteq Int /\ \A a \in A : a <= m
  BY <1>6, SchemaAssumption DEF NextToLock
<1>8. PICK a \in A : \A b \in A : b <= a
  BY <1>5, <1>7, GreatestOf
<1>9. PICK s \in S : pc[s] = "lockbalance" /\ NextToLock(s, a)
  BY <1>8
<1>10. PICK t \in S, c \in AccountIDs :
          /\ pc[t] = "lockbalance"
          /\ NextToLock(s, c)
          /\ \A b \in toLock[t] : c < b
  BY <1>4, <1>9
<1>11. c = a
  BY <1>7, <1>8, <1>9, <1>10, SchemaAssumption DEF NextToLock
<1>12. PICK b \in AccountIDs : NextToLock(t, b)
  BY <1>4, <1>10
<1>13. b \in A /\ a < b
  BY <1>10, <1>11, <1>12 DEF NextToLock
<1>14. QED
  BY <1>7, <1>8, <1>13

\* No set of sessions waits for itself, for any number of sessions and accounts
\* and however advisory lock keys collide (LockKey, Claim, and lockBalances
\* with its sorted ids), so PostgreSQL never breaks a deadlock of the service.
THEOREM DeadlockFree == Spec => []NoDeadlock
<1>1. Init => LocksInOrder /\ WaitsAreBounded
  <2>1. SUFFICES ASSUME Init PROVE LocksInOrder /\ WaitsAreBounded
    OBVIOUS
  <2>2. LocksInOrder
    BY <2>1, SessionAssumption DEF Init, LocksInOrder
  <2>3. \A s \in Sessions : \A a \in toLock[s] : a <= 0
    BY <2>1 DEF Init
  <2>4. QED
    BY <2>2, <2>3 DEF WaitsAreBounded
<1>2. Inv /\ Inv' /\ LocksInOrder /\ WaitsAreBounded /\ [Next]_vars
      => LocksInOrder' /\ WaitsAreBounded'
  BY OrderStep
<1>3. Inv /\ LocksInOrder /\ WaitsAreBounded => NoDeadlock
  BY OrderedMeansNoDeadlock
<1>4. QED
  BY <1>1, <1>2, <1>3, InvariantHolds, PTL DEF Spec
=============================================================================
