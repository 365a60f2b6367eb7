---------------------------- MODULE LedgerSchema ----------------------------
(***************************************************************************)
(* The rows, the constraints and the pure computations shared by the       *)
(* atomic ledger (AtomicLedger) and the ledger the API processes run       *)
(* against PostgreSQL (PaymentLedger):                                     *)
(*                                                                         *)
(*   - the commands a client may send (src/internal/ledger/model.go) and   *)
(*     the idempotency slot and request hash the handlers give them;       *)
(*   - the tables of src/migrations/0001_init.up.sql, as functions from    *)
(*     their primary key to a row or None;                                 *)
(*   - the postings of a transfer and of a reversal, the constraints a     *)
(*     posting must satisfy, and what it does to the balances              *)
(*     (src/internal/ledger/service.go and repo.go).                       *)
(***************************************************************************)
EXTENDS Integers, Sequences

CONSTANTS AccountIDs,   \* account ids; the order of the integers is sort.Strings
          Currencies,   \* ISO currency codes
          Keys,         \* values of the Idempotency-Key header
          TxIDs,        \* UUIDs of ledger transactions
          Commands,     \* the requests clients send
          Seeded,       \* accounts created before the behaviour starts, or None
          BigIntMax,    \* largest BIGINT; the smallest is -BigIntMax - 1
          None          \* SQL NULL, a missing row, a lock nobody holds

CreateCommands == [op : {"create"}, key : Keys, account : AccountIDs,
                   currency : Currencies, kind : {"user", "system"},
                   overdraft : BOOLEAN]

TransferCommands == [op : {"transfer"}, key : Keys, source : AccountIDs,
                     destination : AccountIDs, amount : Int,
                     currency : Currencies]

ReverseCommands == [op : {"reverse"}, key : Keys, original : TxIDs]

AccountRows == [currency : Currencies, kind : {"user", "system"},
                overdraft : BOOLEAN]

ASSUME SchemaAssumption ==
    /\ AccountIDs \subseteq Int
    /\ BigIntMax \in Nat
    /\ Commands \subseteq CreateCommands \cup TransferCommands \cup ReverseCommands
    /\ \A cmd \in Commands :
          cmd.op = "transfer" => cmd.amount \in -BigIntMax..BigIntMax
    /\ Seeded \in [AccountIDs -> AccountRows \cup {None}]
    /\ None \notin TxIDs
    /\ None \notin AccountIDs

(***************************************************************************)
(* Requests.                                                               *)
(***************************************************************************)

\* The operation is the idempotency scope: every handler has its own.
Scopes == {"create", "transfer", "reverse"}

Slots == Scopes \X Keys

Slot(cmd) == <<cmd.op, cmd.key>>

\* SHA-256 of the canonical payload: the command without its key.  SHA-256 is
\* taken to be free of collisions.
RequestHash(cmd) == [cmd EXCEPT !.key = None]

Hashes == {RequestHash(cmd) : cmd \in Commands}

\* CreateAccountCommand.Validate, TransferCommand.Validate.
Valid(cmd) ==
    /\ cmd.op = "create" => (cmd.overdraft => cmd.kind = "system")
    /\ cmd.op = "transfer" => cmd.source # cmd.destination /\ cmd.amount > 0

(***************************************************************************)
(* Rows.                                                                   *)
(***************************************************************************)
Entries == [account : AccountIDs, amount : Int]

\* A transaction with its two postings, in the order of their seq.
TxRows == [kind : {"transfer", "funding", "reversal"}, currency : Currencies,
           reverses : TxIDs \cup {None}, entries : Entries \X Entries]

\* The response body, as far as two renderings of one resource can differ:
\* what it shows and whether the transaction is shown as reversed.
Bodies == [txn : TxIDs \cup {None}, account : AccountIDs \cup {None},
           reversed : BOOLEAN]

IdemRows == [hash : Hashes, state : {"in_progress", "completed"},
             body : Bodies, txn : TxIDs \cup {None}]

Events == [type : {"payment.created", "payment.reversed"}, txn : TxIDs,
           amount : Int, reverses : TxIDs \cup {None}]

(***************************************************************************)
(* Postings.                                                               *)
(***************************************************************************)
TransferEntries(cmd) ==
    << [account |-> cmd.source,      amount |-> -cmd.amount],
       [account |-> cmd.destination, amount |-> cmd.amount] >>

Mirror(e) == [account |-> e.account, amount |-> -e.amount]

MirroredEntries(entries) == << Mirror(entries[1]), Mirror(entries[2]) >>

\* The deferred trigger ledger_entries_balanced.  Its other test, that there are
\* at least two entries, holds of every row here: TxRows has pairs of them.
ZeroSum(entries) == entries[1].amount + entries[2].amount = 0

AccountsOf(entries) == {entries[1].account, entries[2].account}

\* What the two UPDATEs of applyBalanceDelta make of an account's balance.
Delta(entries, a) ==
    (IF entries[1].account = a THEN entries[1].amount ELSE 0)
    + (IF entries[2].account = a THEN entries[2].amount ELSE 0)

\* A mutant of Applied: the second UPDATE is forgotten.
AppliedToFirst(balances, entries) ==
    [balances EXCEPT ![entries[1].account] = @ + entries[1].amount]

Applied(balances, entries) ==
    [a \in AccountIDs |-> balances[a] + Delta(entries, a)]

\* balances_non_negative: CHECK (allow_overdraft OR amount >= 0).
CheckFails(accounts, balances, e) ==
    ~accounts[e.account].overdraft /\ balances[e.account] + e.amount < 0

\* amount + delta leaves the range of BIGINT: PostgreSQL rejects the UPDATE.
Overflows(balances, e) ==
    balances[e.account] + e.amount \notin (-BigIntMax - 1)..BigIntMax

Rejected(accounts, balances, e) ==
    CheckFails(accounts, balances, e) \/ Overflows(balances, e)

\* Mutants of BalanceRefusal: the table is created without its CHECK, and its
\* amount is a type without bounds.
OverflowRefusal(accounts, balances, entries) ==
    IF \E i \in 1..2 : Overflows(balances, entries[i])
    THEN "internal_error" ELSE None

CheckRefusal(accounts, balances, entries) ==
    IF \E i \in 1..2 : CheckFails(accounts, balances, entries[i])
    THEN "insufficient_funds" ELSE None

\* The outcome of applying both postings in ascending account order: None, or
\* the error of the first UPDATE PostgreSQL rejects.
BalanceRefusal(accounts, balances, entries) ==
    LET bad == {i \in 1..2 : Rejected(accounts, balances, entries[i])}
        first == CHOOSE i \in bad :
                     \A j \in bad : entries[i].account <= entries[j].account
    IN  IF bad = {} THEN None
        ELSE IF Overflows(balances, entries[first]) THEN "internal_error"
        ELSE "insufficient_funds"

\* reversalAmount: the sum of the positive entries.
GrossAmount(entries) ==
    (IF entries[1].amount > 0 THEN entries[1].amount ELSE 0)
    + (IF entries[2].amount > 0 THEN entries[2].amount ELSE 0)

(***************************************************************************)
(* Reading a transaction.                                                  *)
(***************************************************************************)
ReversalsOf(txns, t) ==
    {r \in TxIDs : txns[r] # None /\ txns[r].reverses = t}

\* json.Marshal of loadTransaction.
RenderedTransaction(txns, t) ==
    [txn |-> t, account |-> None, reversed |-> ReversalsOf(txns, t) # {}]

RenderedAccount(a) == [txn |-> None, account |-> a, reversed |-> FALSE]

(***************************************************************************)
(* What a successful command writes.                                       *)
(***************************************************************************)

\* The header and postings of a transfer (executeTransfer) or of a reversal.
TransactionRow(cmd, accounts, txns) ==
    IF cmd.op = "transfer"
    THEN [kind     |-> IF accounts[cmd.source].kind = "system"
                       THEN "funding" ELSE "transfer",
          currency |-> cmd.currency,
          reverses |-> None,
          entries  |-> TransferEntries(cmd)]
    ELSE [kind     |-> "reversal",
          currency |-> txns[cmd.original].currency,
          reverses |-> cmd.original,
          entries  |-> MirroredEntries(txns[cmd.original].entries)]

AccountRow(cmd) ==
    [currency |-> cmd.currency, kind |-> cmd.kind, overdraft |-> cmd.overdraft]

\* writeOutboxEvent.  A reversal reports the gross amount of its original, which
\* is that of its own postings: they mirror each other and cancel out.
EventOf(t, row) ==
    [type     |-> IF row.kind = "reversal" THEN "payment.reversed"
                                           ELSE "payment.created",
     txn      |-> t,
     amount   |-> GrossAmount(row.entries),
     reverses |-> row.reverses]

\* idempotency.Complete.
CompletedRecord(cmd, body, t) ==
    [hash |-> RequestHash(cmd), state |-> "completed", body |-> body, txn |-> t]

(***************************************************************************)
(* Why PostgreSQL or the service refuses the writes of a command: None     *)
(* when it does not.                                                       *)
(***************************************************************************)
CreateRefusal(cmd, accounts) ==
    IF accounts[cmd.account] # None THEN "account_exists" ELSE None

TransferRefusal(cmd, accounts, balances) ==
    IF \/ accounts[cmd.source].currency # cmd.currency
       \/ accounts[cmd.destination].currency # cmd.currency
    THEN "currency_mismatch"
    ELSE IF /\ ~accounts[cmd.source].overdraft
            /\ balances[cmd.source] < cmd.amount
    THEN "insufficient_funds"
    ELSE BalanceRefusal(accounts, balances, TransferEntries(cmd))

\* A mutant of ReverseRefusal: there is no unique index on the reversed id.
UnindexedReverseRefusal(cmd, accounts, balances, txns) ==
    BalanceRefusal(accounts, balances, MirroredEntries(txns[cmd.original].entries))

\* The funds of a reversal are checked by PostgreSQL alone, and the unique
\* index ledger_transactions_one_reversal is hit before the balances are.
ReverseRefusal(cmd, accounts, balances, txns) ==
    IF ReversalsOf(txns, cmd.original) # {} THEN "transaction_already_reversed"
    ELSE BalanceRefusal(accounts, balances,
                        MirroredEntries(txns[cmd.original].entries))

Refusal(cmd, accounts, balances, txns) ==
    IF cmd.op = "create" THEN CreateRefusal(cmd, accounts)
    ELSE IF cmd.op = "transfer" THEN TransferRefusal(cmd, accounts, balances)
    ELSE ReverseRefusal(cmd, accounts, balances, txns)
=============================================================================
