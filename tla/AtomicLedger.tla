---------------------------- MODULE AtomicLedger ----------------------------
(***************************************************************************)
(* What the ledger promises: every accepted command takes effect in one    *)
(* indivisible step, at most once per idempotency slot, and only from a    *)
(* state in which nothing refuses it.  There are no sessions, locks,       *)
(* retries, failures or caches here; PaymentLedger is shown to implement   *)
(* this module with its committed tables as the state.                     *)
(***************************************************************************)
EXTENDS LedgerSchema

VARIABLES accounts,   \* accounts, by id
          balances,   \* balances.amount, by account id
          txns,       \* ledger_transactions with their ledger_entries, by id
          idem,       \* idempotency_records, by <<scope, key>>
          outbox      \* outbox_events, as the set of events ever written

tables == <<accounts, balances, txns, idem, outbox>>

\* A migrated database in which some accounts have been created.
Init ==
    /\ accounts = Seeded
    /\ balances = [a \in AccountIDs |-> 0]
    /\ txns = [t \in TxIDs |-> None]
    /\ idem = [k \in Slots |-> None]
    /\ outbox = {}

\* A command that is valid, has not been executed, and is not refused.
Admissible(cmd) ==
    /\ Valid(cmd)
    /\ idem[Slot(cmd)] = None
    /\ cmd.op = "transfer" =>
          accounts[cmd.source] # None /\ accounts[cmd.destination] # None
    /\ cmd.op = "reverse" =>
          txns[cmd.original] # None /\ txns[cmd.original].kind # "reversal"
    /\ Refusal(cmd, accounts, balances, txns) = None

\* Service.CreateAccount: the account, its zero balance and the record.
CreateAccount(cmd) ==
    /\ cmd.op = "create"
    /\ accounts' = [accounts EXCEPT ![cmd.account] = AccountRow(cmd)]
    /\ balances' = [balances EXCEPT ![cmd.account] = 0]
    /\ idem' = [idem EXCEPT ![Slot(cmd)] =
                  CompletedRecord(cmd, RenderedAccount(cmd.account), None)]
    /\ UNCHANGED <<txns, outbox>>

\* Service.Transfer and Service.Reverse: the transaction with its postings,
\* the balances, the outbox event and the record, under a fresh id t.
Post(cmd, t) ==
    LET row == TransactionRow(cmd, accounts, txns) IN
    /\ cmd.op # "create"
    /\ txns[t] = None
    /\ ZeroSum(row.entries)
    /\ txns' = [txns EXCEPT ![t] = row]
    /\ balances' = Applied(balances, row.entries)
    /\ outbox' = outbox \cup {EventOf(t, row)}
    /\ idem' = [idem EXCEPT ![Slot(cmd)] =
                  CompletedRecord(cmd, RenderedTransaction(txns, t), t)]
    /\ UNCHANGED accounts

Execute(cmd) ==
    \/ CreateAccount(cmd)
    \/ \E t \in TxIDs : Post(cmd, t)

Next == \E cmd \in Commands : Admissible(cmd) /\ Execute(cmd)

Spec == Init /\ [][Next]_tables
=============================================================================
