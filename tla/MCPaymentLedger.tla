-------------------------- MODULE MCPaymentLedger ---------------------------
(***************************************************************************)
(* Small instances of PaymentLedger for TLC.  Account 1 is a system        *)
(* account with overdraft, the others are users; t1 .. t4 are transaction  *)
(* ids.                                                                    *)
(***************************************************************************)
EXTENDS Reconciliation, PaymentLedgerInvariant, TLC

Create(k, a) ==
    [op |-> "create", key |-> k, account |-> a, currency |-> "USD",
     kind |-> "user", overdraft |-> FALSE]

Transfer(k, from, to, n) ==
    [op |-> "transfer", key |-> k, source |-> from, destination |-> to,
     amount |-> n, currency |-> "USD"]

Reverse(k, t) == [op |-> "reverse", key |-> k, original |-> t]

SystemRow == [currency |-> "USD", kind |-> "system", overdraft |-> TRUE]

UserRow == [currency |-> "USD", kind |-> "user", overdraft |-> FALSE]

AllSeeded == [a \in AccountIDs |-> IF a = 1 THEN SystemRow ELSE UserRow]

\* Every account but the greatest exists.
LastMissing ==
    [a \in AccountIDs |->
        IF \A b \in AccountIDs : b <= a THEN None ELSE AllSeeded[a]]

\* Payments and reversals: account 2 is funded, perhaps twice, pays account 3,
\* and every transaction may be reversed under either key, a reversal too.
PaymentCommands ==
    {Transfer("k1", 1, 2, 1), Transfer("k2", 1, 2, 1), Transfer("k2", 2, 3, 1)}
    \cup {Reverse(k, t) : k \in {"k1", "k2"}, t \in TxIDs}

\* One key for everything: retries, changed payloads, and every refusal.
RetryCommands ==
    {Create("k1", 2), Create("k1", 3),
     Transfer("k1", 1, 2, 1), Transfer("k1", 1, 3, 1), Transfer("k1", 1, 1, 1),
     [Transfer("k1", 1, 2, 1) EXCEPT !.currency = "EUR"]}
    \cup {Reverse("k1", t) : t \in TxIDs}

\* Two accounts pay each other, and one of them pays a third.
WaitCommands ==
    {Transfer("k1", 1, 2, 1), Transfer("k2", 2, 1, 1), Transfer("k3", 2, 3, 1)}

\* Every slot has an advisory lock of its own.
OwnLocks == [k \in Slots |-> k]

\* The keys k2 and k3 collide.
CollidingLocks == [k \in Slots |-> IF k[2] = "k1" THEN 1 ELSE 2]

Symmetry == Permutations(Sessions) \cup Permutations(TxIDs)
=============================================================================
