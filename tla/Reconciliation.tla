--------------------------- MODULE Reconciliation ---------------------------
(***************************************************************************)
(* The reconciliation job (src/internal/reconciliation/reconcile.go) run   *)
(* at any moment against the live ledger: two queries, each one statement  *)
(* and so on one snapshot of the committed tables, and a report that is    *)
(* clean when both return nothing.                                         *)
(***************************************************************************)
EXTENDS PaymentLedger, FiniteSetsExt

\* The sum of the entries of an account; zero when it has none (LEFT JOIN).
ComputedBalance(a) ==
    MapThenSumSet(LAMBDA t : Delta(txns[t].entries, a),
                  {t \in TxIDs : txns[t] # None})

Mismatches ==
    {a \in AccountIDs : accounts[a] # None /\ balances[a] # ComputedBalance(a)}

\* A transaction has a pair of entries, so the count of entries that the query
\* also looks at is never below two.
UnbalancedTxIDs ==
    {t \in TxIDs : txns[t] # None /\ ~ZeroSum(txns[t].entries)}

\* INVARIANTS 1 and 3: a reconciliation run finds nothing.  The balances are
\* running totals that applyBalanceDelta keeps beside the entries; no sequence
\* of fundings, payments, reversals and new accounts makes the two drift apart.
ReconciliationIsClean == Mismatches = {} /\ UnbalancedTxIDs = {}
=============================================================================
