------------------------ MODULE ReconciliationProofs ------------------------
(***************************************************************************)
(* The books always balance: the theorem that a reconciliation run finds   *)
(* nothing, for every number of sessions, accounts and transactions.       *)
(***************************************************************************)
EXTENDS Reconciliation, PaymentLedgerProofs

\* The transactions committed to tx, and what each of them does to account a.
Posted(tx) == {t \in TxIDs : tx[t] # None}

Deltas(tx, a) == [t \in Posted(tx) |-> Delta(tx[t].entries, a)]

\* The balance reconciliation computes for account a from the entries in tx.
BalanceFrom(tx, a) ==
    MapThenSumSet(LAMBDA t : Delta(tx[t].entries, a), Posted(tx))

\* It is the sum of what the transactions do to the account, in any order.
LEMMA BalanceIsSum ==
    ASSUME NEW tx \in [TxIDs -> TxRows \cup {None}], IsFiniteSet(Posted(tx)),
           NEW a \in AccountIDs
    PROVE  \E g : /\ IsSum(g, Deltas(tx, a), Posted(tx))
                  /\ BalanceFrom(tx, a) = g[Posted(tx)]
<1> DEFINE S == Posted(tx)
           f == Deltas(tx, a)
           Fold(g) == [s \in SUBSET S |->
                         IF s = {} THEN 0
                         ELSE Delta(tx[Pick(s)].entries, a) + g[s \ {Pick(s)}]]
           g == CHOOSE g : g = Fold(g)
<1>1. \A t \in S : f[t] \in Int
  <2>1. ASSUME NEW t \in S
        PROVE  f[t] \in Int
    <3>1. tx[t].entries \in Entries \X Entries
      BY DEF Posted, TxRows
    <3>2. QED
      BY <3>1, DeltaType DEF Deltas
  <2>2. QED
    BY <2>1
<1>2. PICK h : IsSum(h, f, S)
  BY <1>1, SumExists
<1>3. \A s \in SUBSET S : s # {} => f[Pick(s)] = Delta(tx[Pick(s)].entries, a)
  BY PickType DEF Deltas
<1>4. h = Fold(h)
  BY <1>2, <1>3 DEF IsSum, SumRule
<1>5. g = Fold(g)
  BY <1>4
<1>6. BalanceFrom(tx, a) = g[S]
  BY Zenon DEF BalanceFrom, MapThenSumSet, MapThenFoldSet, Pick
<1>7. SumRule(g, f, S)
  BY <1>3, <1>5 DEF SumRule
<1>8. \A s \in SUBSET S : g[s] = h[s]
  BY <1>2, <1>7, SumIsUnique, FS_Subset DEF IsSum
<1>9. g \in [SUBSET S -> Int]
  BY <1>2, <1>5, <1>8 DEF IsSum
<1>10. QED
  BY <1>6, <1>7, <1>9 DEF IsSum

\* Without transactions every balance is zero.
LEMMA NothingPosted ==
    ASSUME NEW tx \in [TxIDs -> TxRows \cup {None}], Posted(tx) = {},
           NEW a \in AccountIDs
    PROVE  BalanceFrom(tx, a) = 0
<1>1. IsFiniteSet(Posted(tx))
  BY FS_EmptySet
<1>2. PICK g : IsSum(g, Deltas(tx, a), Posted(tx))
               /\ BalanceFrom(tx, a) = g[Posted(tx)]
  BY <1>1, BalanceIsSum
<1>3. QED
  BY <1>2 DEF IsSum, SumRule

\* A new transaction moves the computed balance of an account by its postings.
LEMMA OneMorePosted ==
    ASSUME NEW tx \in [TxIDs -> TxRows \cup {None}], IsFiniteSet(Posted(tx)),
           NEW t0 \in TxIDs, tx[t0] = None, NEW row \in TxRows,
           NEW tx2, tx2 = [tx EXCEPT ![t0] = row]
    PROVE  /\ IsFiniteSet(Posted(tx2))
           /\ \A a \in AccountIDs :
                 BalanceFrom(tx2, a) = BalanceFrom(tx, a) + Delta(row.entries, a)
<1> DEFINE P == Posted(tx)
           Q == Posted(tx2)
<1>1. /\ tx2 \in [TxIDs -> TxRows \cup {None}]
      /\ tx2[t0] = row
      /\ \A t \in TxIDs \ {t0} : tx2[t] = tx[t]
  OBVIOUS
<1>2. Q = P \cup {t0} /\ t0 \notin P /\ Q \ {t0} = P
  <2>1. row # None
    BY NoneAssumption
  <2>2. t0 \notin P /\ t0 \in Q
    BY <1>1, <2>1 DEF Posted
  <2>3. \A t \in TxIDs \ {t0} : t \in P <=> t \in Q
    BY <1>1 DEF Posted
  <2>4. P \subseteq TxIDs /\ Q \subseteq TxIDs
    BY DEF Posted
  <2> HIDE DEF P, Q
  <2>5. QED
    BY <2>2, <2>3, <2>4
<1>3. IsFiniteSet(Q)
  <2>1. IsFiniteSet(P \cup {t0})
    BY FS_AddElement
  <2>2. QED
    BY Zenon, <1>2, <2>1
<1>4. ASSUME NEW a \in AccountIDs
      PROVE  BalanceFrom(tx2, a) = BalanceFrom(tx, a) + Delta(row.entries, a)
  <2> DEFINE e == Deltas(tx, a)
             f == Deltas(tx2, a)
  <2>1. PICK g : IsSum(g, e, P) /\ BalanceFrom(tx, a) = g[P]
    BY BalanceIsSum
  <2>2. PICK h : IsSum(h, f, Q) /\ BalanceFrom(tx2, a) = h[Q]
    BY <1>1, <1>3, BalanceIsSum
  <2>3. \A t \in P : e[t] = f[t]
    BY <1>1, <1>2 DEF Deltas, Posted
  <2>4. SumRule(g, f, P)
    <3>1. ASSUME NEW s \in SUBSET P, s # {}
          PROVE  g[s] = f[Pick(s)] + g[s \ {Pick(s)}]
      BY <2>1, <2>3, <3>1, PickType DEF IsSum, SumRule
    <3>2. QED
      BY <2>1, <3>1 DEF IsSum, SumRule
  <2>5. \A t \in Q : f[t] \in Int
    <3>1. ASSUME NEW t \in Q
          PROVE  f[t] \in Int
      <4>1. tx2[t].entries \in Entries \X Entries
        BY <1>1 DEF Posted, TxRows
      <4>2. QED
        BY <4>1, DeltaType DEF Deltas
    <3>2. QED
      BY <3>1
  <2>6. f[t0] = Delta(row.entries, a)
    BY <1>1, <1>2 DEF Deltas
  <2> HIDE DEF e, f, P, Q
  <2>7. t0 \in Q /\ P \in SUBSET Q
    BY <1>2
  <2>8. h[Q] = f[t0] + h[P]
    BY <1>2, <1>3, <2>2, <2>5, <2>7, SumRemoves
  <2>9. h[P] = g[P]
    <3>1. IsFiniteSet(P)
      BY DEF P
    <3>2. QED
      BY <2>2, <2>4, <2>7, <3>1, SumIsUnique DEF IsSum
  <2>10. g[P] \in Int /\ f[t0] \in Int
    BY <2>1, <2>5, <2>7 DEF IsSum
  <2>11. QED
    BY <2>1, <2>2, <2>6, <2>8, <2>9, <2>10
<1>5. QED
  BY <1>3, <1>4

(***************************************************************************)
(* The inductive invariant: every balance, also that of an account that    *)
(* does not exist yet, is the sum of its entries, of which there are       *)
(* finitely many in a reachable state.                                     *)
(***************************************************************************)
BooksBalance ==
    /\ IsFiniteSet(Posted(txns))
    /\ \A a \in AccountIDs : balances[a] = BalanceFrom(txns, a)
    /\ \A t \in TxIDs : txns[t] # None => ZeroSum(txns[t].entries)

\* Nothing is posted initially.
LEMMA BooksInit == Init => BooksBalance
<1>1. SUFFICES ASSUME Init PROVE BooksBalance
  OBVIOUS
<1>2. Posted(txns) = {} /\ txns \in [TxIDs -> TxRows \cup {None}]
  BY <1>1 DEF Init, Posted
<1>3. IsFiniteSet(Posted(txns))
  BY <1>2, FS_EmptySet
<1>4. \A a \in AccountIDs : balances[a] = BalanceFrom(txns, a)
  BY <1>1, <1>2, NothingPosted DEF Init
<1>5. QED
  BY <1>1, <1>3, <1>4 DEF BooksBalance, Init

\* A commit keeps the books balanced.
LEMMA CommitKeepsBooks ==
    ASSUME Inv, MissingAreEmpty, BooksBalance, NEW s \in Sessions, Commit(s)
    PROVE  BooksBalance'
<1>1. /\ txns \in [TxIDs -> TxRows \cup {None}]
      /\ balances \in [AccountIDs -> Int]
      /\ pc[s] = "commit"
  BY DEF Inv, TypeOK, Commit
<1>2. CASE req[s].op = "create"
  <2>1. balances' = [balances EXCEPT ![req[s].account] = 0] /\ txns' = txns
    BY <1>2 DEF Commit, CommitAccount
  <2>2. balances[req[s].account] = 0
    BY <1>1, <1>2, AtCommit DEF MissingAreEmpty
  <2>3. balances' = balances
    BY <1>1, <2>1, <2>2
  <2>4. QED
    BY <2>1, <2>3 DEF BooksBalance, Posted
<1>3. CASE req[s].op # "create"
  <2> DEFINE row == TransactionRow(req[s], accounts, txns)
  <2>1. PICK t0 \in TxIDs : CommitTransaction(req[s], t0)
    BY <1>3 DEF Commit
  <2>2. /\ txns[t0] = None
        /\ txns' = [txns EXCEPT ![t0] = row]
        /\ ZeroSum(row.entries)
        /\ balances' = Applied(balances, row.entries)
    BY <2>1 DEF CommitTransaction
  <2>3. row \in TxRows
    BY <1>1, <1>3, CommittedRow
  <2> HIDE DEF row
  <2>4. /\ IsFiniteSet(Posted(txns'))
        /\ \A a \in AccountIDs :
              BalanceFrom(txns', a) = BalanceFrom(txns, a) + Delta(row.entries, a)
    <3>1. IsFiniteSet(Posted(txns))
      BY DEF BooksBalance
    <3>2. PICK new : new = [txns EXCEPT ![t0] = row]
      BY Zenon
    <3>3. txns[t0] = None /\ txns \in [TxIDs -> TxRows \cup {None}]
      BY <1>1, <2>2
    <3>4. /\ IsFiniteSet(Posted(new))
          /\ \A a \in AccountIDs :
                BalanceFrom(new, a) = BalanceFrom(txns, a) + Delta(row.entries, a)
      BY ZenonT(60), <2>3, <3>1, <3>2, <3>3, OneMorePosted
    <3>5. txns' = new
      BY <2>2, <3>2
    <3>6. QED
      BY Zenon, <3>4, <3>5
  <2>5. \A a \in AccountIDs : balances'[a] = balances[a] + Delta(row.entries, a)
    BY <2>2 DEF Applied
  <2>6. \A a \in AccountIDs : balances'[a] = BalanceFrom(txns', a)
    BY <2>4, <2>5 DEF BooksBalance
  <2>7. \A t \in TxIDs : txns'[t] # None => ZeroSum(txns'[t].entries)
    BY <1>1, <2>2 DEF BooksBalance
  <2>8. QED
    BY <2>4, <2>6, <2>7 DEF BooksBalance
<1>4. QED
  BY <1>2, <1>3

\* No other step touches balances or transactions.
LEMMA BooksStep ==
    ASSUME Inv, MissingAreEmpty, BooksBalance, [Next]_vars
    PROVE  BooksBalance'
<1>1. CASE UNCHANGED tables
  BY <1>1 DEF BooksBalance, tables, Posted
<1>2. ASSUME NEW s \in Sessions, Commit(s)
      PROVE  BooksBalance'
  BY <1>2, CommitKeepsBooks
<1>3. QED
  BY <1>1, <1>2, OnlyCommitsWrite

\* Whenever the reconciliation job runs, its two queries return nothing: every
\* stored balance equals the sum of the entries of its account, and every
\* transaction sums to zero, whichever sessions are inside a transaction, and
\* for any number of them (reconcile.go, against Commit of the ledger).
THEOREM ReconciliationFindsNothing == Spec => []ReconciliationIsClean
<1>1. Init => BooksBalance
  BY BooksInit
<1>2. Inv /\ MissingAreEmpty /\ BooksBalance /\ [Next]_vars => BooksBalance'
  BY BooksStep
<1>3. BooksBalance => ReconciliationIsClean
  <2>1. SUFFICES ASSUME BooksBalance PROVE ReconciliationIsClean
    OBVIOUS
  <2>2. \A a \in AccountIDs : ComputedBalance(a) = BalanceFrom(txns, a)
    BY Zenon DEF ComputedBalance, BalanceFrom, Posted
  <2>3. QED
    BY <2>1, <2>2 DEF BooksBalance, ReconciliationIsClean, Mismatches,
                      UnbalancedTxIDs
<1>4. QED
  BY <1>1, <1>2, <1>3, InvariantHolds, MissingStayEmpty, PTL DEF Spec
=============================================================================
