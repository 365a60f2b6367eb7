----------------------- MODULE PaymentLedgerInvariant -----------------------
(***************************************************************************)
(* The inductive invariant behind the theorems of PaymentLedgerProofs:     *)
(* what each session may rely on between two of its statements, while the  *)
(* others commit.                                                          *)
(***************************************************************************)
EXTENDS PaymentLedger

\* The statements after which the original of a reversal has been loaded and
\* the balances are being, or have been, locked.
LockingPC == {"lockbalance", "post", "commit"}

\* A session knows its command from Receive to Respond, has validated it
\* before it begins a transaction, has a reply after it, and holds on to what
\* LoadOriginal found about the original of a reversal.
ShapeOf(s) ==
    /\ pc[s] # "idle" => req[s] \in Commands
    /\ pc[s] \in InTxPC => Valid(req[s])
    /\ pc[s] = "load" => req[s].op = "reverse"
    /\ pc[s] = "lockbalance" => req[s].op # "create"
    /\ reply[s] # None => pc[s] \in {"finish", "respond"}
    /\ pc[s] = "finish" => /\ reply[s] \in Replies
                           /\ reply[s].code = "created"
                           /\ reply[s].body \in Bodies
    /\ pc[s] \in LockingPC /\ req[s].op = "reverse" =>
          /\ txns[req[s].original] # None
          /\ txns[req[s].original].kind # "reversal"

\* A claimed slot has no committed record, and nobody else has claimed it.
\* Nothing here mentions the advisory lock.
ClaimOf(s) ==
    pc[s] \in ClaimedPC =>
        /\ idem[Slot(req[s])] = None
        /\ \A t \in Sessions \ {s} : ~HoldsClaim(t, Slot(req[s]))

\* The balances a command updates.
LockSet(cmd) ==
    CASE cmd.op = "create"   -> {}
      [] cmd.op = "transfer" -> {cmd.source, cmd.destination}
      [] cmd.op = "reverse"  -> AccountsOf(txns[cmd.original].entries)

\* Every balance a session updates exists and is locked by it, or is still to
\* be locked; only lockBalances has balances to lock.
LocksOf(s) ==
    /\ pc[s] \in LockingPC =>
          \A a \in LockSet(req[s]) :
              a \in toLock[s] \/ (rowLock[a] = s /\ accounts[a] # None)
    /\ pc[s] # "lockbalance" => toLock[s] = {}

\* Once its statements have been accepted, nothing another session commits
\* makes PostgreSQL or the service refuse them.
VerdictOf(s) ==
    pc[s] = "commit" =>
        /\ Refusal(req[s], accounts, balances, txns) = None
        /\ \A t \in Sessions : ~InsertConflict(s, t)

SessionInv(s) ==
    /\ ShapeOf(s)
    /\ ClaimOf(s)
    /\ LocksOf(s)
    /\ VerdictOf(s)
    /\ ReplyIsDurable(s)

\* The inductive invariant: the tables, the cache, and every session.
Inv ==
    /\ TypeOK
    /\ NonNegativeBalances
    /\ PaymentsAreAtomic
    /\ ReversedAtMostOnce
    /\ CacheAgreesWithTable
    /\ \A s \in Sessions : SessionInv(s)

\* Locks are taken in one order: the advisory lock, then the claim, then the
\* balances in ascending order.
LocksInOrder ==
    /\ \A s \in Sessions, l \in LockIDs :
          keyLock[l] = s => pc[s] \in ClaimedPC \cup {"claim"}
    /\ \A s \in Sessions, a \in AccountIDs : rowLock[a] = s =>
          /\ pc[s] \in LockingPC
          /\ \A b \in toLock[s] : a < b

\* An account that does not exist has no balance.
MissingAreEmpty == \A a \in AccountIDs : accounts[a] = None => balances[a] = 0
=============================================================================
