----------------------------- MODULE ReplayApi ------------------------------
(***************************************************************************)
(* POST /v1/replay (handleReplay and runExternalIdempotent in              *)
(* src/internal/api/handlers.go).  The work is a publish to Kafka that     *)
(* cannot join a transaction of PostgreSQL, so the claim of the key, the   *)
(* work and the completion are three separate steps, and any of them may   *)
(* fail or be the last one before a crash.                                 *)
(*                                                                         *)
(*    idle -> lookup -> lock -> insert -> commit -> work -> complete       *)
(*                                 |                 |         |           *)
(*                               fetch -> found   discard      |           *)
(*                                          |        |         |           *)
(*    idle <- respond <---------------------|--------+         |           *)
(*                  ^--------- finish <-----+------------------+           *)
(*                                                                         *)
(* Both transactions, the work and the cache run under the context of the  *)
(* request, which net/http cancels when the client goes away; the release  *)
(* of the key (Discard) and every ROLLBACK do not.                         *)
(*                                                                         *)
(* Records and cache entries are those of the scope "replay", by key.  The *)
(* request hash covers the request id, which the middleware takes from the *)
(* X-Request-Id header or makes up (withRequestContext).  What a replay    *)
(* publishes is in the module Outbox; here a finished replay is known by   *)
(* its number, as a response body is by its replay_id.                     *)
(***************************************************************************)
EXTENDS Integers

CONSTANTS Sessions,      \* requests the API processes serve at the same time
          Keys,          \* values of the Idempotency-Key header
          Payloads,      \* replay requests that pass Validate
          Headers,       \* values of X-Request-Id clients send
          UUIDs,         \* ids the middleware may make up
          MaxRetries,    \* DB_MAX_TX_RETRIES
          MaxFaults,     \* bound on crashes and on statements that fail for good
          MaxDepartures, \* bound on clients that go away
          MaxAborts,     \* bound on COMMITs that PostgreSQL aborts
          None           \* no row, no header, no request

ASSUME ReplayAssumption ==
    /\ MaxRetries \in Nat \ {0}
    /\ MaxFaults \in Nat
    /\ MaxDepartures \in Nat
    /\ MaxAborts \in Nat
    /\ None \notin Headers \cup UUIDs \cup Sessions

VARIABLES rec,       \* idempotency_records, by key
          cache,     \* Redis, by key
          keyLock,   \* by key, the session that holds its advisory lock or None
          pc, req,   \* by session: its next statement, its request or None
          attempt,   \* by session, attempts of InTx that have failed
          claimed,   \* by session, the variable of that name
          reply,     \* by session, the response or None
          issued,    \* ids the middleware has made up
          replays,   \* replays that have been carried out
          faults, departures, aborts,
          interrupted   \* keys whose request ended between its COMMIT and the
                        \* outcome of Discard or Complete

durable == <<rec, cache>>

failures == <<faults, departures, interrupted>>

vars == <<durable, keyLock, pc, req, attempt, claimed, reply, issued, replays,
          failures, aborts>>

Requests == [key : Keys, payload : Payloads, id : Headers \cup UUIDs]

\* HashRequest(scopeReplay, req), RequestedBy included.
Hash(r) == <<r.payload, r.id>>

Hashes == Payloads \X (Headers \cup UUIDs)

\* body is the number of the replay, 0 while there is none.
Records == [hash : Hashes, state : {"in_progress", "completed"}, body : Nat]

CacheEntries == [hash : Hashes, body : Nat]

ASSUME RecordAssumption == None \notin Records \cup CacheEntries

Codes == {"ok", "idempotency_conflict", "idempotency_in_progress", "internal_error"}

Replies == [code : Codes, body : Nat]

\* Inside the transaction that claims the key.
InTxPC == {"lock", "insert", "fetch", "found", "commit"}

\* Between the commit of the claim and the end of the work.
WorkPC == {"work", "complete", "discard"}

Init ==
    /\ rec = [k \in Keys |-> None]
    /\ cache = [k \in Keys |-> None]
    /\ keyLock = [k \in Keys |-> None]
    /\ pc = [s \in Sessions |-> "idle"]
    /\ req = [s \in Sessions |-> None]
    /\ attempt = [s \in Sessions |-> 0]
    /\ claimed = [s \in Sessions |-> FALSE]
    /\ reply = [s \in Sessions |-> None]
    /\ issued = {}
    /\ replays = 0
    /\ faults = 0
    /\ departures = 0
    /\ interrupted = {}
    /\ aborts = 0

(***************************************************************************)
(* Building blocks of the actions.                                         *)
(***************************************************************************)
Goto(s, label) == pc' = [pc EXCEPT ![s] = label]

Answer(s, code, body) ==
    reply' = [reply EXCEPT ![s] = [code |-> code, body |-> body]]

\* The transaction that claims the key ends.
Unlock(s) ==
    keyLock' = [k \in Keys |-> IF keyLock[k] = s THEN None ELSE keyLock[k]]

\* The callback of InTx, or COMMIT, returns an error that is not retried.
Fail(s, code) ==
    /\ Unlock(s)
    /\ Answer(s, code, 0)
    /\ Goto(s, "respond")

\* PostgreSQL or the process goes away.
Fault ==
    /\ faults < MaxFaults
    /\ faults' = faults + 1
    /\ UNCHANGED departures

\* The request of s ends with its key claimed, as far as it knows.
Interrupt(s) == interrupted' = interrupted \cup {req[s].key}

(***************************************************************************)
(* The handler up to the claim.                                            *)
(***************************************************************************)

\* withRequestContext: the header, or an id nobody has had before.
RequestIDs(header) == IF header = None THEN UUIDs \ issued ELSE {header}

\* A client sends a replay request, with an id of its own or without.
Receive(s, k, payload, header) ==
    /\ pc[s] = "idle"
    /\ \E id \in RequestIDs(header) :
          /\ req' = [req EXCEPT ![s] = [key |-> k, payload |-> payload, id |-> id]]
          /\ issued' = issued \cup ({id} \ Headers)
    /\ Goto(s, "lookup")
    /\ UNCHANGED <<durable, keyLock, attempt, claimed, reply, replays, failures, aborts>>

\* replayFromCache hits.
CacheHit(s) ==
    LET entry == cache[req[s].key] IN
    /\ pc[s] = "lookup"
    /\ entry # None
    /\ IF entry.hash = Hash(req[s])
       THEN Answer(s, "ok", entry.body)
       ELSE Answer(s, "idempotency_conflict", 0)
    /\ Goto(s, "respond")
    /\ UNCHANGED <<durable, keyLock, req, attempt, claimed, issued, replays,
                   failures, aborts>>

\* replayFromCache misses, or Redis fails: runExternalIdempotent begins.
CacheMiss(s) ==
    /\ pc[s] = "lookup"
    /\ Goto(s, "lock")
    /\ UNCHANGED <<durable, keyLock, req, attempt, claimed, reply, issued, replays,
                   failures, aborts>>

\* idempotency.LockKey.
LockKey(s) ==
    LET k == req[s].key IN
    /\ pc[s] = "lock"
    /\ keyLock[k] = None
    /\ keyLock' = [keyLock EXCEPT ![k] = s]
    /\ Goto(s, "insert")
    /\ UNCHANGED <<durable, req, attempt, claimed, reply, issued, replays,
                   failures, aborts>>

\* A mutant of Insert: a claim that is in progress is taken over.
TakeOver(s) ==
    LET row == rec[req[s].key] IN
    /\ pc[s] = "insert"
    /\ IF row = None \/ row.state = "in_progress"
       THEN Goto(s, "commit") /\ claimed' = [claimed EXCEPT ![s] = TRUE]
       ELSE Goto(s, "fetch") /\ UNCHANGED claimed
    /\ UNCHANGED <<durable, keyLock, req, attempt, reply, issued, replays,
                   failures, aborts>>

\* The INSERT ... ON CONFLICT DO NOTHING of Claim: nobody else has inserted
\* the row and not committed, because of the advisory lock.
Insert(s) ==
    /\ pc[s] = "insert"
    /\ IF rec[req[s].key] = None
       THEN Goto(s, "commit") /\ claimed' = [claimed EXCEPT ![s] = TRUE]
       ELSE Goto(s, "fetch") /\ UNCHANGED claimed
    /\ UNCHANGED <<durable, keyLock, req, attempt, reply, issued, replays,
                   failures, aborts>>

\* The Fetch of Claim, a second statement: a Discard may have removed the row
\* in between (ErrNotFound), and the callback judges what it finds.
Fetch(s) ==
    LET row == rec[req[s].key] IN
    /\ pc[s] = "fetch"
    /\ \/ /\ row = None
          /\ Fail(s, "internal_error")
       \/ /\ row # None
          /\ row.hash # Hash(req[s])
          /\ Fail(s, "idempotency_conflict")
       \/ /\ row # None
          /\ row.hash = Hash(req[s])
          /\ row.state # "completed"
          /\ Fail(s, "idempotency_in_progress")
       \/ /\ row # None
          /\ row.hash = Hash(req[s])
          /\ row.state = "completed"
          /\ Answer(s, "ok", row.body)
          /\ Goto(s, "found")
          /\ UNCHANGED keyLock
    /\ UNCHANGED <<durable, req, attempt, claimed, issued, replays, failures, aborts>>

\* The in-progress row is committed.
Claim(k, r) ==
    rec' = [rec EXCEPT ![k] = [hash |-> Hash(r), state |-> "in_progress", body |-> 0]]

\* A mutant of CommitClaim: the work begins before the claim is durable.
WorkUnclaimed(s) ==
    /\ pc[s] = "commit"
    /\ Unlock(s)
    /\ Goto(s, "work")
    /\ UNCHANGED <<durable, req, attempt, claimed, reply, issued, replays, failures,
                   aborts>>

\* COMMIT of the claim succeeds.
CommitClaim(s) ==
    /\ pc[s] = "commit"
    /\ Claim(req[s].key, req[s])
    /\ Unlock(s)
    /\ Goto(s, "work")
    /\ UNCHANGED <<cache, req, attempt, claimed, reply, issued, replays, failures, aborts>>

\* COMMIT of a transaction that found a completed record succeeds.  The stored
\* response is returned unless claimed is true, from an earlier attempt too.
CommitFound(s) ==
    /\ pc[s] = "found"
    /\ Unlock(s)
    /\ Goto(s, IF claimed[s] THEN "work" ELSE "finish")
    /\ UNCHANGED <<durable, req, attempt, claimed, reply, issued, replays, failures,
                   aborts>>

\* A mutant of RetryableError: one attempt too many.
RetryOnceMore(s) ==
    /\ pc[s] \in InTxPC \ {"commit"}
    /\ attempt[s] < MaxRetries
    /\ attempt' = [attempt EXCEPT ![s] = @ + 1]
    /\ Unlock(s)
    /\ Goto(s, "lock")
    /\ UNCHANGED <<durable, req, claimed, reply, issued, replays, failures, aborts>>

\* A lock or statement timeout, in COMMIT too: InTx rolls back and calls the
\* callback again, which keeps what it has assigned to claimed.
RetryableError(s) ==
    /\ pc[s] \in InTxPC
    /\ IF pc[s] = "commit"
       THEN aborts < MaxAborts /\ aborts' = aborts + 1
       ELSE UNCHANGED aborts
    /\ IF attempt[s] + 1 < MaxRetries
       THEN /\ attempt' = [attempt EXCEPT ![s] = @ + 1]
            /\ Unlock(s)
            /\ Goto(s, "lock")
            /\ UNCHANGED reply
       ELSE /\ Fail(s, "internal_error")
            /\ UNCHANGED attempt
    /\ UNCHANGED <<durable, req, claimed, issued, replays, failures>>

\* The connection breaks under COMMIT, which may have succeeded.
LoseCommit(s) ==
    /\ pc[s] = "commit"
    /\ Fault
    /\ Interrupt(s)
    /\ \/ Claim(req[s].key, req[s])
       \/ UNCHANGED rec
    /\ Fail(s, "internal_error")
    /\ UNCHANGED <<cache, req, attempt, claimed, issued, replays, aborts>>

(***************************************************************************)
(* The work and its outcome.                                               *)
(***************************************************************************)

\* Replayer.Replay: it fails before it has published anything, or publishes
\* what it can and reports a result under a new replay_id.
Work(s) ==
    /\ pc[s] = "work"
    /\ \/ /\ Answer(s, "internal_error", 0)
          /\ Goto(s, "discard")
          /\ UNCHANGED replays
       \/ /\ replays' = replays + 1
          /\ Answer(s, "ok", replays + 1)
          /\ Goto(s, "complete")
    /\ UNCHANGED <<durable, keyLock, req, attempt, claimed, issued, failures, aborts>>

\* A mutant of Discard: the DELETE has no condition on the state.
DiscardAny(s) ==
    /\ pc[s] = "discard"
    /\ rec' = [rec EXCEPT ![req[s].key] = None]
    /\ Goto(s, "respond")
    /\ UNCHANGED <<cache, keyLock, req, attempt, claimed, reply, issued, replays,
                   failures, aborts>>

\* idempotency.Discard deletes the row while it is in progress, whoever has
\* claimed it; its failure is only logged.
Discard(s) ==
    LET k == req[s].key IN
    /\ pc[s] = "discard"
    /\ \/ /\ rec' = IF rec[k] # None /\ rec[k].state = "in_progress"
                    THEN [rec EXCEPT ![k] = None] ELSE rec
          /\ UNCHANGED failures
       \/ Fault /\ Interrupt(s) /\ UNCHANGED rec
    /\ Goto(s, "respond")
    /\ UNCHANGED <<cache, keyLock, req, attempt, claimed, reply, issued, replays, aborts>>

\* The UPDATE of idempotency.Complete, which has no condition on the state.
Completed(k, body) ==
    IF rec[k] = None THEN rec
    ELSE [rec EXCEPT ![k].state = "completed", ![k].body = body]

\* A mutant of Complete: the response is cached and sent without being stored.
CompleteNothing(s) ==
    /\ pc[s] = "complete"
    /\ Goto(s, "finish")
    /\ UNCHANGED <<durable, keyLock, req, attempt, claimed, reply, issued, replays,
                   failures, aborts>>

\* The second InTx.  When it fails, the handler answers with an error and leaves
\* the row; COMMIT may have succeeded all the same.
Complete(s) ==
    LET k == req[s].key IN
    /\ pc[s] = "complete"
    /\ \/ /\ rec' = Completed(k, reply[s].body)
          /\ Goto(s, "finish")
          /\ UNCHANGED <<reply, failures>>
       \/ /\ Fault
          /\ Interrupt(s)
          /\ rec' \in {rec, Completed(k, reply[s].body)}
          /\ Answer(s, "internal_error", 0)
          /\ Goto(s, "respond")
    /\ UNCHANGED <<cache, keyLock, req, attempt, claimed, issued, replays, aborts>>

\* Cache.Put, whose failure is ignored.
Finish(s) ==
    LET entry == [hash |-> Hash(req[s]), body |-> reply[s].body] IN
    /\ pc[s] = "finish"
    /\ cache' \in {cache, [cache EXCEPT ![req[s].key] = entry]}
    /\ Goto(s, "respond")
    /\ UNCHANGED <<rec, keyLock, req, attempt, claimed, reply, issued, replays,
                   failures, aborts>>

\* A session that leaves the handler keeps nothing.
Forget(s) ==
    /\ Goto(s, "idle")
    /\ req' = [req EXCEPT ![s] = None]
    /\ attempt' = [attempt EXCEPT ![s] = 0]
    /\ claimed' = [claimed EXCEPT ![s] = FALSE]
    /\ reply' = [reply EXCEPT ![s] = None]

Respond(s) ==
    /\ pc[s] = "respond"
    /\ Forget(s)
    /\ UNCHANGED <<durable, keyLock, issued, replays, failures, aborts>>

\* A mutant of Leave: the key is released under the context of the request too.
LeaveUnreleased(s) ==
    /\ departures < MaxDepartures
    /\ departures' = departures + 1
    /\ pc[s] \in {"lookup", "work"} \cup (InTxPC \ {"commit"})
    /\ Fail(s, "internal_error")
    /\ UNCHANGED <<durable, req, attempt, claimed, issued, replays, faults,
                   interrupted, aborts>>

\* The client goes away and the context of the request is cancelled: what the
\* handler is executing fails, and so does what it begins next.
\*   - Before the work, the transaction is rolled back, unless COMMIT was under
\*     way and has succeeded; the error of a context is not retried.
\*   - In the work, ListForReplay fails and the key is released; or the events
\*     that are still to be published fail one by one, which Replay counts and
\*     does not report as an error, and Complete cannot begin.
\*   - In Complete, COMMIT may have succeeded.
\* Discard has a context of its own, and Finish ignores the failure of Put.
Leave(s) ==
    LET k == req[s].key IN
    /\ departures < MaxDepartures
    /\ departures' = departures + 1
    /\ \/ /\ pc[s] \in {"lookup"} \cup (InTxPC \ {"commit"})
          /\ Fail(s, "internal_error")
          /\ UNCHANGED <<rec, replays, interrupted>>
       \/ /\ pc[s] = "commit"
          /\ Claim(k, req[s]) \/ UNCHANGED rec
          /\ Fail(s, "internal_error")
          /\ Interrupt(s)
          /\ UNCHANGED replays
       \/ /\ pc[s] = "work"
          /\ Answer(s, "internal_error", 0)
          /\ Goto(s, "discard")
          /\ UNCHANGED <<rec, keyLock, replays, interrupted>>
       \/ /\ pc[s] = "work"
          /\ replays' = replays + 1
          /\ Answer(s, "internal_error", 0)
          /\ Goto(s, "respond")
          /\ Interrupt(s)
          /\ UNCHANGED <<rec, keyLock>>
       \/ /\ pc[s] = "complete"
          /\ rec' \in {rec, Completed(k, reply[s].body)}
          /\ Answer(s, "internal_error", 0)
          /\ Goto(s, "respond")
          /\ Interrupt(s)
          /\ UNCHANGED <<keyLock, replays>>
    /\ UNCHANGED <<cache, req, attempt, claimed, issued, faults, aborts>>

\* The process dies; an open transaction is rolled back.
Crash(s) ==
    /\ pc[s] # "idle"
    /\ Fault
    /\ IF pc[s] \in WorkPC THEN Interrupt(s) ELSE UNCHANGED interrupted
    /\ Unlock(s)
    /\ Forget(s)
    /\ UNCHANGED <<durable, issued, replays, aborts>>

\* The TTL of a cached response expires, or Redis loses it.
Evict(k) ==
    /\ cache[k] # None
    /\ cache' = [cache EXCEPT ![k] = None]
    /\ UNCHANGED <<rec, keyLock, pc, req, attempt, claimed, reply, issued, replays,
                   failures, aborts>>

Step(s) ==
    \/ CacheHit(s) \/ CacheMiss(s)
    \/ LockKey(s) \/ Insert(s) \/ Fetch(s)
    \/ CommitClaim(s) \/ CommitFound(s) \/ RetryableError(s)
    \/ Work(s) \/ Discard(s) \/ Complete(s) \/ Finish(s) \/ Respond(s)

Next ==
    \/ \E s \in Sessions :
          \/ \E k \in Keys, payload \in Payloads, header \in Headers \cup {None} :
                Receive(s, k, payload, header)
          \/ Step(s)
          \/ LoseCommit(s)
          \/ Leave(s)
          \/ Crash(s)
    \/ \E k \in Keys : Evict(k)

Spec == Init /\ [][Next]_vars

\* The Go scheduler runs every handler, and PostgreSQL answers every statement.
FairSpec == Spec /\ \A s \in Sessions : WF_vars(Step(s))

-----------------------------------------------------------------------------
(***************************************************************************)
(* Properties.                                                             *)
(***************************************************************************)

\* Type correctness.
TypeOK ==
    /\ rec \in [Keys -> Records \cup {None}]
    /\ cache \in [Keys -> CacheEntries \cup {None}]
    /\ keyLock \in [Keys -> Sessions \cup {None}]
    /\ pc \in [Sessions -> InTxPC \cup WorkPC \cup
                           {"idle", "lookup", "finish", "respond"}]
    /\ req \in [Sessions -> Requests \cup {None}]
    /\ attempt \in [Sessions -> 0..(MaxRetries - 1)]
    /\ claimed \in [Sessions -> BOOLEAN]
    /\ reply \in [Sessions -> Replies \cup {None}]
    /\ issued \in SUBSET UUIDs
    /\ replays \in Nat
    /\ faults \in 0..MaxFaults
    /\ departures \in 0..MaxDepartures
    /\ interrupted \in SUBSET Keys
    /\ aborts \in 0..MaxAborts

Completes(k) == rec[k] # None /\ rec[k].state = "completed"

\* A session works on a key only while its own claim is there, and alone, or
\* after the key has been completed: so the unconditional Discard and Complete
\* never touch the claim of another request, although the claim is given up
\* by the transaction long before.
WorkIsExclusive ==
    \A s \in Sessions : pc[s] \in WorkPC =>
        LET k == req[s].key IN
        /\ rec[k] # None
        /\ rec[k].hash = Hash(req[s])
        /\ \/ rec[k].state = "completed" /\ aborts > 0
           \/ /\ rec[k].state = "in_progress"
              /\ \A t \in Sessions \ {s} : ~(pc[t] \in WorkPC /\ req[t].key = k)

\* A completed record is a durable result: it is never withdrawn, and its
\* response changes only when a session goes on with the claim of an attempt
\* that PostgreSQL has rolled back.
CompletedIsDurable ==
    [][\A k \in Keys : Completes(k) =>
          /\ Completes(k)'
          /\ rec'[k].hash = rec[k].hash
          /\ rec'[k].body # rec[k].body => aborts > 0]_vars

\* A success is answered, from PostgreSQL or from Redis, only with the stored
\* response of this very request (up to the same exception): a crash or a lost
\* COMMIT never becomes a false success.
SuccessIsStored ==
    \A s \in Sessions :
        pc[s] \in {"finish", "respond"} /\ reply[s].code = "ok" =>
            LET k == req[s].key IN
            /\ Completes(k)
            /\ rec[k].hash = Hash(req[s])
            /\ rec[k].body = reply[s].body \/ aborts > 0

InProgress(k) == rec[k] # None /\ ~Completes(k)

\* A claimed key is eventually completed or free again, unless the request that
\* claimed it ended in between: its process died, PostgreSQL did not answer its
\* last statement, or its client went away during COMMIT, the publishing or
\* Complete.  In particular it is released when the work fails, also because
\* the client has gone; and a failure before the claim or on another key is no
\* excuse.
KeysAreReleased ==
    \A k \in Keys : InProgress(k) ~> ~InProgress(k) \/ k \in interrupted

\* The key is claimed and nobody works on it.
Stranded(k) ==
    InProgress(k) /\ \A s \in Sessions : ~(pc[s] \in WorkPC /\ req[s].key = k)

\* A claim that has been left behind is never taken over, completed or removed,
\* whatever requests come later: the client that lost its connection can retry
\* for ever and gets neither the original response nor another execution.
StrandedForGood ==
    [][\A k \in Keys : Stranded(k) => rec'[k] = rec[k] /\ Stranded(k)']_vars

\* Replay is idempotent at the API level: a conflict is reported only for a
\* request that asks for something else than the one stored under its key.
RetriesAreRecognised ==
    \A s \in Sessions :
        /\ pc[s] = "respond"
        /\ reply[s].code = "idempotency_conflict"
        /\ rec[req[s].key] # None
        => rec[req[s].key].hash[1] # req[s].payload
=============================================================================
