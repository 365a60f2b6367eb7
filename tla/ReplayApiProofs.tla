--------------------------- MODULE ReplayApiProofs ---------------------------
(***************************************************************************)
(* Theorems about ReplayApi, for every number of sessions, keys and        *)
(* payloads, any number of crashes, lost statements and departing clients, *)
(* and any retry budget.                                                   *)
(***************************************************************************)
EXTENDS ReplayApi, TLAPS

\* What has been answered for a key is what is stored, unless PostgreSQL has
\* aborted a COMMIT.
Stored(k, hash, body) ==
    /\ Completes(k)
    /\ rec[k].hash = hash
    /\ rec[k].body = body \/ aborts > 0

\* A cached response is a stored one.
CacheIsStored ==
    \A k \in Keys : cache[k] # None => Stored(k, cache[k].hash, cache[k].body)

\* What a session knows at each of its statements.
SessionKnows(s) ==
    /\ pc[s] # "idle" => req[s] \in Requests
    /\ pc[s] \in InTxPC \ {"lock"} => keyLock[req[s].key] = s
    /\ pc[s] = "commit" => rec[req[s].key] = None
    /\ pc[s] \in {"idle", "lookup"} => ~claimed[s]
    /\ claimed[s] /\ pc[s] \in InTxPC \ {"commit"} => aborts > 0
    /\ pc[s] \in {"found", "complete", "finish", "discard", "respond"} =>
          reply[s] \in Replies
    /\ pc[s] \in {"found", "complete", "finish"} => reply[s].code = "ok"
    /\ pc[s] = "discard" => reply[s].code # "ok"
    /\ pc[s] = "found" => Stored(req[s].key, Hash(req[s]), reply[s].body)

SessionsKnow == \A s \in Sessions : SessionKnows(s)

\* The inductive invariant.
IInv == TypeOK /\ SessionsKnow /\ CacheIsStored /\ WorkIsExclusive /\ SuccessIsStored

------------------------------------------------------------------------------
(***************************************************************************)
(* Type correctness.                                                       *)
(***************************************************************************)

\* The values the statements write have their types.
LEMMA ValueTypes ==
    /\ \A r \in Requests : r.key \in Keys /\ Hash(r) \in Hashes
    /\ \A h \in Hashes : [hash |-> h, state |-> "in_progress", body |-> 0] \in Records
    /\ \A r \in Records : r.hash \in Hashes /\ r.body \in Nat
    /\ \A h \in Hashes, b \in Nat : [hash |-> h, body |-> b] \in CacheEntries
    /\ \A e \in CacheEntries : e.hash \in Hashes /\ e.body \in Nat
    /\ \A c \in Codes, b \in Nat : [code |-> c, body |-> b] \in Replies
    /\ \A r \in Replies : r.body \in Nat
    /\ {"ok", "idempotency_conflict", "idempotency_in_progress",
        "internal_error"} = Codes
BY DEF Requests, Hash, Hashes, Records, CacheEntries, Codes, Replies

\* The end of a transaction releases what this session holds and nothing else.
LEMMA UnlockEffect ==
    ASSUME TypeOK, NEW s \in Sessions, Unlock(s)
    PROVE  /\ keyLock' \in [Keys -> Sessions \cup {None}]
           /\ \A k \in Keys, t \in Sessions \ {s} : keyLock[k] = t => keyLock'[k] = t
BY DEF Unlock, TypeOK

\* A record that is completed keeps its hash.
LEMMA CompletedEffect ==
    ASSUME TypeOK, NEW k \in Keys, NEW b \in Nat
    PROVE  /\ Completed(k, b) \in [Keys -> Records \cup {None}]
           /\ \A l \in Keys \ {k} : Completed(k, b)[l] = rec[l]
           /\ rec[k] = None => Completed(k, b)[k] = None
           /\ rec[k] # None => /\ Completed(k, b)[k] # None
                               /\ Completed(k, b)[k].state = "completed"
                               /\ Completed(k, b)[k].hash = rec[k].hash
                               /\ Completed(k, b)[k].body = b
<1>1. CASE rec[k] = None
  BY <1>1 DEF Completed, TypeOK
<1>2. CASE rec[k] # None
  <2> DEFINE r == [rec[k] EXCEPT !.state = "completed", !.body = b]
  <2>1. rec[k] \in Records
    BY <1>2 DEF TypeOK
  <2>2. /\ r \in Records /\ r.state = "completed"
        /\ r.hash = rec[k].hash /\ r.body = b
    BY <2>1 DEF Records
  <2>3. Completed(k, b) = [rec EXCEPT ![k] = r]
    BY <1>2 DEF Completed
  <2> HIDE DEF r
  <2>4. QED
    BY <1>2, <2>2, <2>3, RecordAssumption DEF TypeOK
<1>3. QED
  BY <1>1, <1>2

\* What the departure of a client does: at most one record changes, by a COMMIT
\* that was under way.
LEMMA LeaveEffect ==
    ASSUME NEW s \in Sessions, Leave(s)
    PROVE  /\ pc[s] \in {"lookup", "work", "complete"} \cup InTxPC
           /\ \/ Goto(s, "respond")
              \/ pc[s] = "work" /\ Goto(s, "discard") /\ rec' = rec
           /\ Answer(s, "internal_error", 0)
           /\ Unlock(s) \/ keyLock' = keyLock
           /\ \/ rec' = rec
              \/ pc[s] = "commit" /\ Claim(req[s].key, req[s])
              \/ pc[s] = "complete" /\ rec' = Completed(req[s].key, reply[s].body)
           /\ replays' = replays \/ replays' = replays + 1
           /\ interrupted' = interrupted \/ Interrupt(s)
           /\ departures < MaxDepartures /\ departures' = departures + 1
           /\ UNCHANGED <<cache, req, attempt, claimed, issued, faults, aborts>>
BY Zenon DEF Leave, Fail, InTxPC

\* Every step keeps the types.
LEMMA TypeStep == TypeOK /\ SessionsKnow /\ [Next]_vars => TypeOK'
<1> SUFFICES ASSUME TypeOK, SessionsKnow, [Next]_vars
             PROVE  TypeOK'
  OBVIOUS
<1> USE ReplayAssumption
    DEF Goto, Answer, Fail, Fault, Interrupt, durable, failures, InTxPC, WorkPC
<1>1. ASSUME NEW s \in Sessions, NEW k \in Keys, NEW payload \in Payloads,
             NEW header \in Headers \cup {None}, Receive(s, k, payload, header)
      PROVE  TypeOK'
  <2>1. PICK id \in RequestIDs(header) :
             /\ req' = [req EXCEPT ![s] = [key |-> k, payload |-> payload, id |-> id]]
             /\ issued' = issued \cup ({id} \ Headers)
    BY <1>1 DEF Receive
  <2>2. id \in Headers \cup UUIDs
    BY DEF RequestIDs
  <2>3. [key |-> k, payload |-> payload, id |-> id] \in Requests
    BY <2>2 DEF Requests
  <2>4. QED
    BY <1>1, <2>1, <2>2, <2>3 DEF Receive, TypeOK
<1>2. ASSUME NEW s \in Sessions, pc[s] # "idle"
      PROVE  /\ req[s] \in Requests /\ req[s].key \in Keys
             /\ Hash(req[s]) \in Hashes
             /\ [hash |-> Hash(req[s]), state |-> "in_progress", body |-> 0] \in Records
             /\ interrupted \cup {req[s].key} \in SUBSET Keys
  <2>1. req[s] \in Requests
    BY <1>2 DEF SessionsKnow, SessionKnows
  <2>2. req[s].key \in Keys /\ Hash(req[s]) \in Hashes
    BY <2>1, ValueTypes
  <2>3. interrupted \cup {req[s].key} \in SUBSET Keys
    BY <2>2 DEF TypeOK
  <2>4. QED
    BY <2>1, <2>2, <2>3, ValueTypes
<1>3. \A c \in Codes, b \in Nat : [code |-> c, body |-> b] \in Replies
  BY ValueTypes
<1>4. ASSUME NEW s \in Sessions, CacheHit(s)
      PROVE  TypeOK'
  <2>1. cache[req[s].key] \in CacheEntries
    BY <1>2, <1>4 DEF CacheHit, TypeOK
  <2>2. PICK r \in Replies : reply' = [reply EXCEPT ![s] = r]
    BY <1>3, <1>4, <2>1, ValueTypes DEF CacheHit, Codes
  <2>3. QED
    BY <1>4, <2>2 DEF CacheHit, TypeOK
<1>5. ASSUME NEW s \in Sessions, CacheMiss(s)
      PROVE  TypeOK'
  BY <1>5 DEF CacheMiss, TypeOK
<1>6. ASSUME NEW s \in Sessions, LockKey(s)
      PROVE  TypeOK'
  BY <1>6 DEF LockKey, TypeOK
<1>7. ASSUME NEW s \in Sessions, Insert(s)
      PROVE  TypeOK'
  BY <1>7 DEF Insert, TypeOK
<1>8. ASSUME NEW s \in Sessions, Fetch(s)
      PROVE  TypeOK'
  <2>1. rec[req[s].key] # None => rec[req[s].key] \in Records
    BY <1>2, <1>8 DEF Fetch, TypeOK
  <2>2. PICK r \in Replies : reply' = [reply EXCEPT ![s] = r]
    BY <1>3, <1>8, <2>1, ValueTypes DEF Fetch, Codes
  <2>3. keyLock' \in [Keys -> Sessions \cup {None}]
    BY <1>8, UnlockEffect DEF Fetch, TypeOK
  <2>4. PICK label \in {"respond", "found"} : pc' = [pc EXCEPT ![s] = label]
    BY <1>8 DEF Fetch
  <2>5. UNCHANGED <<durable, req, attempt, claimed, issued, replays, failures, aborts>>
    BY <1>8 DEF Fetch
  <2>6. QED
    BY <2>2, <2>3, <2>4, <2>5 DEF TypeOK
<1>9. ASSUME NEW s \in Sessions, CommitClaim(s)
      PROVE  TypeOK'
  <2>1. keyLock' \in [Keys -> Sessions \cup {None}]
    BY <1>9, UnlockEffect DEF CommitClaim
  <2>2. QED
    BY <1>2, <1>9, <2>1 DEF CommitClaim, Claim, TypeOK
<1>10. ASSUME NEW s \in Sessions, CommitFound(s)
       PROVE  TypeOK'
  <2>1. keyLock' \in [Keys -> Sessions \cup {None}]
    BY <1>10, UnlockEffect DEF CommitFound
  <2>2. QED
    BY <1>10, <2>1 DEF CommitFound, TypeOK
<1>11. ASSUME NEW s \in Sessions, RetryableError(s)
       PROVE  TypeOK'
  <2>1. keyLock' \in [Keys -> Sessions \cup {None}]
    BY <1>11, UnlockEffect DEF RetryableError
  <2>2. aborts' \in 0..MaxAborts
    BY <1>11 DEF RetryableError, TypeOK
  <2>3. /\ UNCHANGED <<durable, req, claimed, issued, replays, failures>>
        /\ \/ /\ attempt[s] + 1 < MaxRetries
              /\ attempt' = [attempt EXCEPT ![s] = attempt[s] + 1]
              /\ pc' = [pc EXCEPT ![s] = "lock"] /\ reply' = reply
           \/ /\ attempt' = attempt
              /\ pc' = [pc EXCEPT ![s] = "respond"]
              /\ reply' = [reply EXCEPT ![s] = [code |-> "internal_error", body |-> 0]]
    BY <1>11 DEF RetryableError
  <2>4. [code |-> "internal_error", body |-> 0] \in Replies
    BY <1>3 DEF Codes
  <2>5. QED
    BY <2>1, <2>2, <2>3, <2>4 DEF TypeOK
<1>12. ASSUME NEW s \in Sessions, LoseCommit(s)
       PROVE  TypeOK'
  <2>1. keyLock' \in [Keys -> Sessions \cup {None}]
    BY <1>12, UnlockEffect DEF LoseCommit
  <2>2. rec' \in [Keys -> Records \cup {None}]
    BY <1>2, <1>12 DEF LoseCommit, Claim, TypeOK
  <2>3. [code |-> "internal_error", body |-> 0] \in Replies
    BY <1>3 DEF Codes
  <2>4. interrupted' \in SUBSET Keys
    BY <1>2, <1>12 DEF LoseCommit
  <2>5. QED
    BY <1>12, <2>1, <2>2, <2>3, <2>4 DEF LoseCommit, TypeOK
<1>13. ASSUME NEW s \in Sessions, Work(s)
       PROVE  TypeOK'
  <2>1. /\ [code |-> "internal_error", body |-> 0] \in Replies
        /\ [code |-> "ok", body |-> replays + 1] \in Replies
    BY <1>3 DEF Codes, TypeOK
  <2>2. QED
    BY <1>13, <2>1 DEF Work, TypeOK
<1>14. ASSUME NEW s \in Sessions, Discard(s)
       PROVE  TypeOK'
  <2>1. req[s].key \in Keys /\ interrupted \cup {req[s].key} \in SUBSET Keys
    BY <1>2, <1>14 DEF Discard
  <2>2. interrupted' \in SUBSET Keys
    BY <1>14, <2>1 DEF Discard, TypeOK
  <2>3. rec' \in [Keys -> Records \cup {None}]
    BY <1>14, <2>1 DEF Discard, TypeOK
  <2>4. QED
    BY <1>14, <2>2, <2>3 DEF Discard, TypeOK
<1>15. ASSUME NEW s \in Sessions, Complete(s)
       PROVE  TypeOK'
  <2>1. /\ req[s].key \in Keys /\ reply[s].body \in Nat
        /\ [code |-> "internal_error", body |-> 0] \in Replies
    BY <1>2, <1>3, <1>15, ValueTypes DEF Complete, SessionsKnow, SessionKnows, Codes
  <2>2. rec' \in [Keys -> Records \cup {None}]
    BY <1>15, <2>1, CompletedEffect DEF Complete, TypeOK
  <2>3. interrupted' \in SUBSET Keys
    BY <1>2, <1>15 DEF Complete, TypeOK
  <2>4. QED
    BY <1>15, <2>1, <2>2, <2>3 DEF Complete, TypeOK
<1>16. ASSUME NEW s \in Sessions, Finish(s)
       PROVE  TypeOK'
  <2>1. [hash |-> Hash(req[s]), body |-> reply[s].body] \in CacheEntries
    BY <1>2, <1>16, ValueTypes DEF Finish, SessionsKnow, SessionKnows
  <2>2. QED
    BY <1>2, <1>16, <2>1 DEF Finish, TypeOK
<1>17. ASSUME NEW s \in Sessions, Respond(s)
       PROVE  TypeOK'
  BY <1>17 DEF Respond, Forget, TypeOK
<1>18. ASSUME NEW s \in Sessions, Crash(s)
       PROVE  TypeOK'
  <2>1. keyLock' \in [Keys -> Sessions \cup {None}]
    BY <1>18, UnlockEffect DEF Crash
  <2>2. interrupted' \in SUBSET Keys
    BY <1>2, <1>18 DEF Crash, TypeOK
  <2>3. QED
    BY <1>18, <2>1, <2>2 DEF Crash, Forget, TypeOK
<1>19. ASSUME NEW k \in Keys, Evict(k)
       PROVE  TypeOK'
  BY <1>19 DEF Evict, TypeOK
<1>20. ASSUME NEW s \in Sessions, Leave(s)
       PROVE  TypeOK'
  <2>1. pc[s] # "idle"
    BY <1>20, LeaveEffect
  <2>2. keyLock' \in [Keys -> Sessions \cup {None}]
    BY <1>20, LeaveEffect, UnlockEffect DEF TypeOK
  <2>3. pc[s] = "complete" => reply[s].body \in Nat
    BY ValueTypes DEF SessionsKnow, SessionKnows
  <2>4. rec' \in [Keys -> Records \cup {None}]
    <3>1. CASE rec' = rec
      BY <3>1 DEF TypeOK
    <3>2. CASE Claim(req[s].key, req[s])
      BY <1>2, <2>1, <3>2 DEF Claim, TypeOK
    <3>3. CASE pc[s] = "complete" /\ rec' = Completed(req[s].key, reply[s].body)
      BY <1>2, <2>3, <3>3, CompletedEffect
    <3>4. QED
      BY <1>20, <3>1, <3>2, <3>3, LeaveEffect
  <2>5. interrupted' \in SUBSET Keys
    <3>1. interrupted' = interrupted \/ interrupted' = interrupted \cup {req[s].key}
      BY <1>20, LeaveEffect
    <3>2. QED
      BY <1>2, <2>1, <3>1 DEF TypeOK
  <2>6. [code |-> "internal_error", body |-> 0] \in Replies
    BY <1>3 DEF Codes
  <2>7. QED
    BY <1>20, <2>2, <2>4, <2>5, <2>6, LeaveEffect DEF TypeOK
<1>21. CASE UNCHANGED vars
  BY <1>21 DEF vars, TypeOK
<1>22. QED
  BY <1>1, <1>4, <1>5, <1>6, <1>7, <1>8, <1>9, <1>10, <1>11, <1>12, <1>13,
     <1>14, <1>15, <1>16, <1>17, <1>18, <1>19, <1>20, <1>21
  DEF Next, Step

------------------------------------------------------------------------------
(***************************************************************************)
(* What a step may do to the records and to other sessions.                *)
(***************************************************************************)

\* A step of one session.
Acts(s) ==
    \/ \E k \in Keys, payload \in Payloads, header \in Headers \cup {None} :
          Receive(s, k, payload, header)
    \/ Step(s)
    \/ LoseCommit(s)
    \/ Leave(s)
    \/ Crash(s)

\* A step of s leaves the other sessions and what they hold alone.
LeavesOthers(s) ==
    /\ \A t \in Sessions \ {s} :
          /\ pc'[t] = pc[t] /\ req'[t] = req[t] /\ claimed'[t] = claimed[t]
          /\ reply'[t] = reply[t]
          /\ \A k \in Keys : keyLock[k] = t => keyLock'[k] = t
    /\ aborts' >= aborts

\* The statements that change a record: a claim of a free key, the Discard of
\* a claim, and Complete.
ChangesRec(s) ==
    LET k == req[s].key IN
    \/ rec' = rec
    \/ /\ pc[s] = "commit"
       /\ pc'[s] \in {"work", "respond"}
       /\ rec' = [rec EXCEPT ![k] = [hash |-> Hash(req[s]), state |-> "in_progress",
                                     body |-> 0]]
    \/ /\ pc[s] = "discard"
       /\ pc'[s] = "respond"
       /\ rec[k] # None /\ rec[k].state = "in_progress"
       /\ rec' = [rec EXCEPT ![k] = None]
    \/ /\ pc[s] = "complete"
       /\ pc'[s] \in {"finish", "respond"}
       /\ rec' = Completed(k, reply[s].body)

\* Every step of a session leaves the others alone.
LEMMA ActsAlone ==
    ASSUME TypeOK, NEW s \in Sessions, Acts(s)
    PROVE  LeavesOthers(s)
<1> USE DEF LeavesOthers, Goto, Answer, Fail, Fault, TypeOK
<1>1. CASE \E k \in Keys, payload \in Payloads, header \in Headers \cup {None} :
              Receive(s, k, payload, header)
  BY <1>1 DEF Receive
<1>2. CASE CacheHit(s) \/ CacheMiss(s)
  BY <1>2 DEF CacheHit, CacheMiss
<1>3. CASE LockKey(s)
  BY <1>3, ReplayAssumption DEF LockKey
<1>4. CASE Insert(s)
  BY <1>4 DEF Insert
<1>5. CASE Fetch(s)
  BY <1>5 DEF Fetch, Unlock
<1>6. CASE CommitClaim(s) \/ CommitFound(s)
  BY <1>6 DEF CommitClaim, CommitFound, Unlock
<1>7. CASE RetryableError(s)
  BY <1>7 DEF RetryableError, Unlock
<1>8. CASE LoseCommit(s)
  BY <1>8 DEF LoseCommit, Unlock
<1>9. CASE Work(s) \/ Discard(s)
  BY <1>9 DEF Work, Discard
<1>10. CASE Complete(s) \/ Finish(s)
  BY <1>10 DEF Complete, Finish
<1>11. CASE Respond(s) \/ Crash(s)
  BY <1>11 DEF Respond, Crash, Forget, Unlock
<1>12. CASE Leave(s)
  BY <1>12, LeaveEffect DEF Unlock
<1>13. QED
  BY <1>1, <1>2, <1>3, <1>4, <1>5, <1>6, <1>7, <1>8, <1>9, <1>10, <1>11, <1>12
  DEF Acts, Step

\* No other statement changes a record.
LEMMA RecordSteps ==
    ASSUME TypeOK, NEW s \in Sessions, Acts(s)
    PROVE  ChangesRec(s)
<1> USE DEF ChangesRec, Goto, Fail, durable
<1>1. CASE \/ \E k \in Keys, payload \in Payloads, header \in Headers \cup {None} :
                 Receive(s, k, payload, header)
           \/ CacheHit(s) \/ CacheMiss(s) \/ LockKey(s) \/ Insert(s) \/ Fetch(s)
           \/ CommitFound(s) \/ RetryableError(s) \/ Work(s) \/ Finish(s)
           \/ Respond(s) \/ Crash(s)
  <2>1. rec' = rec
    BY <1>1 DEF Receive, CacheHit, CacheMiss, LockKey, Insert, Fetch, CommitFound,
                RetryableError, Work, Finish, Respond, Crash
  <2>2. QED
    BY <2>1
<1>2. CASE CommitClaim(s) \/ LoseCommit(s)
  <2>1. pc[s] = "commit" /\ pc'[s] \in {"work", "respond"}
    BY <1>2 DEF CommitClaim, LoseCommit, TypeOK
  <2>2. rec' = rec \/ Claim(req[s].key, req[s])
    BY <1>2 DEF CommitClaim, LoseCommit
  <2>3. QED
    BY <2>1, <2>2 DEF Claim
<1>3. CASE Discard(s)
  <2>1. pc[s] = "discard" /\ pc'[s] = "respond"
    BY <1>3 DEF Discard, TypeOK
  <2>2. QED
    BY <1>3, <2>1 DEF Discard
<1>4. CASE Complete(s)
  <2>1. pc[s] = "complete" /\ pc'[s] \in {"finish", "respond"}
    BY <1>4 DEF Complete, TypeOK
  <2>2. rec' \in {rec, Completed(req[s].key, reply[s].body)}
    BY <1>4 DEF Complete
  <2>3. QED
    BY <2>1, <2>2
<1>5. CASE Leave(s)
  <2>1. rec' # rec => pc'[s] = "respond"
    BY <1>5, LeaveEffect DEF TypeOK
  <2>2. QED
    BY <1>5, <2>1, LeaveEffect DEF Claim
<1>6. QED
  BY <1>1, <1>2, <1>3, <1>4, <1>5 DEF Acts, Step

\* What a step may do to a completed record: nothing, or overwrite its response
\* after an aborted COMMIT.
KeepsCompleted ==
    \A k \in Keys : Completes(k) =>
        /\ Completes(k)'
        /\ rec'[k].hash = rec[k].hash
        /\ rec'[k].body # rec[k].body => aborts > 0

\* A session that changes a completed record is one of two that work on its key.
LEMMA CompletedStep ==
    ASSUME TypeOK, SessionsKnow, WorkIsExclusive, NEW s \in Sessions, Acts(s)
    PROVE  KeepsCompleted
<1> DEFINE k == req[s].key
<1>1. pc[s] # "idle" => req[s] \in Requests /\ k \in Keys
  BY ValueTypes DEF SessionsKnow, SessionKnows
<1>2. CASE rec' = rec
  BY <1>2 DEF KeepsCompleted, Completes
<1>3. CASE pc[s] = "commit" /\ rec' # rec
  <2>1. rec[k] = None /\ k \in Keys
    BY <1>1, <1>3 DEF SessionsKnow, SessionKnows
  <2>2. \A l \in Keys \ {k} : rec'[l] = rec[l]
    BY <1>3, <2>1, RecordSteps DEF ChangesRec, TypeOK
  <2>3. QED
    BY <2>1, <2>2 DEF KeepsCompleted, Completes
<1>4. CASE pc[s] = "discard" /\ rec' # rec
  <2>1. rec[k].state = "in_progress" /\ k \in Keys
    BY <1>1, <1>4, RecordSteps DEF ChangesRec
  <2>2. \A l \in Keys \ {k} : rec'[l] = rec[l]
    BY <1>4, <2>1, RecordSteps DEF ChangesRec, TypeOK
  <2>3. QED
    BY <2>1, <2>2 DEF KeepsCompleted, Completes
<1>5. CASE pc[s] = "complete" /\ rec' # rec
  <2>1. k \in Keys /\ reply[s].body \in Nat /\ rec' = Completed(k, reply[s].body)
    BY <1>1, <1>5, RecordSteps, ValueTypes DEF ChangesRec, SessionsKnow, SessionKnows
  <2>2. /\ \A l \in Keys \ {k} : rec'[l] = rec[l]
        /\ rec[k] # None => /\ rec'[k] # None /\ rec'[k].state = "completed"
                            /\ rec'[k].hash = rec[k].hash
    BY <2>1, CompletedEffect
  <2>3. rec[k].state = "completed" => aborts > 0
    BY <1>5 DEF WorkIsExclusive, WorkPC
  <2>4. QED
    BY <2>2, <2>3 DEF KeepsCompleted, Completes
<1>6. QED
  BY <1>2, <1>3, <1>4, <1>5, RecordSteps DEF ChangesRec

------------------------------------------------------------------------------
(***************************************************************************)
(* The work on a key.                                                      *)
(***************************************************************************)

\* A session begins to work by committing a claim, or by an earlier claim that
\* was aborted while it finds the key completed.
LEMMA BeginsWork ==
    ASSUME TypeOK, NEW s \in Sessions, Acts(s), pc'[s] \in WorkPC
    PROVE  /\ req'[s] = req[s]
           /\ \/ pc[s] = "work" /\ rec' = rec
              \/ /\ pc[s] = "commit"
                 /\ Claim(req[s].key, req[s])
              \/ pc[s] = "found" /\ claimed[s] /\ rec' = rec
<1> USE DEF WorkPC, Goto, durable, TypeOK
<1>1. CASE \/ \E k \in Keys, payload \in Payloads, header \in Headers \cup {None} :
                 Receive(s, k, payload, header)
           \/ CacheHit(s) \/ CacheMiss(s) \/ LockKey(s) \/ Discard(s) \/ Finish(s)
  BY <1>1 DEF Receive, CacheHit, CacheMiss, LockKey, Discard, Finish
<1>2. CASE Insert(s) \/ Fetch(s) \/ RetryableError(s) \/ LoseCommit(s)
  BY <1>2 DEF Insert, Fetch, RetryableError, LoseCommit, Fail
<1>3. CASE Respond(s) \/ Crash(s) \/ Complete(s)
  BY <1>3 DEF Respond, Crash, Complete, Forget
<1>4. CASE CommitClaim(s)
  BY <1>4 DEF CommitClaim
<1>5. CASE CommitFound(s)
  BY <1>5 DEF CommitFound
<1>6. CASE Work(s)
  BY <1>6 DEF Work
<1>7. CASE Leave(s)
  BY <1>7, LeaveEffect
<1>8. QED
  BY <1>1, <1>2, <1>3, <1>4, <1>5, <1>6, <1>7 DEF Acts, Step

\* A session that does not work on a key in progress leaves its record alone and
\* does not begin to work on it.
LEMMA KeyLeftAlone ==
    ASSUME IInv, NEW s \in Sessions, Acts(s), NEW k \in Keys, InProgress(k),
           ~(pc[s] \in WorkPC /\ req[s].key = k)
    PROVE  rec'[k] = rec[k] /\ ~(pc'[s] \in WorkPC /\ req'[s].key = k)
<1> USE DEF IInv, InProgress
<1>1. rec'[k] = rec[k]
  <2>1. CASE req[s].key = k
    <3>1. pc[s] # "commit"
      BY <2>1 DEF SessionsKnow, SessionKnows
    <3>2. pc[s] \notin {"discard", "complete"}
      BY <2>1 DEF WorkPC
    <3>3. QED
      BY <3>1, <3>2, RecordSteps DEF ChangesRec
  <2>2. CASE req[s].key # k
    <3>1. pc[s] = "complete" => req[s].key \in Keys /\ reply[s].body \in Nat
      BY ValueTypes DEF SessionsKnow, SessionKnows
    <3>2. pc[s] = "complete" =>
             Completed(req[s].key, reply[s].body)[k] = rec[k]
      BY <2>2, <3>1, CompletedEffect
    <3>3. QED
      BY <2>2, <3>2, RecordSteps DEF ChangesRec, TypeOK
  <2>3. QED
    BY <2>1, <2>2
<1>2. ASSUME pc'[s] \in WorkPC, req'[s].key = k
      PROVE  FALSE
  <2>1. req[s].key = k
    BY <1>2, BeginsWork
  <2>2. pc[s] # "work"
    BY <2>1 DEF WorkPC
  <2>3. pc[s] # "commit"
    BY <2>1 DEF SessionsKnow, SessionKnows
  <2>4. pc[s] # "found"
    BY <2>1 DEF SessionsKnow, SessionKnows, Stored
  <2>5. QED
    BY <1>2, <2>2, <2>3, <2>4, BeginsWork
<1>3. QED
  BY <1>1, <1>2

\* Every step of a session keeps the work exclusive.
LEMMA ExclusiveStep ==
    ASSUME IInv, TypeOK', NEW s \in Sessions, Acts(s)
    PROVE  WorkIsExclusive'
<1> DEFINE Mine(t) ==
             LET k == req'[t].key IN
             /\ rec'[k] # None
             /\ rec'[k].hash = Hash(req'[t])
             /\ \/ rec'[k].state = "completed" /\ aborts' > 0
                \/ /\ rec'[k].state = "in_progress"
                   /\ \A u \in Sessions \ {t} :
                         ~(pc'[u] \in WorkPC /\ req'[u].key = k)
<1> SUFFICES ASSUME NEW t \in Sessions, pc'[t] \in WorkPC
             PROVE  Mine(t)
  BY DEF WorkIsExclusive, Hash
<1> USE DEF IInv
<1>1. LeavesOthers(s) /\ ChangesRec(s) /\ KeepsCompleted
  BY ActsAlone, RecordSteps, CompletedStep
<1>2. aborts \in Nat /\ aborts' \in Nat /\ aborts' >= aborts
  BY <1>1 DEF TypeOK, LeavesOthers
<1>3. \A u \in Sessions : pc[u] # "idle" => req[u] \in Requests /\ req[u].key \in Keys
  BY ValueTypes DEF SessionsKnow, SessionKnows
<1>4. \A u \in Sessions : pc[u] \in WorkPC => pc[u] # "idle"
  BY DEF WorkPC
<1>5. CASE t = s
  <2> DEFINE k == req[s].key
  <2>1. req'[s] = req[s]
    BY <1>5, BeginsWork
  <2>2. CASE pc[s] = "work" /\ rec' = rec
    <3>1. pc[s] \in WorkPC
      BY <2>2 DEF WorkPC
    <3>2. \A u \in Sessions \ {s} : pc'[u] = pc[u] /\ req'[u] = req[u]
      BY <1>1 DEF LeavesOthers
    <3>3. QED
      BY <1>2, <1>5, <2>1, <2>2, <3>1, <3>2 DEF WorkIsExclusive
  <2>3. CASE pc[s] = "commit" /\ Claim(k, req[s])
    <3>1. k \in Keys /\ rec[k] = None
      BY <1>3, <2>3 DEF SessionsKnow, SessionKnows
    <3>2. rec'[k] = [hash |-> Hash(req[s]), state |-> "in_progress", body |-> 0]
      BY <2>3, <3>1 DEF Claim, TypeOK
    <3>3. rec'[k] # None
      BY <1>3, <2>3, <3>2, ValueTypes, RecordAssumption
    <3>4. ASSUME NEW u \in Sessions \ {s}, pc'[u] \in WorkPC, req'[u].key = k
          PROVE  FALSE
      <4>1. pc[u] \in WorkPC /\ req[u].key = k
        BY <1>1, <3>4 DEF LeavesOthers
      <4>2. QED
        BY <3>1, <4>1 DEF WorkIsExclusive
    <3>5. QED
      BY <1>5, <2>1, <3>2, <3>3, <3>4
  <2>4. CASE pc[s] = "found" /\ claimed[s] /\ rec' = rec
    <3>1. /\ rec[k] # None /\ rec[k].state = "completed"
          /\ rec[k].hash = Hash(req[s]) /\ aborts > 0
      BY <2>4 DEF SessionsKnow, SessionKnows, Stored, Completes, InTxPC
    <3>2. QED
      BY <1>2, <1>5, <2>1, <2>4, <3>1
  <2>5. QED
    BY <1>5, <2>2, <2>3, <2>4, BeginsWork
<1>6. CASE t # s
  <2> DEFINE k == req[t].key
  <2>1. pc[t] \in WorkPC /\ req'[t] = req[t] /\ k \in Keys
    BY <1>1, <1>3, <1>4, <1>6 DEF LeavesOthers
  <2>2. rec[k] # None /\ rec[k].hash = Hash(req[t])
    BY <2>1 DEF WorkIsExclusive
  <2>3. CASE rec[k].state = "completed" /\ aborts > 0
    <3>1. /\ rec'[k] # None /\ rec'[k].state = "completed"
          /\ rec'[k].hash = rec[k].hash
      BY <1>1, <2>1, <2>2, <2>3 DEF KeepsCompleted, Completes
    <3>2. QED
      BY <1>2, <2>1, <2>2, <2>3, <3>1
  <2>4. CASE /\ rec[k].state = "in_progress"
             /\ \A u \in Sessions \ {t} : ~(pc[u] \in WorkPC /\ req[u].key = k)
    <3>1. ~(pc[s] \in WorkPC /\ req[s].key = k)
      BY <1>6, <2>4
    <3>2. InProgress(k)
      BY <2>2, <2>4 DEF InProgress, Completes
    <3>3. rec'[k] = rec[k] /\ ~(pc'[s] \in WorkPC /\ req'[s].key = k)
      BY <2>1, <3>1, <3>2, KeyLeftAlone
    <3>4. \A u \in Sessions \ {s, t} : ~(pc'[u] \in WorkPC /\ req'[u].key = k)
      BY <1>1, <2>4 DEF LeavesOthers
    <3>5. \A u \in Sessions \ {t} : ~(pc'[u] \in WorkPC /\ req'[u].key = k)
      BY <3>3, <3>4
    <3>6. QED
      BY <2>1, <2>2, <2>4, <3>3, <3>5
  <2>5. QED
    BY <2>1, <2>3, <2>4 DEF WorkIsExclusive
<1>7. QED
  BY <1>5, <1>6

------------------------------------------------------------------------------
(***************************************************************************)
(* What the sessions know.                                                 *)
(***************************************************************************)

\* A success that a session is about to report is stored.
ReportsStored(s) ==
    pc[s] \in {"finish", "respond"} /\ reply[s].code = "ok" =>
        Stored(req[s].key, Hash(req[s]), reply[s].body)

\* The step of one session does not disturb what another one knows.
LEMMA OthersKnow ==
    ASSUME IInv, TypeOK', NEW s \in Sessions, Acts(s), NEW t \in Sessions \ {s}
    PROVE  SessionKnows(t)' /\ ReportsStored(t)'
<1> USE DEF IInv
<1>1. LeavesOthers(s) /\ ChangesRec(s) /\ KeepsCompleted
  BY ActsAlone, RecordSteps, CompletedStep
<1>2. SessionKnows(t) /\ ReportsStored(t)
  BY DEF SessionsKnow, SuccessIsStored, ReportsStored, Stored
<1>3. aborts \in Nat /\ aborts' \in Nat /\ aborts' >= aborts
  BY <1>1 DEF TypeOK, LeavesOthers
<1>4. /\ pc'[t] = pc[t] /\ req'[t] = req[t] /\ claimed'[t] = claimed[t]
      /\ reply'[t] = reply[t]
      /\ \A k \in Keys : keyLock[k] = t => keyLock'[k] = t
  BY <1>1 DEF LeavesOthers
<1>5. pc[t] # "idle" => req[t] \in Requests /\ req[t].key \in Keys
  BY <1>2, ValueTypes DEF SessionKnows
<1>6. ASSUME pc[t] = "commit"
      PROVE  rec'[req[t].key] = None
  <2> DEFINE k == req[t].key
  <2>1. k \in Keys /\ rec[k] = None /\ keyLock[k] = t
    BY <1>2, <1>5, <1>6 DEF SessionKnows, InTxPC
  <2>2. CASE rec' = rec
    BY <2>1, <2>2
  <2>3. CASE pc[s] = "commit" /\ rec' # rec
    <3>1. keyLock[req[s].key] = s /\ req[s].key \in Keys
      BY <2>3, ValueTypes DEF SessionsKnow, SessionKnows, InTxPC
    <3>2. req[s].key # k
      BY <2>1, <3>1
    <3>3. QED
      BY <1>1, <2>1, <2>3, <3>2 DEF ChangesRec, TypeOK
  <2>4. CASE pc[s] = "discard" /\ rec' # rec
    BY <1>1, <2>1, <2>4 DEF ChangesRec, TypeOK
  <2>5. CASE pc[s] = "complete" /\ rec' # rec
    <3>1. req[s].key \in Keys /\ reply[s].body \in Nat
      BY <2>5, ValueTypes DEF SessionsKnow, SessionKnows
    <3>2. rec' = Completed(req[s].key, reply[s].body)
      BY <1>1, <2>5 DEF ChangesRec
    <3>3. QED
      BY <2>1, <3>1, <3>2, CompletedEffect
  <2>6. QED
    BY <1>1, <2>2, <2>3, <2>4, <2>5 DEF ChangesRec
<1>7. ASSUME pc[t] \in {"found", "finish", "respond"},
             Stored(req[t].key, Hash(req[t]), reply[t].body)
      PROVE  Stored(req[t].key, Hash(req[t]), reply[t].body)'
  <2> DEFINE h == Hash(req[t])
             b == reply[t].body
  <2>1. req[t].key \in Keys
    BY <1>5, <1>7
  <2>2. /\ Completes(req[t].key) /\ rec[req[t].key].hash = h
        /\ rec[req[t].key].body = b \/ aborts > 0
    BY <1>7 DEF Stored
  <2>3. /\ Completes(req[t].key)' /\ rec'[req'[t].key].hash = Hash(req'[t])
        /\ rec'[req'[t].key].body = reply'[t].body \/ aborts' > 0
    BY <1>1, <1>3, <1>4, <2>1, <2>2 DEF KeepsCompleted, Completes
  <2>4. QED
    BY <2>3 DEF Stored, Hash
<1>8. SessionKnows(t)'
  <2>1. /\ pc'[t] # "idle" => req'[t] \in Requests
        /\ pc'[t] \in InTxPC \ {"lock"} => keyLock'[req'[t].key] = t
    BY <1>2, <1>4, <1>5 DEF SessionKnows, InTxPC
  <2>2. pc'[t] = "commit" => rec'[req'[t].key] = None
    BY <1>4, <1>6
  <2>3. /\ pc'[t] \in {"idle", "lookup"} => ~claimed'[t]
        /\ claimed'[t] /\ pc'[t] \in InTxPC \ {"commit"} => aborts' > 0
        /\ pc'[t] \in {"found", "complete", "finish", "discard", "respond"} =>
              reply'[t] \in Replies
        /\ pc'[t] \in {"found", "complete", "finish"} => reply'[t].code = "ok"
        /\ pc'[t] = "discard" => reply'[t].code # "ok"
    BY <1>2, <1>3, <1>4 DEF SessionKnows
  <2>4. pc'[t] = "found" => Stored(req[t].key, Hash(req[t]), reply[t].body)'
    BY <1>2, <1>4, <1>7 DEF SessionKnows
  <2>5. QED
    BY <2>1, <2>2, <2>3, <2>4 DEF SessionKnows
<1>9. ReportsStored(t)'
  BY <1>2, <1>4, <1>7 DEF ReportsStored
<1>10. QED
  BY <1>8, <1>9

\* Every step leaves the session with what it must know at its next statement.
LEMMA SelfKnows ==
    ASSUME IInv, TypeOK', NEW s \in Sessions, Acts(s)
    PROVE  SessionKnows(s)' /\ ReportsStored(s)'
<1> USE DEF IInv, Goto, Answer, Fail, Fault, durable, InTxPC
<1>1. SessionKnows(s) /\ ReportsStored(s)
  BY DEF SessionsKnow, SuccessIsStored, ReportsStored, Stored
<1>2. pc[s] # "idle" => req[s] \in Requests /\ req[s].key \in Keys
  BY <1>1, ValueTypes DEF SessionKnows
<1>3. \A c \in Codes, b \in Nat : [code |-> c, body |-> b] \in Replies
  BY ValueTypes
<1>4. ASSUME NEW k \in Keys, NEW payload \in Payloads,
             NEW header \in Headers \cup {None}, Receive(s, k, payload, header)
      PROVE  SessionKnows(s)' /\ ReportsStored(s)'
  <2>1. PICK id \in RequestIDs(header) :
             req' = [req EXCEPT ![s] = [key |-> k, payload |-> payload, id |-> id]]
    BY <1>4 DEF Receive
  <2>2. id \in Headers \cup UUIDs
    BY DEF RequestIDs
  <2>3. req'[s] \in Requests
    BY <2>1, <2>2 DEF Requests, TypeOK
  <2>4. pc'[s] = "lookup" /\ ~claimed'[s]
    BY <1>1, <1>4 DEF Receive, SessionKnows, TypeOK
  <2>5. QED
    BY <2>3, <2>4 DEF SessionKnows, ReportsStored
<1>5. CASE CacheHit(s)
  <2> DEFINE k == req[s].key
             entry == cache[k]
  <2>1. /\ k \in Keys /\ req'[s] \in Requests /\ entry # None /\ entry \in CacheEntries
        /\ pc'[s] = "respond" /\ req' = req /\ rec' = rec /\ aborts' = aborts
        /\ \/ /\ entry.hash = Hash(req[s])
              /\ reply'[s] = [code |-> "ok", body |-> entry.body]
           \/ reply'[s] = [code |-> "idempotency_conflict", body |-> 0]
    BY <1>2, <1>5 DEF CacheHit, TypeOK
  <2>2. reply'[s] \in Replies
    BY <1>3, <2>1, ValueTypes DEF Codes
  <2>3. Stored(k, entry.hash, entry.body)
    BY <2>1 DEF CacheIsStored
  <2>4. ReportsStored(s)'
    BY <2>1, <2>3 DEF ReportsStored, Stored, Completes, Hash
  <2>5. SessionKnows(s)'
    BY <2>1, <2>2 DEF SessionKnows
  <2>6. QED
    BY <2>4, <2>5
<1>6. CASE CacheMiss(s)
  <2>1. pc'[s] = "lock" /\ req'[s] \in Requests /\ ~claimed'[s]
    BY <1>1, <1>2, <1>6 DEF CacheMiss, SessionKnows, TypeOK
  <2>2. QED
    BY <2>1 DEF SessionKnows, ReportsStored
<1>7. CASE LockKey(s)
  <2>1. /\ pc'[s] = "insert" /\ req' = req /\ req'[s] \in Requests
        /\ keyLock'[req[s].key] = s /\ claimed' = claimed /\ aborts' = aborts
        /\ claimed[s] => aborts > 0
    BY <1>1, <1>2, <1>7 DEF LockKey, SessionKnows, TypeOK
  <2>2. QED
    BY <2>1 DEF SessionKnows, ReportsStored
<1>8. CASE Insert(s)
  <2>1. /\ req' = req /\ req'[s] \in Requests /\ keyLock' = keyLock /\ rec' = rec
        /\ keyLock[req[s].key] = s /\ aborts' = aborts
        /\ \/ pc'[s] = "commit" /\ rec[req[s].key] = None
           \/ pc'[s] = "fetch" /\ claimed' = claimed /\ (claimed[s] => aborts > 0)
    BY <1>1, <1>2, <1>8 DEF Insert, SessionKnows, TypeOK
  <2>2. QED
    BY <2>1 DEF SessionKnows, ReportsStored
<1>9. CASE Fetch(s)
  <2> DEFINE k == req[s].key
  <2>1. /\ k \in Keys /\ req' = req /\ req'[s] \in Requests /\ rec' = rec
        /\ keyLock[k] = s /\ aborts' = aborts /\ claimed' = claimed
        /\ claimed[s] => aborts > 0
    BY <1>1, <1>2, <1>9 DEF Fetch, SessionKnows, TypeOK
  <2>2. CASE pc'[s] = "found"
    <3>1. /\ rec[k] # None /\ rec[k].hash = Hash(req[s])
          /\ rec[k].state = "completed" /\ keyLock' = keyLock
          /\ reply'[s] = [code |-> "ok", body |-> rec[k].body]
      BY <1>9, <2>2 DEF Fetch, TypeOK
    <3>2. rec[k].body \in Nat
      BY <2>1, <3>1, ValueTypes DEF TypeOK
    <3>3. reply'[s] \in Replies /\ reply'[s].code = "ok" /\ reply'[s].body = rec[k].body
      BY <1>3, <3>1, <3>2 DEF Codes
    <3>4. Stored(req[s].key, Hash(req[s]), reply[s].body)'
      BY <2>1, <3>1, <3>3 DEF Stored, Completes, Hash
    <3>5. QED
      BY <2>1, <2>2, <3>1, <3>3, <3>4 DEF SessionKnows, ReportsStored
  <2>3. CASE pc'[s] # "found"
    <3>1. /\ pc'[s] = "respond"
          /\ \E c \in Codes \ {"ok"} : reply'[s] = [code |-> c, body |-> 0]
      BY <1>9, <2>3 DEF Fetch, TypeOK, Codes
    <3>2. reply'[s] \in Replies /\ reply'[s].code # "ok"
      BY <1>3, <3>1
    <3>3. QED
      BY <2>1, <3>1, <3>2 DEF SessionKnows, ReportsStored
  <2>4. QED
    BY <2>2, <2>3
<1>10. CASE CommitClaim(s)
  <2>1. pc'[s] = "work" /\ req'[s] \in Requests
    BY <1>2, <1>10 DEF CommitClaim, TypeOK
  <2>2. QED
    BY <2>1 DEF SessionKnows, ReportsStored
<1>11. CASE CommitFound(s)
  <2>1. /\ pc'[s] \in {"work", "finish"} /\ req' = req /\ req'[s] \in Requests
        /\ reply' = reply /\ reply[s] \in Replies /\ reply[s].code = "ok"
        /\ rec' = rec /\ aborts' = aborts
        /\ Stored(req[s].key, Hash(req[s]), reply[s].body)
    BY <1>1, <1>2, <1>11 DEF CommitFound, SessionKnows, TypeOK
  <2>2. QED
    BY <2>1 DEF SessionKnows, ReportsStored, Stored, Completes, Hash
<1>12. CASE RetryableError(s)
  <2>1. /\ req' = req /\ req'[s] \in Requests /\ claimed' = claimed
        /\ aborts \in Nat /\ aborts' \in {aborts, aborts + 1}
        /\ claimed[s] => aborts' > 0
    BY <1>1, <1>2, <1>12 DEF RetryableError, SessionKnows, TypeOK
  <2>2. \/ pc'[s] = "lock"
        \/ pc'[s] = "respond" /\ reply'[s] = [code |-> "internal_error", body |-> 0]
    BY <1>12 DEF RetryableError, TypeOK
  <2>3. CASE pc'[s] = "lock"
    BY <2>1, <2>3 DEF SessionKnows, ReportsStored
  <2>4. CASE pc'[s] = "respond" /\ reply'[s] = [code |-> "internal_error", body |-> 0]
    <3>1. reply'[s] \in Replies /\ reply'[s].code # "ok"
      BY <1>3, <2>4 DEF Codes
    <3>2. QED
      BY <2>1, <2>4, <3>1 DEF SessionKnows, ReportsStored
  <2>5. QED
    BY <2>2, <2>3, <2>4
<1>13. CASE LoseCommit(s)
  <2>1. /\ pc'[s] = "respond" /\ req'[s] \in Requests
        /\ reply'[s] = [code |-> "internal_error", body |-> 0]
    BY <1>2, <1>13 DEF LoseCommit, TypeOK
  <2>2. reply'[s] \in Replies /\ reply'[s].code # "ok"
    BY <1>3, <2>1 DEF Codes
  <2>3. QED
    BY <2>1, <2>2 DEF SessionKnows, ReportsStored
<1>14. CASE Work(s)
  <2>1. /\ req'[s] \in Requests /\ replays + 1 \in Nat
        /\ \/ /\ pc'[s] = "discard"
              /\ reply'[s] = [code |-> "internal_error", body |-> 0]
           \/ /\ pc'[s] = "complete"
              /\ reply'[s] = [code |-> "ok", body |-> replays + 1]
    BY <1>2, <1>14 DEF Work, TypeOK
  <2>2. /\ reply'[s] \in Replies
        /\ pc'[s] = "complete" => reply'[s].code = "ok"
        /\ pc'[s] = "discard" => reply'[s].code # "ok"
    BY <1>3, <2>1 DEF Codes
  <2>3. QED
    BY <2>1, <2>2 DEF SessionKnows, ReportsStored
<1>15. CASE Discard(s)
  <2>1. /\ pc'[s] = "respond" /\ req'[s] \in Requests
        /\ reply'[s] \in Replies /\ reply'[s].code # "ok"
    BY <1>1, <1>2, <1>15 DEF Discard, SessionKnows, TypeOK
  <2>2. QED
    BY <2>1 DEF SessionKnows, ReportsStored
<1>16. CASE Complete(s)
  <2> DEFINE k == req[s].key
  <2>1. /\ k \in Keys /\ req' = req /\ req'[s] \in Requests /\ pc[s] = "complete"
        /\ reply[s] \in Replies /\ reply[s].code = "ok" /\ reply[s].body \in Nat
    BY <1>1, <1>2, <1>16, ValueTypes DEF Complete, SessionKnows
  <2>2. rec[k] # None /\ rec[k].hash = Hash(req[s])
    BY <2>1 DEF WorkIsExclusive, WorkPC
  <2>3. CASE pc'[s] = "finish"
    <3>1. rec' = Completed(k, reply[s].body) /\ reply' = reply
      BY <1>16, <2>3 DEF Complete, TypeOK
    <3>2. /\ rec'[k] # None /\ rec'[k].state = "completed"
          /\ rec'[k].hash = Hash(req[s]) /\ rec'[k].body = reply[s].body
      BY <2>1, <2>2, <3>1, CompletedEffect
    <3>3. QED
      BY <2>1, <2>3, <3>1, <3>2 DEF SessionKnows, ReportsStored, Stored, Completes, Hash
  <2>4. CASE pc'[s] # "finish"
    <3>1. pc'[s] = "respond" /\ reply'[s] = [code |-> "internal_error", body |-> 0]
      BY <1>16, <2>4 DEF Complete, TypeOK
    <3>2. reply'[s] \in Replies /\ reply'[s].code # "ok"
      BY <1>3, <3>1 DEF Codes
    <3>3. QED
      BY <2>1, <3>1, <3>2 DEF SessionKnows, ReportsStored
  <2>5. QED
    BY <2>3, <2>4
<1>17. CASE Finish(s)
  <2>1. /\ pc'[s] = "respond" /\ req' = req /\ req'[s] \in Requests
        /\ reply' = reply /\ reply'[s] \in Replies /\ rec' = rec /\ aborts' = aborts
        /\ Stored(req[s].key, Hash(req[s]), reply[s].body)
    BY <1>1, <1>2, <1>17 DEF Finish, SessionKnows, ReportsStored, TypeOK
  <2>2. QED
    BY <2>1 DEF SessionKnows, ReportsStored, Stored, Completes, Hash
<1>18. CASE Respond(s) \/ Crash(s)
  <2>1. pc'[s] = "idle" /\ ~claimed'[s]
    BY <1>18 DEF Respond, Crash, Forget, TypeOK
  <2>2. QED
    BY <2>1 DEF SessionKnows, ReportsStored
<1>19. CASE Leave(s)
  <2>1. /\ pc'[s] \in {"respond", "discard"} /\ req' = req /\ req'[s] \in Requests
        /\ reply'[s] = [code |-> "internal_error", body |-> 0]
    BY <1>2, <1>19, LeaveEffect DEF TypeOK
  <2>2. reply'[s] \in Replies /\ reply'[s].code # "ok"
    BY <1>3, <2>1 DEF Codes
  <2>3. QED
    BY <2>1, <2>2 DEF SessionKnows, ReportsStored
<1>20. QED
  BY <1>4, <1>5, <1>6, <1>7, <1>8, <1>9, <1>10, <1>11, <1>12, <1>13, <1>14,
     <1>15, <1>16, <1>17, <1>18, <1>19
  DEF Acts, Step

------------------------------------------------------------------------------
(***************************************************************************)
(* The invariant and the theorems.                                         *)
(***************************************************************************)

\* Only Finish writes to the cache, and what it writes is stored.
LEMMA CacheStep ==
    ASSUME IInv, TypeOK', NEW s \in Sessions, Acts(s)
    PROVE  CacheIsStored'
<1> USE DEF IInv
<1>1. KeepsCompleted /\ LeavesOthers(s)
  BY ActsAlone, CompletedStep
<1>2. aborts \in Nat /\ aborts' \in Nat /\ aborts' >= aborts
  BY <1>1 DEF TypeOK, LeavesOthers
<1>3. \/ cache' = cache
      \/ /\ Finish(s)
         /\ cache' = [cache EXCEPT ![req[s].key] =
                        [hash |-> Hash(req[s]), body |-> reply[s].body]]
  BY DEF Acts, Step, Receive, CacheHit, CacheMiss, LockKey, Insert, Fetch,
         CommitClaim, CommitFound, RetryableError, LoseCommit, Leave, Work, Discard,
         Complete, Finish, Respond, Crash, durable
<1>4. CASE cache' = cache
  <2>1. ASSUME NEW k \in Keys, cache[k] # None
        PROVE  /\ Completes(k)' /\ rec'[k].hash = cache[k].hash
               /\ rec'[k].body = cache[k].body \/ aborts' > 0
    BY <1>1, <1>2, <2>1 DEF CacheIsStored, Stored, KeepsCompleted
  <2>2. QED
    BY <1>4, <2>1 DEF CacheIsStored, Stored
<1>5. CASE /\ Finish(s)
           /\ cache' = [cache EXCEPT ![req[s].key] =
                          [hash |-> Hash(req[s]), body |-> reply[s].body]]
  <2> DEFINE k == req[s].key
             entry == [hash |-> Hash(req[s]), body |-> reply[s].body]
  <2>1. k \in Keys /\ pc[s] = "finish" /\ reply[s].code = "ok"
    BY <1>5, ValueTypes DEF Finish, SessionsKnow, SessionKnows
  <2>2. Stored(k, Hash(req[s]), reply[s].body)
    BY <2>1 DEF SuccessIsStored, Stored
  <2>3. /\ cache'[k] = entry /\ entry.hash = Hash(req[s]) /\ entry.body = reply[s].body
        /\ \A l \in Keys \ {k} : cache'[l] = cache[l]
    BY <1>5, <2>1 DEF TypeOK
  <2>4. rec' = rec /\ aborts' = aborts
    BY <1>5 DEF Finish
  <2>5. QED
    BY <2>2, <2>3, <2>4 DEF CacheIsStored, Stored, Completes
<1>6. QED
  BY <1>3, <1>4, <1>5

\* Every step keeps the invariant.
LEMMA InvariantStep == IInv /\ [Next]_vars => IInv'
<1> SUFFICES ASSUME IInv, [Next]_vars
             PROVE  IInv'
  OBVIOUS
<1>1. TypeOK'
  BY TypeStep DEF IInv
<1>2. ASSUME NEW s \in Sessions, Acts(s)
      PROVE  IInv'
  <2>1. \A t \in Sessions : SessionKnows(t)' /\ ReportsStored(t)'
    BY <1>1, <1>2, SelfKnows, OthersKnow
  <2>2. SessionsKnow'
    BY <2>1 DEF SessionsKnow
  <2>3. SuccessIsStored'
    BY <2>1 DEF SuccessIsStored, ReportsStored, Stored
  <2>4. CacheIsStored' /\ WorkIsExclusive'
    BY <1>1, <1>2, CacheStep, ExclusiveStep
  <2>5. QED
    BY <1>1, <2>2, <2>3, <2>4 DEF IInv
<1>3. ASSUME NEW k \in Keys, Evict(k)
      PROVE  IInv'
  <2>1. /\ UNCHANGED <<rec, keyLock, pc, req, claimed, reply, aborts>>
        /\ \A l \in Keys : cache'[l] # None => cache'[l] = cache[l]
    BY <1>3 DEF Evict, IInv, TypeOK
  <2>2. SessionsKnow'
    BY <2>1 DEF IInv, SessionsKnow, SessionKnows, Stored, Completes, Hash
  <2>3. SuccessIsStored' /\ WorkIsExclusive'
    BY <2>1 DEF IInv, SuccessIsStored, WorkIsExclusive, Completes, Hash
  <2>4. CacheIsStored'
    BY <2>1 DEF IInv, CacheIsStored, Stored, Completes
  <2>5. QED
    BY <1>1, <2>2, <2>3, <2>4 DEF IInv
<1>4. CASE UNCHANGED vars
  <2>1. UNCHANGED <<rec, cache, keyLock, pc, req, claimed, reply, aborts>>
    BY <1>4 DEF vars, durable
  <2>2. SessionsKnow'
    BY <2>1 DEF IInv, SessionsKnow, SessionKnows, Stored, Completes, Hash
  <2>3. SuccessIsStored' /\ WorkIsExclusive' /\ CacheIsStored'
    BY <2>1
    DEF IInv, SuccessIsStored, WorkIsExclusive, CacheIsStored, Stored, Completes, Hash
  <2>4. QED
    BY <1>1, <2>2, <2>3 DEF IInv
<1>5. QED
  BY <1>2, <1>3, <1>4 DEF Next, Acts

\* The invariant holds in every state.
LEMMA Invariance == Spec => []IInv
<1>1. Init => IInv
  <2> SUFFICES ASSUME Init
               PROVE  IInv
    OBVIOUS
  <2>1. TypeOK
    BY ReplayAssumption DEF Init, TypeOK
  <2>2. SessionsKnow
    BY DEF Init, SessionsKnow, SessionKnows, InTxPC
  <2>3. CacheIsStored /\ WorkIsExclusive /\ SuccessIsStored
    BY DEF Init, CacheIsStored, WorkIsExclusive, SuccessIsStored, WorkPC
  <2>4. QED
    BY <2>1, <2>2, <2>3 DEF IInv
<1>2. QED
  BY <1>1, InvariantStep, PTL DEF Spec

\* Type correctness of the replay endpoint.
THEOREM TypeCorrect == Spec => []TypeOK
<1>1. IInv => TypeOK
  BY DEF IInv
<1>2. QED
  BY <1>1, Invariance, PTL

\* Two sessions never work on one claim: Discard and Complete, which do not say
\* whose claim they mean, never touch the claim of another request.
THEOREM ClaimsAreExclusive == Spec => []WorkIsExclusive
<1>1. IInv => WorkIsExclusive
  BY DEF IInv
<1>2. QED
  BY <1>1, Invariance, PTL

\* A success is answered only with the stored response of this very request.
THEOREM NoFalseSuccess == Spec => []SuccessIsStored
<1>1. IInv => SuccessIsStored
  BY DEF IInv
<1>2. QED
  BY <1>1, Invariance, PTL

\* A completed record is never withdrawn, and its response is overwritten only
\* after PostgreSQL has aborted a COMMIT.
THEOREM ResultsAreDurable == Spec => CompletedIsDurable
<1>1. IInv /\ [Next]_vars => [KeepsCompleted]_vars
  <2> SUFFICES ASSUME IInv, Next
               PROVE  KeepsCompleted
    OBVIOUS
  <2>1. ASSUME NEW s \in Sessions, Acts(s)
        PROVE  KeepsCompleted
    BY <2>1, CompletedStep DEF IInv
  <2>2. ASSUME NEW k \in Keys, Evict(k)
        PROVE  KeepsCompleted
    BY <2>2 DEF Evict, KeepsCompleted, Completes
  <2>3. QED
    BY <2>1, <2>2 DEF Next, Acts
<1>2. Spec => [][KeepsCompleted]_vars
  BY <1>1, Invariance, PTL DEF Spec
<1>3. QED
  BY <1>2 DEF CompletedIsDurable, KeepsCompleted

\* A claim that has been left behind stays in progress: no later request takes
\* it over, completes it or removes it.
THEOREM StrandedStaysStranded == Spec => StrandedForGood
<1> DEFINE Kept == \A k \in Keys : Stranded(k) => rec'[k] = rec[k] /\ Stranded(k)'
<1>1. IInv /\ [Next]_vars => [Kept]_vars
  <2> SUFFICES ASSUME IInv, Next, NEW k \in Keys, Stranded(k)
               PROVE  rec'[k] = rec[k] /\ Stranded(k)'
    OBVIOUS
  <2>1. InProgress(k) /\ \A s \in Sessions : ~(pc[s] \in WorkPC /\ req[s].key = k)
    BY DEF Stranded
  <2>2. ASSUME NEW s \in Sessions, Acts(s)
        PROVE  rec'[k] = rec[k] /\ Stranded(k)'
    <3>1. rec'[k] = rec[k] /\ ~(pc'[s] \in WorkPC /\ req'[s].key = k)
      BY <2>1, <2>2, KeyLeftAlone
    <3>2. \A t \in Sessions \ {s} : pc'[t] = pc[t] /\ req'[t] = req[t]
      BY <2>2, ActsAlone DEF IInv, LeavesOthers
    <3>3. \A t \in Sessions : ~(pc'[t] \in WorkPC /\ req'[t].key = k)
      BY <2>1, <3>1, <3>2
    <3>4. QED
      BY <2>1, <3>1, <3>3 DEF Stranded, InProgress, Completes
  <2>3. ASSUME NEW l \in Keys, Evict(l)
        PROVE  rec'[k] = rec[k] /\ Stranded(k)'
    BY <2>1, <2>3 DEF Evict, Stranded, InProgress, Completes
  <2>4. QED
    BY <2>2, <2>3 DEF Next, Acts
<1>2. Spec => [][Kept]_vars
  BY <1>1, Invariance, PTL DEF Spec
<1>3. QED
  BY <1>2 DEF StrandedForGood
==============================================================================
