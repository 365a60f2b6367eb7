------------------------------- MODULE Outbox -------------------------------
(***************************************************************************)
(* The transactional outbox and its publishers (src/internal/outbox,       *)
(* src/cmd/outbox-worker, src/cmd/replay): the life of the rows of         *)
(* outbox_events after the ledger has committed them.                      *)
(*                                                                         *)
(* Any number of workers claim batches of rows under a lease (the claim    *)
(* TTL), publish them to Kafka and record the outcome, one statement at a  *)
(* time, while operators replay history.  A publish may fail although      *)
(* Kafka has stored the message, a worker may die or lose PostgreSQL       *)
(* between any two statements, and a lease may lapse under a slow worker   *)
(* that is still working through its batch.                                *)
(*                                                                         *)
(* Time is abstracted to two facts about a row: whether next_attempt_at    *)
(* has passed (due) and whether its lease has run out (lapsed).            *)
(***************************************************************************)
EXTENDS Integers, FiniteSets

CONSTANTS EventIDs,     \* event ids; the order is (created_at, id)
          Workers,      \* publisher replicas
          BatchSize,    \* OUTBOX_BATCH_SIZE
          MaxAttempts,  \* OUTBOX_MAX_ATTEMPTS
          MaxFaults,    \* bound on worker crashes and PostgreSQL failures
          MaxReplays,   \* bound on replays
          None          \* a row that does not exist, no event in hand

ASSUME OutboxAssumption ==
    /\ EventIDs \subseteq Int
    /\ BatchSize \in Nat \ {0}
    /\ MaxAttempts \in Nat \ {0}
    /\ MaxFaults \in Nat
    /\ MaxReplays \in Nat
    /\ None \notin EventIDs
    /\ IsFiniteSet(Workers)

VARIABLES row,      \* outbox_events, by id
          topic,    \* Kafka: the events on their topic, however often
          dlq,      \* Kafka: the events on payments.dlq
          pc,       \* by worker, the statement it executes next
          batch,    \* by worker, the claimed records it has not started
          cur,      \* by worker, the record it is publishing or None
          replay,   \* the records the replayer still has to republish
          faults,   \* crashes and PostgreSQL failures so far
          replays   \* replays so far

workers == <<pc, batch, cur>>

vars == <<row, topic, dlq, workers, replay, faults, replays>>

Statuses == {"pending", "publishing", "published", "dead_letter"}

Rows == [status : Statuses, attempts : Nat, due : BOOLEAN, lapsed : BOOLEAN]

ASSUME RowAssumption == None \notin Rows

Init ==
    /\ row = [e \in EventIDs |-> None]
    /\ topic = {}
    /\ dlq = {}
    /\ pc = [w \in Workers |-> "poll"]
    /\ batch = [w \in Workers |-> {}]
    /\ cur = [w \in Workers |-> None]
    /\ replay = {}
    /\ faults = 0
    /\ replays = 0

\* The ledger commits an event; next_attempt_at defaults to now().  Rows may
\* commit in another order than they were created.
Insert(e) ==
    /\ row[e] = None
    /\ row' = [row EXCEPT ![e] = [status |-> "pending", attempts |-> 0,
                                  due |-> TRUE, lapsed |-> FALSE]]
    /\ UNCHANGED <<topic, dlq, workers, replay, faults, replays>>

(***************************************************************************)
(* A publisher.                                                            *)
(***************************************************************************)

\* A mutant of Claimable: a lapsed claim is not taken over.
PendingAndDue(e) ==
    /\ row[e] # None
    /\ row[e].due
    /\ row[e].status = "pending"

\* The WHERE clause of Claim.
Claimable(e) ==
    /\ row[e] # None
    /\ row[e].due
    /\ \/ row[e].status = "pending"
       \/ row[e].status = "publishing" /\ row[e].lapsed

\* The first BatchSize of them ORDER BY created_at, id.
NextBatch ==
    LET due == {e \in EventIDs : Claimable(e)}
    IN  {e \in due : Cardinality({f \in due : f < e}) < BatchSize}

\* Claim: one UPDATE ... RETURNING under FOR UPDATE SKIP LOCKED.  It waits for
\* nobody and returns its rows in no particular order; with nothing due, the
\* publisher polls again.
Claim(w) ==
    /\ pc[w] = "poll"
    /\ batch[w] = {}
    /\ row' = [e \in EventIDs |->
                 IF e \in NextBatch
                 THEN [row[e] EXCEPT !.status = "publishing", !.lapsed = FALSE]
                 ELSE row[e]]
    /\ batch' = [batch EXCEPT ![w] = NextBatch]
    /\ UNCHANGED <<topic, dlq, pc, cur, replay, faults, replays>>

\* A mutant of Publish: the error of the producer is dropped.
PublishUnchecked(w, e) ==
    /\ pc[w] = "poll"
    /\ e \in batch[w]
    /\ batch' = [batch EXCEPT ![w] = @ \ {e}]
    /\ cur' = [cur EXCEPT ![w] = e]
    /\ pc' = [pc EXCEPT ![w] = "published"]
    /\ topic' \in {topic, topic \cup {e}}
    /\ UNCHANGED <<row, dlq, replay, faults, replays>>

\* publishOne up to the answer of Kafka.  When it is an error (or the
\* failpoint before_kafka_publish), Kafka may or may not have the message.
Publish(w, e) ==
    /\ pc[w] = "poll"
    /\ e \in batch[w]
    /\ batch' = [batch EXCEPT ![w] = @ \ {e}]
    /\ cur' = [cur EXCEPT ![w] = e]
    /\ \/ /\ topic' = topic \cup {e}
          /\ pc' = [pc EXCEPT ![w] = "published"]
       \/ /\ topic' \in {topic, topic \cup {e}}
          /\ pc' = [pc EXCEPT ![w] = "failed"]
    /\ UNCHANGED <<row, dlq, replay, faults, replays>>

\* A mutant of Done: the worker keeps the record.
DoneHolding(w) ==
    /\ pc' = [pc EXCEPT ![w] = "poll"]
    /\ UNCHANGED cur

\* The worker has dealt with the record in its hand.
Done(w) ==
    /\ pc' = [pc EXCEPT ![w] = "poll"]
    /\ cur' = [cur EXCEPT ![w] = None]

\* MarkPublished: UPDATE ... WHERE status <> 'published', whoever holds the
\* lease by now.
MarkPublished(w) ==
    LET e == cur[w] IN
    /\ pc[w] = "published"
    /\ row' = IF row[e].status = "published" THEN row
              ELSE [row EXCEPT ![e].status = "published",
                               ![e].attempts = @ + 1]
    /\ Done(w)
    /\ UNCHANGED <<topic, dlq, batch, replay, faults, replays>>

\* A mutant of Retried: one attempt too many.
RetriedOnceMore(r) ==
    [r EXCEPT !.status = IF r.attempts >= MaxAttempts
                         THEN "dead_letter" ELSE "pending",
              !.attempts = @ + 1,
              !.due = FALSE]

\* A failed attempt: the row is due again later, or dead.
Retried(r) ==
    [r EXCEPT !.status = IF r.attempts + 1 >= MaxAttempts
                         THEN "dead_letter" ELSE "pending",
              !.attempts = @ + 1,
              !.due = FALSE]

\* A mutant of MarkFailed: the table lacks published_has_timestamp.
MarkFailedAnyway(w) ==
    LET e == cur[w] IN
    /\ pc[w] = "failed"
    /\ row' = [row EXCEPT ![e] = Retried(@)]
    /\ Done(w)
    /\ UNCHANGED <<topic, dlq, batch, replay, faults, replays>>

\* fail: MarkFailed, also unconditional.  On a row that is published by now
\* the UPDATE violates published_has_timestamp and changes nothing.
MarkFailed(w) ==
    LET e == cur[w] IN
    /\ pc[w] = "failed"
    /\ \/ /\ row[e].status = "published"
          /\ Done(w)
          /\ UNCHANGED row
       \/ /\ row[e].status # "published"
          /\ row' = [row EXCEPT ![e] = Retried(@)]
          /\ IF row'[e].status = "dead_letter"
             THEN pc' = [pc EXCEPT ![w] = "dead"] /\ UNCHANGED cur
             ELSE Done(w)
    /\ UNCHANGED <<topic, dlq, batch, replay, faults, replays>>

\* publishToDLQ: one attempt, whose failure is only logged.
PublishToDLQ(w) ==
    /\ pc[w] = "dead"
    /\ dlq' \in {dlq, dlq \cup {cur[w]}}
    /\ Done(w)
    /\ UNCHANGED <<row, topic, batch, replay, faults, replays>>

\* The failpoint after_kafka_publish, or PostgreSQL fails under MarkPublished
\* or MarkFailed: the worker goes on, and the row keeps its lease.
LoseOutcome(w) ==
    /\ pc[w] \in {"published", "failed"}
    /\ faults < MaxFaults
    /\ faults' = faults + 1
    /\ Done(w)
    /\ UNCHANGED <<row, topic, dlq, batch, replay, replays>>

\* The worker dies, or stops with a part of its batch, and starts again.
Crash(w) ==
    /\ batch[w] # {} \/ cur[w] # None
    /\ faults < MaxFaults
    /\ faults' = faults + 1
    /\ Done(w)
    /\ batch' = [batch EXCEPT ![w] = {}]
    /\ UNCHANGED <<row, topic, dlq, replay, replays>>

(***************************************************************************)
(* The passage of time.                                                    *)
(***************************************************************************)

\* next_attempt_at passes: the backoff is over.
BackoffEnds(e) ==
    /\ row[e] # None
    /\ ~row[e].due
    /\ row' = [row EXCEPT ![e].due = TRUE]
    /\ UNCHANGED <<topic, dlq, workers, replay, faults, replays>>

\* claimed_at + claimTTL passes.
LeaseLapses(e) ==
    /\ row[e] # None
    /\ row[e].status = "publishing"
    /\ ~row[e].lapsed
    /\ row' = [row EXCEPT ![e].lapsed = TRUE]
    /\ UNCHANGED <<topic, dlq, workers, replay, faults, replays>>

(***************************************************************************)
(* Replay.                                                                 *)
(***************************************************************************)

\* Replay lists the rows of a time range (or of one transaction), whatever
\* their status, oldest first and up to a limit.
ReplayHistory(from, to) ==
    LET matched == {e \in EventIDs : row[e] # None /\ from <= e /\ e <= to} IN
    /\ replay = {}
    /\ matched # {}
    /\ replays < MaxReplays
    /\ replays' = replays + 1
    /\ replay' = matched
    /\ UNCHANGED <<row, topic, dlq, workers, faults>>

\* It publishes them under their own event ids and writes nothing else; a
\* failure is counted and skipped.  A replayer that dies is one whose remaining
\* publishes all fail.
ReplayOne(e) ==
    /\ e \in replay
    /\ \A f \in replay : e <= f
    /\ replay' = replay \ {e}
    /\ topic' \in {topic, topic \cup {e}}
    /\ UNCHANGED <<row, dlq, workers, faults, replays>>

Step(w) ==
    \/ Claim(w)
    \/ \E e \in EventIDs : Publish(w, e)
    \/ MarkPublished(w)
    \/ MarkFailed(w)
    \/ PublishToDLQ(w)

Next ==
    \/ \E e \in EventIDs :
          \/ Insert(e)
          \/ BackoffEnds(e)
          \/ LeaseLapses(e)
          \/ ReplayOne(e)
          \/ \E f \in EventIDs : ReplayHistory(e, f)
    \/ \E w \in Workers : Step(w) \/ LoseOutcome(w) \/ Crash(w)

Spec == Init /\ [][Next]_vars

\* Time passes, and every publisher is running or restarted.
FairSpec ==
    /\ Spec
    /\ \A w \in Workers : WF_vars(Step(w))
    /\ \A e \in EventIDs : WF_vars(BackoffEnds(e)) /\ WF_vars(LeaseLapses(e))

-----------------------------------------------------------------------------
(***************************************************************************)
(* Properties.                                                             *)
(***************************************************************************)

\* Type correctness: a worker that waits for an answer has a record in hand,
\* and workers and the replayer hold only rows that exist.
TypeOK ==
    /\ row \in [EventIDs -> Rows \cup {None}]
    /\ topic \in SUBSET EventIDs
    /\ dlq \in SUBSET EventIDs
    /\ pc \in [Workers -> {"poll", "published", "failed", "dead"}]
    /\ batch \in [Workers -> SUBSET {e \in EventIDs : row[e] # None}]
    /\ cur \in [Workers -> EventIDs \cup {None}]
    /\ \A w \in Workers : /\ cur[w] = None <=> pc[w] = "poll"
                          /\ cur[w] # None => row[cur[w]] # None
    /\ replay \in SUBSET {e \in EventIDs : row[e] # None}
    /\ faults \in 0..MaxFaults
    /\ replays \in 0..MaxReplays

\* No event is lost: a row says published only when Kafka has acknowledged the
\* event, whichever workers shared it and whatever they lost in between.
PublishedIsOnKafka ==
    \A e \in EventIDs :
        row[e] # None /\ row[e].status = "published" => e \in topic

\* A row is dead-lettered exactly when the attempt budget is used up, although
\* workers whose lease has lapsed spend it too.
DeadLetteredAtBudget ==
    \A e \in EventIDs : row[e] # None =>
        /\ row[e].status = "dead_letter" => row[e].attempts >= MaxAttempts
        /\ row[e].status \in {"pending", "publishing"} =>
              row[e].attempts < MaxAttempts

\* Only workers that still hold a stale claim can spend more than the budget.
AttemptsBounded ==
    \A e \in EventIDs : row[e] # None =>
        row[e].attempts <= MaxAttempts + Cardinality(Workers) - 1

\* Published is final, and dead_letter can only become published: a late
\* failure of another worker never reopens a row, and rows are never removed.
SettledIsFinal ==
    [][\A e \in EventIDs : row[e] # None =>
          /\ row'[e] # None
          /\ row[e].status = "published" =>
                /\ row'[e].status = "published"
                /\ row'[e].attempts = row[e].attempts
          /\ row[e].status = "dead_letter" =>
                row'[e].status \in {"dead_letter", "published"}]_vars

\* Every committed event is eventually published or dead-lettered, although
\* workers crash in the middle of a batch and no other process frees a claim.
EventsSettle ==
    \A e \in EventIDs :
        (row[e] # None) ~>
            (row[e] # None /\ row[e].status \in {"published", "dead_letter"})
=============================================================================
