---------------------------- MODULE OutboxProofs -----------------------------
(***************************************************************************)
(* Theorems about Outbox, for every set of events and publishers, every    *)
(* batch size and every attempt budget.                                    *)
(***************************************************************************)
EXTENDS Outbox, FiniteSetTheorems, TLAPS

\* A worker that is about to record a success has the answer of Kafka.
SentIsOnKafka == \A w \in Workers : pc[w] = "published" => cur[w] \in topic

\* The workers that may still record an outcome for an event: they have it in
\* their batch, or have published it and not written the row yet.
Holders(e) == {w \in Workers : e \in batch[w] \/ (cur[w] = e /\ pc[w] # "dead")}

\* A worker has an event either in its batch or in its hand.
HeldOnce == \A w \in Workers : cur[w] \notin batch[w]

\* The attempts made, and those that workers with a claim, stale or not, may
\* still make.
Budget ==
    \A e \in EventIDs : row[e] # None =>
        row[e].attempts + Cardinality(Holders(e))
            <= MaxAttempts + Cardinality(Workers) - 1

------------------------------------------------------------------------------
(***************************************************************************)
(* What the statements do to a row.                                        *)
(***************************************************************************)

\* Every UPDATE writes a row, with these fields.
LEMMA UpdatedRow ==
    ASSUME NEW r \in Rows
    PROVE  LET due == [r EXCEPT !.due = TRUE]
               lapsed == [r EXCEPT !.lapsed = TRUE]
               claimed == [r EXCEPT !.status = "publishing", !.lapsed = FALSE]
               done == [r EXCEPT !.status = "published", !.attempts = @ + 1]
           IN  /\ due \in Rows /\ due.status = r.status /\ due.attempts = r.attempts
               /\ lapsed \in Rows
               /\ lapsed.status = r.status /\ lapsed.attempts = r.attempts
               /\ claimed \in Rows
               /\ claimed.status = "publishing" /\ claimed.attempts = r.attempts
               /\ done \in Rows
               /\ done.status = "published" /\ done.attempts = r.attempts + 1
               /\ Retried(r) \in Rows
               /\ Retried(r).attempts = r.attempts + 1
               /\ Retried(r).status = IF r.attempts + 1 >= MaxAttempts
                                      THEN "dead_letter" ELSE "pending"
<1> DEFINE n == r.attempts + 1
           st == IF n >= MaxAttempts THEN "dead_letter" ELSE "pending"
<1>1. n \in Nat /\ st \in Statuses
  BY DEF Rows, Statuses
<1>2. /\ [r EXCEPT !.due = TRUE] \in Rows
      /\ [r EXCEPT !.due = TRUE].status = r.status
      /\ [r EXCEPT !.due = TRUE].attempts = r.attempts
  BY DEF Rows
<1>3. /\ [r EXCEPT !.lapsed = TRUE] \in Rows
      /\ [r EXCEPT !.lapsed = TRUE].status = r.status
      /\ [r EXCEPT !.lapsed = TRUE].attempts = r.attempts
  BY DEF Rows
<1>4. /\ [r EXCEPT !.status = "publishing", !.lapsed = FALSE] \in Rows
      /\ [r EXCEPT !.status = "publishing", !.lapsed = FALSE].status = "publishing"
      /\ [r EXCEPT !.status = "publishing", !.lapsed = FALSE].attempts = r.attempts
  BY DEF Rows, Statuses
<1>5. /\ [r EXCEPT !.status = "published", !.attempts = n] \in Rows
      /\ [r EXCEPT !.status = "published", !.attempts = n].status = "published"
      /\ [r EXCEPT !.status = "published", !.attempts = n].attempts = n
  <2> HIDE DEF n
  <2>1. QED
    BY <1>1 DEF Rows, Statuses
<1>6. /\ Retried(r) \in Rows /\ Retried(r).attempts = n /\ Retried(r).status = st
  <2>1. Retried(r) = [r EXCEPT !.status = st, !.attempts = n, !.due = FALSE]
    BY DEF Retried
  <2> HIDE DEF n, st
  <2>2. QED
    BY <1>1, <2>1 DEF Rows
<1>7. QED
  BY <1>2, <1>3, <1>4, <1>5, <1>6

\* An UPDATE of a row that exists keeps the table a table and its rows in place.
LEMMA UpdateType ==
    ASSUME TypeOK, NEW e \in EventIDs, row[e] # None,
           NEW r \in Rows, row' = [row EXCEPT ![e] = r]
    PROVE  /\ row' \in [EventIDs -> Rows \cup {None}]
           /\ row'[e] = r
           /\ \A f \in EventIDs \ {e} : row'[f] = row[f]
           /\ \A f \in EventIDs : row'[f] # None <=> row[f] # None
BY RowAssumption DEF TypeOK

\* Time changes neither the status nor the attempts of a row.
LEMMA TimeEffect ==
    ASSUME TypeOK, NEW e \in EventIDs, BackoffEnds(e) \/ LeaseLapses(e)
    PROVE  /\ row' \in [EventIDs -> Rows \cup {None}]
           /\ \A f \in EventIDs :
                 /\ row'[f] # None <=> row[f] # None
                 /\ row[f] # None => /\ row'[f].status = row[f].status
                                     /\ row'[f].attempts = row[f].attempts
           /\ UNCHANGED <<topic, dlq, workers, replay, faults, replays>>
<1> DEFINE due == [row[e] EXCEPT !.due = TRUE]
           lapsed == [row[e] EXCEPT !.lapsed = TRUE]
<1>1. row[e] # None /\ row[e] \in Rows
  BY DEF BackoffEnds, LeaseLapses, TypeOK
<1>2. /\ due \in Rows /\ due.status = row[e].status
      /\ due.attempts = row[e].attempts
      /\ lapsed \in Rows /\ lapsed.status = row[e].status
      /\ lapsed.attempts = row[e].attempts
  BY <1>1, UpdatedRow
<1>3. /\ row' = [row EXCEPT ![e] = due] \/ row' = [row EXCEPT ![e] = lapsed]
      /\ UNCHANGED <<topic, dlq, workers, replay, faults, replays>>
  BY DEF BackoffEnds, LeaseLapses
<1> HIDE DEF due, lapsed
<1>4. PICK r \in {due, lapsed} : row' = [row EXCEPT ![e] = r]
  BY <1>3
<1>5. r \in Rows /\ r.status = row[e].status /\ r.attempts = row[e].attempts
  BY <1>2, <1>4
<1>6. QED
  BY <1>1, <1>3, <1>4, <1>5, UpdateType

\* A claim takes rows that are claimable and makes them publishing.
LEMMA ClaimEffect ==
    ASSUME TypeOK, NEW w \in Workers, Claim(w)
    PROVE  /\ row' \in [EventIDs -> Rows \cup {None}]
           /\ \A e \in EventIDs :
                 /\ row'[e] # None <=> row[e] # None
                 /\ e \notin NextBatch => row'[e] = row[e]
                 /\ e \in NextBatch => /\ Claimable(e)
                                       /\ row'[e].status = "publishing"
                                       /\ row'[e].attempts = row[e].attempts
           /\ pc[w] = "poll" /\ batch[w] = {}
           /\ batch' = [batch EXCEPT ![w] = NextBatch]
           /\ NextBatch \subseteq {e \in EventIDs : row[e] # None}
           /\ UNCHANGED <<topic, dlq, pc, cur, replay, faults, replays>>
<1> DEFINE upd(e) == [row[e] EXCEPT !.status = "publishing", !.lapsed = FALSE]
<1>1. /\ pc[w] = "poll" /\ batch[w] = {}
      /\ batch' = [batch EXCEPT ![w] = NextBatch]
      /\ UNCHANGED <<topic, dlq, pc, cur, replay, faults, replays>>
      /\ row' = [e \in EventIDs |-> IF e \in NextBatch THEN upd(e) ELSE row[e]]
  BY DEF Claim
<1>2. \A e \in NextBatch : e \in EventIDs /\ Claimable(e)
  BY DEF NextBatch
<1>3. \A e \in NextBatch : row[e] # None /\ row[e] \in Rows
  BY <1>2 DEF Claimable, TypeOK
<1>4. \A e \in NextBatch : /\ upd(e) \in Rows
                           /\ upd(e).status = "publishing"
                           /\ upd(e).attempts = row[e].attempts
  BY <1>3, UpdatedRow
<1> HIDE DEF upd
<1>5. QED
  BY <1>1, <1>2, <1>3, <1>4, RowAssumption DEF TypeOK

\* MarkPublished leaves a published row alone and makes every other one
\* published; the worker is free again.
LEMMA MarkPublishedEffect ==
    ASSUME TypeOK, NEW w \in Workers, MarkPublished(w)
    PROVE  LET e == cur[w] IN
           /\ pc[w] = "published"
           /\ e \in EventIDs /\ row[e] \in Rows
           /\ row' \in [EventIDs -> Rows \cup {None}]
           /\ \A f \in EventIDs \ {e} : row'[f] = row[f]
           /\ \A f \in EventIDs : row'[f] # None <=> row[f] # None
           /\ \/ row' = row /\ row[e].status = "published"
              \/ /\ row[e].status # "published"
                 /\ row'[e].status = "published"
                 /\ row'[e].attempts = row[e].attempts + 1
           /\ pc' = [pc EXCEPT ![w] = "poll"]
           /\ cur' = [cur EXCEPT ![w] = None]
           /\ UNCHANGED <<topic, dlq, batch, replay, faults, replays>>
<1> DEFINE e == cur[w]
           done == [row[e] EXCEPT !.status = "published", !.attempts = @ + 1]
<1>1. /\ pc[w] = "published"
      /\ pc' = [pc EXCEPT ![w] = "poll"]
      /\ cur' = [cur EXCEPT ![w] = None]
      /\ UNCHANGED <<topic, dlq, batch, replay, faults, replays>>
  BY DEF MarkPublished, Done
<1>2. e \in EventIDs /\ row[e] # None /\ row[e] \in Rows
  BY <1>1, OutboxAssumption DEF TypeOK
<1>3. /\ done \in Rows /\ done.status = "published"
      /\ done.attempts = row[e].attempts + 1
  BY <1>2, UpdatedRow
<1>4. CASE row[e].status = "published"
  <2>1. row' = row
    BY <1>4 DEF MarkPublished
  <2>2. QED
    BY <1>1, <1>2, <1>4, <2>1 DEF TypeOK
<1>5. CASE row[e].status # "published"
  <2>1. row' = [row EXCEPT ![e] = done]
    BY <1>5 DEF MarkPublished
  <2> HIDE DEF done
  <2>2. QED
    BY <1>1, <1>2, <1>3, <1>5, <2>1, UpdateType
<1>6. QED
  BY <1>4, <1>5

\* MarkFailed leaves a published row alone and counts an attempt on every other
\* one; the worker is free again, or has a dead letter to publish.
LEMMA MarkFailedEffect ==
    ASSUME TypeOK, NEW w \in Workers, MarkFailed(w)
    PROVE  LET e == cur[w] IN
           /\ pc[w] = "failed"
           /\ e \in EventIDs /\ row[e] \in Rows
           /\ row' \in [EventIDs -> Rows \cup {None}]
           /\ \A f \in EventIDs \ {e} : row'[f] = row[f]
           /\ \A f \in EventIDs : row'[f] # None <=> row[f] # None
           /\ \/ row' = row /\ row[e].status = "published"
              \/ /\ row[e].status # "published"
                 /\ row'[e].attempts = row[e].attempts + 1
                 /\ row'[e].status = IF row[e].attempts + 1 >= MaxAttempts
                                     THEN "dead_letter" ELSE "pending"
           /\ \/ /\ pc' = [pc EXCEPT ![w] = "poll"]
                 /\ cur' = [cur EXCEPT ![w] = None]
              \/ pc' = [pc EXCEPT ![w] = "dead"] /\ cur' = cur
           /\ UNCHANGED <<topic, dlq, batch, replay, faults, replays>>
<1> DEFINE e == cur[w]
<1>1. /\ pc[w] = "failed"
      /\ UNCHANGED <<topic, dlq, batch, replay, faults, replays>>
      /\ \/ row[e].status = "published" /\ row' = row
         \/ row[e].status # "published" /\ row' = [row EXCEPT ![e] = Retried(row[e])]
  BY DEF MarkFailed
<1>2. \/ /\ pc' = [pc EXCEPT ![w] = "poll"]
         /\ cur' = [cur EXCEPT ![w] = None]
      \/ pc' = [pc EXCEPT ![w] = "dead"] /\ cur' = cur
  BY DEF MarkFailed, Done
<1>3. e \in EventIDs /\ row[e] # None /\ row[e] \in Rows
  BY <1>1, OutboxAssumption DEF TypeOK
<1>4. /\ Retried(row[e]) \in Rows
      /\ Retried(row[e]).attempts = row[e].attempts + 1
      /\ Retried(row[e]).status = IF row[e].attempts + 1 >= MaxAttempts
                                  THEN "dead_letter" ELSE "pending"
  BY <1>3, UpdatedRow
<1>5. CASE row[e].status = "published" /\ row' = row
  BY <1>1, <1>2, <1>3, <1>5 DEF TypeOK
<1>6. CASE row[e].status # "published" /\ row' = [row EXCEPT ![e] = Retried(row[e])]
  BY <1>1, <1>2, <1>3, <1>4, <1>6, UpdateType
<1>7. QED
  BY <1>1, <1>5, <1>6

------------------------------------------------------------------------------
(***************************************************************************)
(* Type correctness.                                                       *)
(***************************************************************************)

\* A worker that puts an event away, or takes up one that exists, keeps its types.
LEMMA WorkerType ==
    ASSUME TypeOK, row' \in [EventIDs -> Rows \cup {None}],
           \A e \in EventIDs : row'[e] # None <=> row[e] # None,
           replay' = replay, faults' = faults, replays' = replays,
           topic' \in SUBSET EventIDs, dlq' = dlq,
           NEW w \in Workers, NEW S \in SUBSET batch[w],
           batch' = [batch EXCEPT ![w] = S],
           NEW label \in {"poll", "published", "failed", "dead"},
           pc' = [pc EXCEPT ![w] = label],
           NEW e \in EventIDs \cup {None}, e = None <=> label = "poll",
           e # None => row[e] # None,
           cur' = [cur EXCEPT ![w] = e]
    PROVE  TypeOK'
<1>1. batch' \in [Workers -> SUBSET {f \in EventIDs : row'[f] # None}]
  BY DEF TypeOK
<1>2. replay' \in SUBSET {f \in EventIDs : row'[f] # None}
  BY DEF TypeOK
<1>3. /\ pc' \in [Workers -> {"poll", "published", "failed", "dead"}]
      /\ cur' \in [Workers -> EventIDs \cup {None}]
      /\ \A v \in Workers : /\ cur'[v] = None <=> pc'[v] = "poll"
                            /\ cur'[v] # None => row'[cur'[v]] # None
  BY DEF TypeOK
<1>4. QED
  BY <1>1, <1>2, <1>3 DEF TypeOK

\* An update that removes no row keeps the types.
LEMMA RowsType ==
    ASSUME TypeOK, row' \in [EventIDs -> Rows \cup {None}],
           \A e \in EventIDs : row'[e] # None <=> row[e] # None,
           batch' \in [Workers -> SUBSET {e \in EventIDs : row[e] # None}],
           UNCHANGED <<topic, dlq, pc, cur, replay, faults, replays>>
    PROVE  TypeOK'
<1>1. batch' \in [Workers -> SUBSET {e \in EventIDs : row'[e] # None}]
  <2>1. {e \in EventIDs : row[e] # None} = {e \in EventIDs : row'[e] # None}
    OBVIOUS
  <2>2. QED
    BY <2>1
<1>2. replay' \in SUBSET {e \in EventIDs : row'[e] # None}
  BY DEF TypeOK
<1>3. \A w \in Workers : cur'[w] # None => row'[cur'[w]] # None
  BY DEF TypeOK
<1>4. QED
  BY <1>1, <1>2, <1>3 DEF TypeOK

\* Every step keeps the types.
LEMMA TypeStep == TypeOK /\ [Next]_vars => TypeOK'
<1> SUFFICES ASSUME TypeOK, [Next]_vars
             PROVE  TypeOK'
  OBVIOUS
<1>1. ASSUME NEW e \in EventIDs, Insert(e)
      PROVE  TypeOK'
  BY <1>1, OutboxAssumption, RowAssumption
  DEF TypeOK, Insert, Rows, Statuses, workers
<1>2. ASSUME NEW e \in EventIDs, BackoffEnds(e) \/ LeaseLapses(e)
      PROVE  TypeOK'
  <2>1. /\ row' \in [EventIDs -> Rows \cup {None}]
        /\ \A f \in EventIDs : row'[f] # None <=> row[f] # None
        /\ UNCHANGED <<topic, dlq, pc, batch, cur, replay, faults, replays>>
    BY <1>2, TimeEffect DEF workers
  <2>2. batch' \in [Workers -> SUBSET {f \in EventIDs : row[f] # None}]
    BY <2>1 DEF TypeOK
  <2>3. QED
    BY <2>1, <2>2, RowsType
<1>3. ASSUME NEW e \in EventIDs, ReplayOne(e)
      PROVE  TypeOK'
  BY <1>3 DEF TypeOK, ReplayOne, workers
<1>4. ASSUME NEW e \in EventIDs, NEW f \in EventIDs, ReplayHistory(e, f)
      PROVE  TypeOK'
  BY <1>4, OutboxAssumption DEF TypeOK, ReplayHistory, workers
<1>5. ASSUME NEW w \in Workers, Claim(w)
      PROVE  TypeOK'
  <2>1. /\ row' \in [EventIDs -> Rows \cup {None}]
        /\ \A e \in EventIDs : row'[e] # None <=> row[e] # None
        /\ UNCHANGED <<topic, dlq, pc, cur, replay, faults, replays>>
        /\ batch' = [batch EXCEPT ![w] = NextBatch]
        /\ NextBatch \subseteq {e \in EventIDs : row[e] # None}
    BY <1>5, ClaimEffect
  <2>2. batch' \in [Workers -> SUBSET {e \in EventIDs : row[e] # None}]
    BY <2>1 DEF TypeOK
  <2>3. QED
    BY <2>1, <2>2, RowsType
<1>6. ASSUME NEW w \in Workers, NEW e \in EventIDs, Publish(w, e)
      PROVE  TypeOK'
  <2>1. PICK label \in {"published", "failed"} : pc' = [pc EXCEPT ![w] = label]
    BY <1>6 DEF Publish
  <2>2. /\ batch' = [batch EXCEPT ![w] = batch[w] \ {e}]
        /\ cur' = [cur EXCEPT ![w] = e]
        /\ topic' \in {topic, topic \cup {e}}
        /\ e \in batch[w]
        /\ UNCHANGED <<row, dlq, replay, faults, replays>>
    BY <1>6 DEF Publish
  <2>3. /\ row' \in [EventIDs -> Rows \cup {None}]
        /\ topic' \in SUBSET EventIDs
        /\ e # None /\ row[e] # None
    BY <2>2, OutboxAssumption DEF TypeOK
  <2>4. QED
    BY <2>1, <2>2, <2>3, WorkerType
<1>7. ASSUME NEW w \in Workers, MarkPublished(w)
      PROVE  TypeOK'
  <2>1. /\ row' \in [EventIDs -> Rows \cup {None}]
        /\ \A e \in EventIDs : row'[e] # None <=> row[e] # None
        /\ pc' = [pc EXCEPT ![w] = "poll"] /\ cur' = [cur EXCEPT ![w] = None]
        /\ UNCHANGED <<topic, dlq, batch, replay, faults, replays>>
    BY <1>7, MarkPublishedEffect
  <2>2. batch' = [batch EXCEPT ![w] = batch[w]] /\ topic' \in SUBSET EventIDs
    BY <2>1 DEF TypeOK
  <2>3. QED
    BY <2>1, <2>2, WorkerType
<1>8. ASSUME NEW w \in Workers, MarkFailed(w)
      PROVE  TypeOK'
  <2>1. /\ row' \in [EventIDs -> Rows \cup {None}]
        /\ \A e \in EventIDs : row'[e] # None <=> row[e] # None
        /\ UNCHANGED <<topic, dlq, batch, replay, faults, replays>>
    BY <1>8, MarkFailedEffect
  <2>2. batch' = [batch EXCEPT ![w] = batch[w]] /\ topic' \in SUBSET EventIDs
    BY <2>1 DEF TypeOK
  <2>3. CASE pc' = [pc EXCEPT ![w] = "poll"] /\ cur' = [cur EXCEPT ![w] = None]
    BY <2>1, <2>2, <2>3, WorkerType
  <2>4. CASE pc' = [pc EXCEPT ![w] = "dead"] /\ cur' = cur
    <3>1. /\ cur' = [cur EXCEPT ![w] = cur[w]]
          /\ cur[w] \in EventIDs /\ cur[w] # None /\ row[cur[w]] # None
      BY <1>8, <2>4, MarkFailedEffect, OutboxAssumption DEF TypeOK
    <3>2. QED
      BY <2>1, <2>2, <2>4, <3>1, WorkerType
  <2>5. QED
    BY <1>8, <2>3, <2>4, MarkFailedEffect
<1>9. ASSUME NEW w \in Workers, PublishToDLQ(w)
      PROVE  TypeOK'
  BY <1>9, OutboxAssumption DEF TypeOK, PublishToDLQ, Done
<1>10. ASSUME NEW w \in Workers, LoseOutcome(w)
       PROVE  TypeOK'
  BY <1>10, OutboxAssumption DEF TypeOK, LoseOutcome, Done
<1>11. ASSUME NEW w \in Workers, Crash(w)
       PROVE  TypeOK'
  BY <1>11, OutboxAssumption DEF TypeOK, Crash, Done
<1>12. CASE UNCHANGED vars
  BY <1>12 DEF TypeOK, vars, workers
<1>13. QED
  BY <1>1, <1>2, <1>3, <1>4, <1>5, <1>6, <1>7, <1>8, <1>9, <1>10, <1>11, <1>12
  DEF Next, Step

\* Type correctness of the outbox, its publishers and the replayer.
THEOREM TypeCorrect == Spec => []TypeOK
<1>1. Init => TypeOK
  BY OutboxAssumption DEF Init, TypeOK
<1>2. QED
  BY <1>1, TypeStep, PTL DEF Spec

------------------------------------------------------------------------------
(***************************************************************************)
(* No event is lost between PostgreSQL and Kafka.                          *)
(***************************************************************************)

\* Every step keeps the link between a published row and the topic.
LEMMA KafkaStep ==
    TypeOK /\ SentIsOnKafka /\ PublishedIsOnKafka /\ [Next]_vars
        => SentIsOnKafka' /\ PublishedIsOnKafka'
<1> SUFFICES ASSUME TypeOK, SentIsOnKafka, PublishedIsOnKafka, [Next]_vars
             PROVE  SentIsOnKafka' /\ PublishedIsOnKafka'
  OBVIOUS
<1> USE DEF SentIsOnKafka, PublishedIsOnKafka
<1>1. ASSUME NEW e \in EventIDs, Insert(e)
      PROVE  SentIsOnKafka' /\ PublishedIsOnKafka'
  BY <1>1 DEF Insert, TypeOK, workers
<1>2. ASSUME NEW e \in EventIDs, BackoffEnds(e) \/ LeaseLapses(e)
      PROVE  SentIsOnKafka' /\ PublishedIsOnKafka'
  BY <1>2, TimeEffect DEF workers
<1>3. ASSUME NEW e \in EventIDs, ReplayOne(e)
      PROVE  SentIsOnKafka' /\ PublishedIsOnKafka'
  BY <1>3 DEF ReplayOne, workers
<1>4. ASSUME NEW e \in EventIDs, NEW f \in EventIDs, ReplayHistory(e, f)
      PROVE  SentIsOnKafka' /\ PublishedIsOnKafka'
  BY <1>4 DEF ReplayHistory, workers
<1>5. ASSUME NEW w \in Workers, Claim(w)
      PROVE  SentIsOnKafka' /\ PublishedIsOnKafka'
  BY <1>5, ClaimEffect
<1>6. ASSUME NEW w \in Workers, NEW e \in EventIDs, Publish(w, e)
      PROVE  SentIsOnKafka' /\ PublishedIsOnKafka'
  BY <1>6 DEF Publish, TypeOK
<1>7. ASSUME NEW w \in Workers, MarkPublished(w)
      PROVE  SentIsOnKafka' /\ PublishedIsOnKafka'
  <2>1. cur[w] \in topic
    BY <1>7 DEF MarkPublished
  <2>2. SentIsOnKafka'
    BY <1>7, MarkPublishedEffect DEF TypeOK
  <2>3. PublishedIsOnKafka'
    BY <1>7, <2>1, MarkPublishedEffect
  <2>4. QED
    BY <2>2, <2>3
<1>8. ASSUME NEW w \in Workers, MarkFailed(w)
      PROVE  SentIsOnKafka' /\ PublishedIsOnKafka'
  <2>1. SentIsOnKafka'
    BY <1>8, MarkFailedEffect DEF TypeOK
  <2>2. PublishedIsOnKafka'
    BY <1>8, MarkFailedEffect
  <2>3. QED
    BY <2>1, <2>2
<1>9. ASSUME NEW w \in Workers, PublishToDLQ(w) \/ LoseOutcome(w) \/ Crash(w)
      PROVE  SentIsOnKafka' /\ PublishedIsOnKafka'
  BY <1>9 DEF PublishToDLQ, LoseOutcome, Crash, Done, TypeOK
<1>10. CASE UNCHANGED vars
  BY <1>10 DEF vars, workers
<1>11. QED
  BY <1>1, <1>2, <1>3, <1>4, <1>5, <1>6, <1>7, <1>8, <1>9, <1>10 DEF Next, Step

\* Rows appear only when the ledger commits an event, and only events with a
\* row are published.
LEMMA EventsStep ==
    ASSUME TypeOK, [Next]_vars
    PROVE  /\ topic' \subseteq topic \cup {e \in EventIDs : row[e] # None}
           /\ \/ \E e \in EventIDs : Insert(e)
              \/ \A e \in EventIDs : row'[e] # None <=> row[e] # None
<1> DEFINE Kept == \A e \in EventIDs : row'[e] # None <=> row[e] # None
           Sent == topic' \subseteq topic \cup {e \in EventIDs : row[e] # None}
<1>1. ASSUME NEW e \in EventIDs, Insert(e)
      PROVE  Sent
  BY <1>1 DEF Insert
<1>2. ASSUME NEW e \in EventIDs, BackoffEnds(e) \/ LeaseLapses(e)
      PROVE  Sent /\ Kept
  BY <1>2, TimeEffect
<1>3. ASSUME NEW e \in EventIDs,
             ReplayOne(e) \/ \E f \in EventIDs : ReplayHistory(e, f)
      PROVE  Sent /\ Kept
  BY <1>3 DEF ReplayOne, ReplayHistory, TypeOK
<1>4. ASSUME NEW w \in Workers, Claim(w)
      PROVE  Sent /\ Kept
  BY <1>4, ClaimEffect DEF Claim
<1>5. ASSUME NEW w \in Workers, NEW e \in EventIDs, Publish(w, e)
      PROVE  Sent /\ Kept
  BY <1>5 DEF Publish, TypeOK
<1>6. ASSUME NEW w \in Workers, MarkPublished(w)
      PROVE  Sent /\ Kept
  <2>1. Sent
    BY <1>6 DEF MarkPublished
  <2>2. Kept
    BY <1>6, MarkPublishedEffect
  <2>3. QED
    BY <2>1, <2>2
<1>7. ASSUME NEW w \in Workers, MarkFailed(w)
      PROVE  Sent /\ Kept
  <2>1. Sent
    BY <1>7 DEF MarkFailed
  <2>2. Kept
    BY <1>7, MarkFailedEffect
  <2>3. QED
    BY <2>1, <2>2
<1>8. ASSUME NEW w \in Workers, PublishToDLQ(w) \/ LoseOutcome(w) \/ Crash(w)
      PROVE  Sent /\ Kept
  BY <1>8 DEF PublishToDLQ, LoseOutcome, Crash
<1>9. CASE UNCHANGED vars
  BY <1>9 DEF vars
<1> HIDE DEF Kept, Sent
<1>10. CASE \E e \in EventIDs : Insert(e)
  BY <1>1, <1>10 DEF Sent
<1>11. CASE Sent /\ Kept
  BY <1>11 DEF Sent, Kept
<1>12. QED
  BY <1>2, <1>3, <1>4, <1>5, <1>6, <1>7, <1>8, <1>9, <1>10, <1>11 DEF Next, Step

\* A row says published only when Kafka has acknowledged the event: neither a
\* lapsed lease nor a lost outcome makes the publisher forget an event.
THEOREM NoEventIsLost == Spec => []PublishedIsOnKafka
<1>1. Init => SentIsOnKafka /\ PublishedIsOnKafka
  BY DEF Init, SentIsOnKafka, PublishedIsOnKafka
<1>2. QED
  BY <1>1, KafkaStep, TypeCorrect, PTL DEF Spec

------------------------------------------------------------------------------
(***************************************************************************)
(* The attempt budget.                                                     *)
(***************************************************************************)

\* Every step keeps the status of a row in line with its attempts.
LEMMA DeadLetterStep ==
    TypeOK /\ DeadLetteredAtBudget /\ [Next]_vars => DeadLetteredAtBudget'
<1> SUFFICES ASSUME TypeOK, DeadLetteredAtBudget, [Next]_vars
             PROVE  DeadLetteredAtBudget'
  OBVIOUS
<1> USE OutboxAssumption DEF DeadLetteredAtBudget
<1>1. ASSUME NEW e \in EventIDs, Insert(e)
      PROVE  DeadLetteredAtBudget'
  <2>1. row'[e].status = "pending" /\ row'[e].attempts = 0
    BY <1>1 DEF Insert, TypeOK
  <2>2. \A f \in EventIDs \ {e} : row'[f] = row[f]
    BY <1>1 DEF Insert, TypeOK
  <2>3. "pending" # "dead_letter" /\ 0 < MaxAttempts
    OBVIOUS
  <2>4. ASSUME NEW f \in EventIDs, row'[f] # None
        PROVE  /\ row'[f].status = "dead_letter" => row'[f].attempts >= MaxAttempts
               /\ row'[f].status \in {"pending", "publishing"} =>
                     row'[f].attempts < MaxAttempts
    <3>1. CASE f = e
      BY <2>1, <2>3, <3>1
    <3>2. CASE f # e
      BY <2>2, <2>4, <3>2
    <3>3. QED
      BY <3>1, <3>2
  <2>5. QED
    BY <2>4
<1>2. ASSUME NEW e \in EventIDs, BackoffEnds(e) \/ LeaseLapses(e)
      PROVE  DeadLetteredAtBudget'
  BY <1>2, TimeEffect
<1>3. ASSUME NEW w \in Workers, Claim(w)
      PROVE  DeadLetteredAtBudget'
  BY <1>3, ClaimEffect DEF Claimable
<1>4. ASSUME NEW w \in Workers, MarkPublished(w)
      PROVE  DeadLetteredAtBudget'
  BY <1>4, MarkPublishedEffect
<1>5. ASSUME NEW w \in Workers, MarkFailed(w)
      PROVE  DeadLetteredAtBudget'
  <2>1. row[cur[w]].attempts \in Nat
    BY <1>5, MarkFailedEffect DEF Rows
  <2>2. QED
    BY <1>5, <2>1, MarkFailedEffect
<1>6. CASE UNCHANGED row
  BY <1>6
<1>7. ASSUME NEW w \in Workers,
             \/ \E e \in EventIDs : Publish(w, e)
             \/ PublishToDLQ(w) \/ LoseOutcome(w) \/ Crash(w)
      PROVE  UNCHANGED row
  BY <1>7 DEF Publish, PublishToDLQ, LoseOutcome, Crash
<1>8. ASSUME NEW e \in EventIDs,
             ReplayOne(e) \/ \E f \in EventIDs : ReplayHistory(e, f)
      PROVE  UNCHANGED row
  BY <1>8 DEF ReplayOne, ReplayHistory
<1>9. CASE UNCHANGED vars
  BY <1>6, <1>9 DEF vars
<1>10. QED
  BY <1>1, <1>2, <1>3, <1>4, <1>5, <1>6, <1>7, <1>8, <1>9 DEF Next, Step

\* A row is dead-lettered exactly when the attempt budget is used up, although
\* workers whose lease has lapsed spend it too.
THEOREM DeadLettersAreSpent == Spec => []DeadLetteredAtBudget
<1>1. Init => DeadLetteredAtBudget
  BY DEF Init, DeadLetteredAtBudget
<1>2. QED
  BY <1>1, DeadLetterStep, TypeCorrect, PTL DEF Spec

\* A worker has no event both in its batch and in its hand, so that each outcome
\* it records is one fewer that it may still record.
LEMMA HeldOnceStep == TypeOK /\ HeldOnce /\ [Next]_vars => HeldOnce'
<1> SUFFICES ASSUME TypeOK, HeldOnce, [Next]_vars
             PROVE  HeldOnce'
  OBVIOUS
<1> USE OutboxAssumption DEF HeldOnce
<1>1. CASE UNCHANGED workers
  BY <1>1 DEF workers
<1>2. ASSUME NEW e \in EventIDs,
             \/ Insert(e) \/ BackoffEnds(e) \/ LeaseLapses(e) \/ ReplayOne(e)
             \/ \E f \in EventIDs : ReplayHistory(e, f)
      PROVE  UNCHANGED workers
  BY <1>2 DEF Insert, BackoffEnds, LeaseLapses, ReplayOne, ReplayHistory
<1>3. ASSUME NEW w \in Workers, Claim(w)
      PROVE  HeldOnce'
  BY <1>3, ClaimEffect DEF TypeOK
<1>4. ASSUME NEW w \in Workers, NEW e \in EventIDs, Publish(w, e)
      PROVE  HeldOnce'
  BY <1>4 DEF Publish, TypeOK
<1>5. ASSUME NEW w \in Workers, MarkPublished(w)
      PROVE  HeldOnce'
  BY <1>5, MarkPublishedEffect DEF TypeOK
<1>6. ASSUME NEW w \in Workers, MarkFailed(w)
      PROVE  HeldOnce'
  BY <1>6, MarkFailedEffect DEF TypeOK
<1>7. ASSUME NEW w \in Workers, PublishToDLQ(w) \/ LoseOutcome(w) \/ Crash(w)
      PROVE  HeldOnce'
  BY <1>7 DEF PublishToDLQ, LoseOutcome, Crash, Done, TypeOK
<1>8. CASE UNCHANGED vars
  BY <1>1, <1>8 DEF vars
<1>9. QED
  BY <1>1, <1>2, <1>3, <1>4, <1>5, <1>6, <1>7, <1>8 DEF Next, Step

\* The workers with a claim on an event are finitely many, and a smaller set of
\* them counts no more.
LEMMA HoldersCount ==
    ASSUME NEW S, S \subseteq Workers, NEW T, T \subseteq S
    PROVE  /\ IsFiniteSet(S)
           /\ Cardinality(S) \in Nat
           /\ Cardinality(T) \in Nat
           /\ Cardinality(T) <= Cardinality(S)
           /\ Cardinality(S) <= Cardinality(Workers)
           /\ Cardinality(Workers) \in Nat
<1>1. IsFiniteSet(S) /\ Cardinality(S) <= Cardinality(Workers)
  BY OutboxAssumption, FS_Subset
<1>2. IsFiniteSet(T) /\ Cardinality(T) <= Cardinality(S)
  BY <1>1, FS_Subset
<1>3. QED
  BY <1>1, <1>2, OutboxAssumption, FS_CardinalityType

\* A step that counts no attempt and adds no claim keeps the budget of an event.
LEMMA BudgetKept ==
    ASSUME TypeOK, Budget, NEW e \in EventIDs, row[e] # None,
           row'[e].attempts = row[e].attempts,
           Holders(e)' \subseteq Holders(e)
    PROVE  row'[e].attempts + Cardinality(Holders(e)')
             <= MaxAttempts + Cardinality(Workers) - 1
<1>1. Holders(e) \subseteq Workers
  BY DEF Holders
<1>2. /\ Cardinality(Holders(e)) \in Nat /\ Cardinality(Holders(e)') \in Nat
      /\ Cardinality(Holders(e)') <= Cardinality(Holders(e))
      /\ Cardinality(Workers) \in Nat
  BY <1>1, HoldersCount
<1>3. row[e].attempts \in Nat
  BY DEF TypeOK, Rows
<1>4. row[e].attempts + Cardinality(Holders(e))
        <= MaxAttempts + Cardinality(Workers) - 1
  BY DEF Budget
<1>5. QED
  BY <1>2, <1>3, <1>4, OutboxAssumption

\* A row is claimed, also after its lease has lapsed, only while an attempt is
\* left, even when every worker has a claim on it.
LEMMA BudgetAtClaim ==
    ASSUME TypeOK, DeadLetteredAtBudget, Budget, NEW w \in Workers, Claim(w),
           NEW e \in EventIDs, row[e] # None
    PROVE  row'[e].attempts + Cardinality(Holders(e)')
             <= MaxAttempts + Cardinality(Workers) - 1
<1>1. row[e].attempts \in Nat /\ row'[e].attempts = row[e].attempts
  BY ClaimEffect DEF TypeOK, Rows
<1>2. CASE e \in NextBatch
  <2>1. row[e].attempts < MaxAttempts
    BY <1>2, ClaimEffect DEF Claimable, DeadLetteredAtBudget
  <2>2. Holders(e)' \subseteq Workers
    BY DEF Holders
  <2>3. /\ Cardinality(Holders(e)') \in Nat
        /\ Cardinality(Holders(e)') <= Cardinality(Workers)
        /\ Cardinality(Workers) \in Nat
    BY <2>2, HoldersCount
  <2>4. QED
    BY <1>1, <2>1, <2>3, OutboxAssumption
<1>3. CASE e \notin NextBatch
  <2>1. Holders(e)' \subseteq Holders(e)
    BY <1>3, ClaimEffect DEF Holders, TypeOK
  <2>2. QED
    BY <1>1, <2>1, BudgetKept
<1>4. QED
  BY <1>2, <1>3

\* A worker that records an outcome gives up its claim on the event.
LEMMA BudgetAtMark ==
    ASSUME TypeOK, HeldOnce, NEW w \in Workers, NEW e \in EventIDs,
           cur[w] = e, pc[w] # "dead", batch' = batch,
           \/ /\ pc' = [pc EXCEPT ![w] = "poll"]
              /\ cur' = [cur EXCEPT ![w] = None]
           \/ pc' = [pc EXCEPT ![w] = "dead"] /\ cur' = cur
    PROVE  /\ Cardinality(Holders(e)) \in Nat
           /\ Cardinality(Holders(e)') = Cardinality(Holders(e)) - 1
           /\ Cardinality(Workers) \in Nat
<1>1. w \in Holders(e) /\ Holders(e)' = Holders(e) \ {w}
  BY OutboxAssumption DEF Holders, HeldOnce, TypeOK
<1>2. Holders(e) \subseteq Workers
  BY DEF Holders
<1>3. /\ IsFiniteSet(Holders(e)) /\ Cardinality(Holders(e)) \in Nat
      /\ Cardinality(Workers) \in Nat
  BY <1>2, HoldersCount
<1>4. QED
  BY <1>1, <1>3, FS_RemoveElement

\* Every step keeps the budget.
LEMMA BudgetStep ==
    TypeOK /\ DeadLetteredAtBudget /\ HeldOnce /\ Budget /\ [Next]_vars => Budget'
<1> SUFFICES ASSUME TypeOK, DeadLetteredAtBudget, HeldOnce, Budget, [Next]_vars,
                    NEW e \in EventIDs, row'[e] # None
             PROVE  row'[e].attempts + Cardinality(Holders(e)')
                      <= MaxAttempts + Cardinality(Workers) - 1
  BY DEF Budget, Holders
<1> DEFINE Kept == row'[e].attempts + Cardinality(Holders(e)')
                     <= MaxAttempts + Cardinality(Workers) - 1
<1>1. ASSUME NEW f \in EventIDs, Insert(f)
      PROVE  Kept
  <2>1. CASE row[e] = None
    <3>1. row'[e].attempts = 0
      BY <1>1, <2>1 DEF Insert, TypeOK
    <3>2. Holders(e)' = {}
      BY <1>1, <2>1, OutboxAssumption DEF Insert, Holders, TypeOK, workers
    <3>3. Cardinality(Workers) \in Nat /\ Cardinality({}) = 0
      BY OutboxAssumption, FS_CardinalityType, FS_EmptySet
    <3>4. QED
      BY <3>1, <3>2, <3>3, OutboxAssumption
  <2>2. CASE row[e] # None
    <3>1. row'[e] = row[e] /\ Holders(e)' = Holders(e)
      BY <1>1, <2>2 DEF Insert, Holders, TypeOK, workers
    <3>2. QED
      BY <2>2, <3>1, BudgetKept
  <2>3. QED
    BY <2>1, <2>2
<1>2. ASSUME NEW f \in EventIDs, BackoffEnds(f) \/ LeaseLapses(f)
      PROVE  Kept
  <2>1. row[e] # None /\ row'[e].attempts = row[e].attempts
    BY <1>2, TimeEffect
  <2>2. Holders(e)' = Holders(e)
    BY <1>2, TimeEffect DEF Holders, workers
  <2>3. QED
    BY <2>1, <2>2, BudgetKept
<1>3. CASE UNCHANGED <<row, workers>>
  <2>1. row' = row /\ Holders(e)' = Holders(e)
    BY <1>3 DEF Holders, workers
  <2>2. QED
    BY <2>1, BudgetKept
<1>4. ASSUME NEW f \in EventIDs,
             ReplayOne(f) \/ \E g \in EventIDs : ReplayHistory(f, g)
      PROVE  UNCHANGED <<row, workers>>
  BY <1>4 DEF ReplayOne, ReplayHistory
<1>5. ASSUME NEW w \in Workers, Claim(w)
      PROVE  Kept
  <2>1. row[e] # None
    BY <1>5, ClaimEffect
  <2>2. QED
    BY <1>5, <2>1, BudgetAtClaim
<1>6. ASSUME NEW w \in Workers, NEW f \in EventIDs, Publish(w, f)
      PROVE  Kept
  <2>1. row' = row
    BY <1>6 DEF Publish
  <2>2. Holders(e)' \subseteq Holders(e)
    BY <1>6, OutboxAssumption DEF Publish, Holders, TypeOK
  <2>3. QED
    BY <2>1, <2>2, BudgetKept
<1>7. ASSUME NEW w \in Workers, MarkPublished(w) \/ MarkFailed(w)
      PROVE  Kept
  <2>1. /\ pc[w] # "dead" /\ batch' = batch /\ row[e] # None
        /\ \/ /\ pc' = [pc EXCEPT ![w] = "poll"]
              /\ cur' = [cur EXCEPT ![w] = None]
           \/ pc' = [pc EXCEPT ![w] = "dead"] /\ cur' = cur
        /\ cur[w] # e => row'[e] = row[e]
        /\ row' = row \/ row'[cur[w]].attempts = row[cur[w]].attempts + 1
    BY <1>7, MarkPublishedEffect, MarkFailedEffect
  <2>2. CASE cur[w] # e \/ row' = row
    <3>1. row'[e] = row[e]
      BY <2>1, <2>2
    <3>2. Holders(e)' \subseteq Holders(e)
      BY <2>1, OutboxAssumption DEF Holders, TypeOK
    <3>3. QED
      BY <2>1, <3>1, <3>2, BudgetKept
  <2>3. CASE cur[w] = e /\ row' # row
    <3>1. /\ Cardinality(Holders(e)) \in Nat
          /\ Cardinality(Holders(e)') = Cardinality(Holders(e)) - 1
          /\ Cardinality(Workers) \in Nat
      BY <2>1, <2>3, BudgetAtMark
    <3>2. row[e].attempts \in Nat
      BY <2>1 DEF TypeOK, Rows
    <3>3. row[e].attempts + Cardinality(Holders(e))
            <= MaxAttempts + Cardinality(Workers) - 1
      BY <2>1 DEF Budget
    <3>4. QED
      BY <2>1, <2>3, <3>1, <3>2, <3>3, OutboxAssumption
  <2>4. QED
    BY <2>2, <2>3
<1>8. ASSUME NEW w \in Workers, PublishToDLQ(w) \/ LoseOutcome(w) \/ Crash(w)
      PROVE  Kept
  <2>1. row' = row
    BY <1>8 DEF PublishToDLQ, LoseOutcome, Crash
  <2>2. Holders(e)' \subseteq Holders(e)
    BY <1>8, OutboxAssumption
    DEF PublishToDLQ, LoseOutcome, Crash, Done, Holders, TypeOK
  <2>3. QED
    BY <2>1, <2>2, BudgetKept
<1>9. CASE UNCHANGED vars
  BY <1>3, <1>9 DEF vars
<1>10. QED
  BY <1>1, <1>2, <1>3, <1>4, <1>5, <1>6, <1>7, <1>8, <1>9 DEF Next, Step

\* No event costs more than its budget and one attempt of each other worker.
THEOREM BudgetIsKept == Spec => []AttemptsBounded
<1>1. Init => HeldOnce /\ Budget
  BY DEF Init, HeldOnce, Budget
<1>2. TypeOK /\ Budget => AttemptsBounded
  <2> SUFFICES ASSUME TypeOK, Budget, NEW e \in EventIDs, row[e] # None
               PROVE  row[e].attempts <= MaxAttempts + Cardinality(Workers) - 1
    BY DEF AttemptsBounded
  <2>1. Holders(e) \subseteq Workers
    BY DEF Holders
  <2>2. Cardinality(Holders(e)) \in Nat /\ Cardinality(Workers) \in Nat
    BY <2>1, HoldersCount
  <2>3. row[e].attempts \in Nat
    BY DEF TypeOK, Rows
  <2>4. row[e].attempts + Cardinality(Holders(e))
          <= MaxAttempts + Cardinality(Workers) - 1
    BY DEF Budget
  <2>5. QED
    BY <2>2, <2>3, <2>4, OutboxAssumption
<1>3. QED
  BY <1>1, <1>2, TypeCorrect, DeadLettersAreSpent, HeldOnceStep, BudgetStep, PTL
  DEF Spec

------------------------------------------------------------------------------
(***************************************************************************)
(* What a settled row may still become.                                    *)
(***************************************************************************)

\* What a step may do to the rows.
RowStep ==
    \A e \in EventIDs : row[e] # None =>
        /\ row'[e] # None
        /\ row[e].status = "published" =>
              /\ row'[e].status = "published"
              /\ row'[e].attempts = row[e].attempts
        /\ row[e].status = "dead_letter" =>
              row'[e].status \in {"dead_letter", "published"}

\* No step reopens a row: a late failure finds a published row protected by
\* published_has_timestamp, and a dead one beyond its budget.
LEMMA SettledStep ==
    TypeOK /\ DeadLetteredAtBudget /\ [Next]_vars => RowStep
<1> SUFFICES ASSUME TypeOK, DeadLetteredAtBudget, [Next]_vars
             PROVE  RowStep
  OBVIOUS
<1>1. ASSUME NEW e \in EventIDs, Insert(e)
      PROVE  RowStep
  BY <1>1 DEF Insert, TypeOK, RowStep
<1>2. ASSUME NEW e \in EventIDs, BackoffEnds(e) \/ LeaseLapses(e)
      PROVE  RowStep
  BY <1>2, TimeEffect DEF RowStep
<1>3. ASSUME NEW w \in Workers, Claim(w)
      PROVE  RowStep
  BY <1>3, ClaimEffect DEF Claimable, RowStep
<1>4. ASSUME NEW w \in Workers, MarkPublished(w)
      PROVE  RowStep
  BY <1>4, MarkPublishedEffect DEF RowStep
<1>5. ASSUME NEW w \in Workers, MarkFailed(w)
      PROVE  RowStep
  <2>1. row[cur[w]].attempts \in Nat /\ row[cur[w]] # None /\ cur[w] \in EventIDs
    BY <1>5, MarkFailedEffect, RowAssumption DEF Rows
  <2>2. row[cur[w]].status = "dead_letter" => row[cur[w]].attempts + 1 >= MaxAttempts
    <3>1. row[cur[w]].status = "dead_letter" => row[cur[w]].attempts >= MaxAttempts
      BY <2>1 DEF DeadLetteredAtBudget
    <3>2. QED
      BY <2>1, <3>1, OutboxAssumption
  <2>3. QED
    BY <1>5, <2>2, MarkFailedEffect DEF RowStep
<1>6. CASE UNCHANGED row
  BY <1>6 DEF RowStep
<1>7. ASSUME NEW w \in Workers,
             \/ \E e \in EventIDs : Publish(w, e)
             \/ PublishToDLQ(w) \/ LoseOutcome(w) \/ Crash(w)
      PROVE  UNCHANGED row
  BY <1>7 DEF Publish, PublishToDLQ, LoseOutcome, Crash
<1>8. ASSUME NEW e \in EventIDs,
             ReplayOne(e) \/ \E f \in EventIDs : ReplayHistory(e, f)
      PROVE  UNCHANGED row
  BY <1>8 DEF ReplayOne, ReplayHistory
<1>9. CASE UNCHANGED vars
  BY <1>6, <1>9 DEF vars
<1>10. QED
  BY <1>1, <1>2, <1>3, <1>4, <1>5, <1>6, <1>7, <1>8, <1>9 DEF Next, Step

\* Published is final, and dead_letter can only become published.
THEOREM SettledStaysSettled == Spec => SettledIsFinal
<1>1. TypeOK /\ DeadLetteredAtBudget /\ [Next]_vars => [RowStep]_vars
  BY SettledStep
<1>2. Spec => [][RowStep]_vars
  BY <1>1, TypeCorrect, DeadLettersAreSpent, PTL DEF Spec
<1>3. QED
  BY <1>2 DEF SettledIsFinal, RowStep
==============================================================================
