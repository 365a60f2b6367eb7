-------------------------- MODULE WebhookDelivery ---------------------------
(***************************************************************************)
(* The delivery loop of the webhook workers (RunDeliveries, DeliverOnce,   *)
(* deliver and recordFailure in src/internal/webhook/worker.go; ClaimDue,  *)
(* MarkDelivered and MarkFailed in store.go).                              *)
(*                                                                         *)
(* Replicas read batches of due deliveries, POST each one and record the   *)
(* outcome.  A delivery is one (event, endpoint) pair; whether             *)
(* next_attempt_at has passed is a fact about the row (due).               *)
(***************************************************************************)
EXTENDS Integers, FiniteSets

CONSTANTS Deliveries,   \* (event, endpoint) pairs
          Workers,      \* replicas of the delivery loop
          BatchSize,    \* WEBHOOK_BATCH_SIZE
          MaxAttempts,  \* WEBHOOK_MAX_ATTEMPTS
          MaxFaults,    \* bound on worker crashes and PostgreSQL failures
          None          \* a row that does not exist, no delivery in hand

ASSUME DeliveryAssumption ==
    /\ BatchSize \in Nat \ {0}
    /\ MaxAttempts \in Nat \ {0}
    /\ MaxFaults \in Nat
    /\ None \notin Deliveries
    /\ IsFiniteSet(Workers)

VARIABLES row,       \* webhook_deliveries
          received,  \* the deliveries their endpoint has answered with 2xx
          pc, batch, \* by worker: its next statement, the deliveries not started
          cur,       \* by worker, the delivery it is sending or None
          faults     \* crashes and PostgreSQL failures so far

vars == <<row, received, pc, batch, cur, faults>>

Rows == [status : {"pending", "delivered", "dead_letter"}, attempts : Nat,
         due : BOOLEAN]

ASSUME DeliveryRowAssumption == None \notin Rows

Init ==
    /\ row = [d \in Deliveries |-> None]
    /\ received = {}
    /\ pc = [w \in Workers |-> "poll"]
    /\ batch = [w \in Workers |-> {}]
    /\ cur = [w \in Workers |-> None]
    /\ faults = 0

\* Enqueue inserts the pair once, however often the event arrives.
Enqueue(d) ==
    /\ row[d] = None
    /\ row' = [row EXCEPT ![d] = [status |-> "pending", attempts |-> 0, due |-> TRUE]]
    /\ UNCHANGED <<received, pc, batch, cur, faults>>

\* A mutant of Due: failed deliveries are not selected again.
DueOnce(d) == row[d] # None /\ row[d].status = "pending" /\ row[d].attempts = 0

\* The WHERE clause of ClaimDue.
Due(d) == row[d] # None /\ row[d].status = "pending" /\ row[d].due

\* ClaimDue: a plain SELECT ... LIMIT, which locks and writes nothing.  The
\* rows come ordered by times that are abstracted away.
ClaimDue(w) ==
    LET due == {d \in Deliveries : Due(d)} IN
    /\ pc[w] = "poll"
    /\ batch[w] = {}
    /\ \E S \in SUBSET due :
          /\ Cardinality(S) = IF Cardinality(due) < BatchSize
                              THEN Cardinality(due) ELSE BatchSize
          /\ batch' = [batch EXCEPT ![w] = S]
    /\ UNCHANGED <<row, received, pc, cur, faults>>

\* A mutant of Send: any answer counts as success.
SendUnchecked(w, d) ==
    /\ pc[w] = "poll"
    /\ d \in batch[w]
    /\ batch' = [batch EXCEPT ![w] = @ \ {d}]
    /\ cur' = [cur EXCEPT ![w] = d]
    /\ received' \in {received, received \cup {d}}
    /\ pc' = [pc EXCEPT ![w] = "ok"]
    /\ UNCHANGED <<row, faults>>

\* post: a 2xx, or a failure, which may be a 2xx whose answer came too late.
Send(w, d) ==
    /\ pc[w] = "poll"
    /\ d \in batch[w]
    /\ batch' = [batch EXCEPT ![w] = @ \ {d}]
    /\ cur' = [cur EXCEPT ![w] = d]
    /\ \/ /\ received' = received \cup {d}
          /\ pc' = [pc EXCEPT ![w] = "ok"]
       \/ /\ received' \in {received, received \cup {d}}
          /\ pc' = [pc EXCEPT ![w] = "failed"]
    /\ UNCHANGED <<row, faults>>

\* A mutant of Done: the worker keeps the delivery.
DoneHolding(w) ==
    /\ pc' = [pc EXCEPT ![w] = "poll"]
    /\ UNCHANGED cur

\* The worker has dealt with the delivery in its hand.
Done(w) ==
    /\ pc' = [pc EXCEPT ![w] = "poll"]
    /\ cur' = [cur EXCEPT ![w] = None]

\* MarkDelivered: UPDATE ... WHERE status <> 'delivered'.
MarkDelivered(w) ==
    LET d == cur[w] IN
    /\ pc[w] = "ok"
    /\ row' = IF row[d].status = "delivered" THEN row
              ELSE [row EXCEPT ![d].status = "delivered",
                               ![d].attempts = @ + 1]
    /\ Done(w)
    /\ UNCHANGED <<received, batch, faults>>

\* A mutant of MarkFailed: one attempt too many.
MarkFailedOnceMore(w) ==
    LET d == cur[w] IN
    /\ pc[w] = "failed"
    /\ row' = [row EXCEPT ![d] =
                 [status   |-> IF @.attempts >= MaxAttempts
                               THEN "dead_letter" ELSE "pending",
                  attempts |-> @.attempts + 1,
                  due      |-> FALSE]]
    /\ Done(w)
    /\ UNCHANGED <<received, batch, faults>>

\* recordFailure: MarkFailed, whatever has become of the row.
MarkFailed(w) ==
    LET d == cur[w] IN
    /\ pc[w] = "failed"
    /\ row' = [row EXCEPT ![d] =
                 [status   |-> IF @.attempts + 1 >= MaxAttempts
                               THEN "dead_letter" ELSE "pending",
                  attempts |-> @.attempts + 1,
                  due      |-> FALSE]]
    /\ Done(w)
    /\ UNCHANGED <<received, batch, faults>>

\* PostgreSQL fails under MarkDelivered or MarkFailed: the row stays due.
LoseOutcome(w) ==
    /\ pc[w] \in {"ok", "failed"}
    /\ faults < MaxFaults
    /\ faults' = faults + 1
    /\ Done(w)
    /\ UNCHANGED <<row, received, batch>>

\* The worker dies, or stops with a part of its batch, and starts again.
Crash(w) ==
    /\ batch[w] # {} \/ cur[w] # None
    /\ faults < MaxFaults
    /\ faults' = faults + 1
    /\ Done(w)
    /\ batch' = [batch EXCEPT ![w] = {}]
    /\ UNCHANGED <<row, received>>

\* next_attempt_at passes.
BackoffEnds(d) ==
    /\ row[d] # None
    /\ ~row[d].due
    /\ row' = [row EXCEPT ![d].due = TRUE]
    /\ UNCHANGED <<received, pc, batch, cur, faults>>

Step(w) ==
    \/ ClaimDue(w)
    \/ \E d \in Deliveries : Send(w, d)
    \/ MarkDelivered(w)
    \/ MarkFailed(w)

Next ==
    \/ \E d \in Deliveries : Enqueue(d) \/ BackoffEnds(d)
    \/ \E w \in Workers : Step(w) \/ LoseOutcome(w) \/ Crash(w)

Spec == Init /\ [][Next]_vars

\* Time passes, and every worker is running or restarted.
FairSpec ==
    /\ Spec
    /\ \A w \in Workers : WF_vars(Step(w))
    /\ \A d \in Deliveries : WF_vars(BackoffEnds(d))

-----------------------------------------------------------------------------
(***************************************************************************)
(* Properties.                                                             *)
(***************************************************************************)

\* Type correctness: a worker that waits for an answer has a delivery in hand.
TypeOK ==
    /\ row \in [Deliveries -> Rows \cup {None}]
    /\ received \in SUBSET Deliveries
    /\ pc \in [Workers -> {"poll", "ok", "failed"}]
    /\ batch \in [Workers -> SUBSET {d \in Deliveries : row[d] # None}]
    /\ cur \in [Workers -> Deliveries \cup {None}]
    /\ \A w \in Workers : /\ cur[w] = None <=> pc[w] = "poll"
                          /\ cur[w] # None => row[cur[w]] # None
    /\ faults \in 0..MaxFaults

\* A delivery is marked delivered only when its endpoint has accepted it.
DeliveredIsReceived ==
    \A d \in Deliveries :
        row[d] # None /\ row[d].status = "delivered" => d \in received

\* A delivery is dead-lettered exactly when its attempts are used up, and the
\* replicas that share it spend no more than one attempt each beyond them.
DeadLetteredAtBudget ==
    \A d \in Deliveries : row[d] # None =>
        /\ row[d].status = "dead_letter" => row[d].attempts >= MaxAttempts
        /\ row[d].status = "pending" => row[d].attempts < MaxAttempts
        /\ row[d].attempts <= MaxAttempts + Cardinality(Workers) - 1

\* Every queued delivery is eventually delivered or dead-lettered, although
\* workers crash in the middle of a batch.
DeliveriesSettle ==
    \A d \in Deliveries :
        (row[d] # None) ~> (row[d] # None /\ row[d].status # "pending")

\* A delivery that was delivered stays delivered and is not attempted again.
DeliveredIsFinal ==
    [][\A d \in Deliveries :
          row[d] # None /\ row[d].status = "delivered" =>
              row'[d].status = "delivered"]_vars
=============================================================================
