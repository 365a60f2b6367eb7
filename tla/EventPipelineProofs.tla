------------------------- MODULE EventPipelineProofs -------------------------
(***************************************************************************)
(* Theorems about EventPipeline, for every number of publishers, replicas, *)
(* events and endpoints.  They are composed from the lemmas about the      *)
(* three components, instantiated for the pipeline.                        *)
(***************************************************************************)
EXTENDS EventPipeline, TLAPS

OP == INSTANCE OutboxProofs WITH
        Workers <- Publishers, BatchSize <- OutboxBatch,
        MaxAttempts <- OutboxAttempts,
        row <- orow, topic <- Topic, pc <- opc, batch <- obatch, cur <- ocur

CP == INSTANCE EventConsumerProofs WITH MaxLog <- 0, queued <- Queued

DP == INSTANCE WebhookDeliveryProofs WITH
        Workers <- Replicas, BatchSize <- WebhookBatch,
        MaxAttempts <- WebhookAttempts,
        row <- drow, pc <- dpc, batch <- dbatch, cur <- dcur

\* The constants of the pipeline are constants of its components.
LEMMA OutboxConstants == OP!OutboxAssumption /\ OP!RowAssumption
<1>1. OP!IsFiniteSet(Publishers)
  BY PipelineAssumption DEF IsFiniteSet, OP!IsFiniteSet
<1>2. OP!RowAssumption
  BY PipelineRowAssumption DEF OP!RowAssumption, OP!Rows, OP!Statuses, O!Rows, O!Statuses
<1>3. OP!OutboxAssumption
  BY <1>1, PipelineAssumption DEF OP!OutboxAssumption
<1>4. QED
  BY <1>2, <1>3

\* Likewise for the consumer.
LEMMA ConsumerConstants == CP!ConsumerAssumption
BY PipelineAssumption DEF CP!ConsumerAssumption

\* Likewise for the delivery loop.
LEMMA DeliveryConstants == DP!DeliveryAssumption /\ DP!DeliveryRowAssumption
<1>1. DP!IsFiniteSet(Replicas)
  BY PipelineAssumption DEF IsFiniteSet, DP!IsFiniteSet
<1>2. DP!DeliveryRowAssumption
  BY PipelineRowAssumption DEF DP!DeliveryRowAssumption, DP!Rows, D!Rows
<1>3. DP!DeliveryAssumption
  BY <1>1, PipelineAssumption DEF DP!DeliveryAssumption, Deliveries
<1>4. QED
  BY <1>2, <1>3

\* The claims of a publisher and of a replica are those of their components.
LEMMA ClaimSteps ==
    /\ \A w \in Publishers : O!Claim(w) => OP!Claim(w)
    /\ \A r \in Replicas : D!ClaimDue(r) => DP!ClaimDue(r)
<1>1. \A S : O!Cardinality(S) = OP!Cardinality(S)
  BY Zenon DEF O!Cardinality, OP!Cardinality
<1>2. \A S : D!Cardinality(S) = DP!Cardinality(S)
  BY Zenon DEF D!Cardinality, DP!Cardinality
<1>3. \A e \in EventIDs : O!Claimable(e) <=> OP!Claimable(e)
  BY DEF O!Claimable, OP!Claimable
<1>4. O!NextBatch = OP!NextBatch
  <2> DEFINE due == {e \in EventIDs : O!Claimable(e)}
  <2>1. due = {e \in EventIDs : OP!Claimable(e)}
    BY <1>3
  <2>2. O!NextBatch = {e \in due : O!Cardinality({f \in due : f < e}) < OutboxBatch}
    BY DEF O!NextBatch
  <2>3. OP!NextBatch = {e \in due : OP!Cardinality({f \in due : f < e}) < OutboxBatch}
    BY <2>1 DEF OP!NextBatch
  <2> HIDE DEF due
  <2>4. QED
    BY <1>1, <2>2, <2>3
<1>5. \A d \in Deliveries : D!Due(d) <=> DP!Due(d)
  BY DEF D!Due, DP!Due
<1>6. {d \in Deliveries : D!Due(d)} = {d \in Deliveries : DP!Due(d)}
  BY <1>5
<1>7. \A w \in Publishers : O!Claim(w) => OP!Claim(w)
  BY <1>4 DEF O!Claim, OP!Claim
<1>8. \A r \in Replicas : D!ClaimDue(r) => DP!ClaimDue(r)
  BY <1>2, <1>6 DEF D!ClaimDue, DP!ClaimDue
<1>9. QED
  BY <1>7, <1>8

\* The steps of the pipeline that are steps of the outbox.
LEMMA OutboxSteps ==
    /\ \A e \in EventIDs :
          CommitEvent(e) \/ OutboxTime(e) \/ ReplayOne(e) => OP!Next
    /\ \A e, f \in EventIDs : ReplayHistory(e, f) => OP!Next
    /\ \A w \in Publishers : PublisherStep(w) \/ PublisherFault(w) => OP!Next
<1> USE DEF OP!Next, OP!Step, O!workers, OP!workers, O!Done, OP!Done
<1>1. ASSUME NEW e \in EventIDs, CommitEvent(e)
      PROVE  OP!Next
  BY <1>1 DEF CommitEvent, O!Insert, OP!Insert
<1>2. ASSUME NEW e \in EventIDs, OutboxTime(e)
      PROVE  OP!Next
  BY <1>2 DEF OutboxTime, O!BackoffEnds, OP!BackoffEnds, O!LeaseLapses,
              OP!LeaseLapses
<1>3. ASSUME NEW e \in EventIDs, ReplayOne(e)
      PROVE  OP!Next
  BY <1>3 DEF ReplayOne, O!ReplayOne, OP!ReplayOne
<1>4. ASSUME NEW e \in EventIDs, NEW f \in EventIDs, ReplayHistory(e, f)
      PROVE  OP!Next
  BY <1>4 DEF ReplayHistory, O!ReplayHistory, OP!ReplayHistory
<1>5. ASSUME NEW w \in Publishers, PublisherStep(w)
      PROVE  OP!Next
  <2>1. CASE \E e \in EventIDs : Publish(w, e)
    BY <2>1 DEF Publish, O!Publish, OP!Publish
  <2>2. CASE O!Claim(w)
    BY <2>2, ClaimSteps
  <2>3. CASE O!MarkPublished(w)
    BY <2>3 DEF O!MarkPublished, OP!MarkPublished
  <2>4. CASE O!MarkFailed(w)
    BY <2>4 DEF O!MarkFailed, OP!MarkFailed, O!Retried, OP!Retried
  <2>5. CASE O!PublishToDLQ(w)
    BY <2>5 DEF O!PublishToDLQ, OP!PublishToDLQ
  <2>6. QED
    BY <1>5, <2>1, <2>2, <2>3, <2>4, <2>5 DEF PublisherStep
<1>6. ASSUME NEW w \in Publishers, PublisherFault(w)
      PROVE  OP!Next
  BY <1>6 DEF PublisherFault, O!LoseOutcome, OP!LoseOutcome, O!Crash, OP!Crash
<1> HIDE DEF OP!Next
<1>7. QED
  BY <1>1, <1>2, <1>3, <1>4, <1>5, <1>6

\* The steps that are steps of the consumer group.
LEMMA ConsumerSteps ==
    \A r \in Replicas :
        ConsumerStep(r) \/ ConsumerFault(r) \/ CrashReplica(r) => CP!Next
<1> SUFFICES ASSUME NEW r \in Replicas,
                    ConsumerStep(r) \/ ConsumerFault(r) \/ CrashReplica(r)
             PROVE  CP!Next
  OBVIOUS
<1> USE DEF CP!Next, CP!Step
<1>1. CASE \E p \in Endpoints : Enqueue(r, p)
  BY <1>1 DEF Enqueue, C!Enqueue, CP!Enqueue
<1>2. CASE C!Assign(r) \/ C!Fetch(r) \/ C!CommitMessages(r)
  BY <1>2 DEF C!Assign, CP!Assign, C!Fetch, CP!Fetch, C!CommitMessages,
              CP!CommitMessages
<1>3. CASE ConsumerFault(r)
  BY <1>3 DEF ConsumerFault, C!HandlerError, CP!HandlerError, C!Rebalance,
              CP!Rebalance
<1>4. CASE CrashReplica(r)
  BY <1>4 DEF CrashReplica, C!Crash, CP!Crash
<1>5. QED
  BY <1>1, <1>2, <1>3, <1>4 DEF ConsumerStep

\* The steps that are steps of the delivery loop.
LEMMA DeliverySteps ==
    /\ \A r \in Replicas : DeliveryStep(r) =>
          \/ DP!ClaimDue(r)
          \/ \E d \in Deliveries : DP!Send(r, d)
          \/ DP!MarkDelivered(r) \/ DP!MarkFailed(r)
    /\ \A r \in Replicas : LoseDelivery(r) => DP!LoseOutcome(r)
    /\ \A r \in Replicas : D!Crash(r) => DP!Crash(r)
    /\ \A d \in Deliveries : DeliveryTime(d) => DP!BackoffEnds(d)
    /\ \A d \in Deliveries : D!Enqueue(d) => DP!Enqueue(d)
<1> USE DEF D!Done, DP!Done
<1>1. ASSUME NEW r \in Replicas, DeliveryStep(r)
      PROVE  \/ DP!ClaimDue(r)
             \/ \E d \in Deliveries : DP!Send(r, d)
             \/ DP!MarkDelivered(r) \/ DP!MarkFailed(r)
  <2>1. CASE D!ClaimDue(r)
    BY <2>1, ClaimSteps
  <2>2. CASE \E d \in Deliveries : D!Send(r, d)
    BY <2>2 DEF D!Send, DP!Send
  <2>3. CASE D!MarkDelivered(r)
    BY <2>3 DEF D!MarkDelivered, DP!MarkDelivered
  <2>4. CASE D!MarkFailed(r)
    BY <2>4 DEF D!MarkFailed, DP!MarkFailed
  <2>5. QED
    BY <1>1, <2>1, <2>2, <2>3, <2>4 DEF DeliveryStep, D!Step
<1>2. \A r \in Replicas : LoseDelivery(r) => DP!LoseOutcome(r)
  BY DEF LoseDelivery, D!LoseOutcome, DP!LoseOutcome
<1>3. \A r \in Replicas : D!Crash(r) => DP!Crash(r)
  BY DEF D!Crash, DP!Crash
<1>4. \A d \in Deliveries : DeliveryTime(d) => DP!BackoffEnds(d)
  BY DEF DeliveryTime, D!BackoffEnds, DP!BackoffEnds
<1>5. \A d \in Deliveries : D!Enqueue(d) => DP!Enqueue(d)
  BY DEF D!Enqueue, DP!Enqueue
<1>6. QED
  BY <1>1, <1>2, <1>3, <1>4, <1>5

------------------------------------------------------------------------------
(***************************************************************************)
(* The inductive invariant: those of the components, and that Kafka holds  *)
(* only events the ledger has committed.                                   *)
(***************************************************************************)
OutboxInv ==
    /\ OP!TypeOK
    /\ OP!SentIsOnKafka
    /\ OP!PublishedIsOnKafka
    /\ \A e \in Topic : orow[e] # None

ConsumerInv ==
    /\ CP!TypeOK
    /\ CP!HandledSoFar
    /\ errors = 0 => CP!Skipped = {}

DeliveryInv ==
    /\ DP!TypeOK
    /\ DP!SentIsReceived
    /\ DP!DeliveredIsReceived
    /\ DP!HeldOnce

PipelineInv == OutboxInv /\ ConsumerInv /\ DeliveryInv

\* What a step does to the delivery loop, when it is not the handler that
\* inserts a row: no row appears or disappears.
LEMMA RowsStay ==
    ASSUME DP!TypeOK,
           \/ \E r \in Replicas :
                 \/ DP!ClaimDue(r)
                 \/ \E d \in Deliveries : DP!Send(r, d)
                 \/ DP!MarkDelivered(r) \/ DP!MarkFailed(r)
                 \/ DP!LoseOutcome(r) \/ DP!Crash(r)
           \/ \E d \in Deliveries : DP!BackoffEnds(d)
    PROVE  Queued' = Queued
<1>1. ASSUME NEW r \in Replicas, DP!MarkDelivered(r) \/ DP!MarkFailed(r)
      PROVE  \A d \in Deliveries : drow'[d] # None <=> drow[d] # None
  BY <1>1, DP!MarkEffect, DeliveryConstants
<1>2. ASSUME NEW d \in Deliveries, DP!BackoffEnds(d)
      PROVE  \A e \in Deliveries : drow'[e] # None <=> drow[e] # None
  BY <1>2, DP!BackoffEffect, DeliveryConstants
<1>3. ASSUME NEW r \in Replicas,
             \/ DP!ClaimDue(r)
             \/ \E d \in Deliveries : DP!Send(r, d)
             \/ DP!LoseOutcome(r) \/ DP!Crash(r)
      PROVE  drow' = drow
  BY <1>3 DEF DP!ClaimDue, DP!Send, DP!LoseOutcome, DP!Crash
<1>4. QED
  BY <1>1, <1>2, <1>3 DEF Queued, Deliveries

\* The handler inserts a row for an event on the partition.
EnqueueRead == \E d \in Deliveries : d[1] \in Topic /\ DP!Enqueue(d)

\* A step appends at most one event to the partition.
LogGrows == log' = log \/ \E e \in EventIDs : log' = Append(log, e)

\* The handler works on an event, for endpoints that are configured.
LEMMA ParsedInHand ==
    ASSUME PipelineInv, NEW r \in Replicas, NEW p \in todo[r]
    PROVE  /\ inHand[r] \in 1..Len(log)
           /\ log[inHand[r]] \in EventIDs
           /\ <<log[inHand[r]], p>> \in Deliveries
<1>1. /\ log \in Seq(EventIDs \cup {Poison})
      /\ inHand[r] \in 0..Len(log)
      /\ todo[r] \subseteq Endpoints
  BY DEF PipelineInv, ConsumerInv, CP!TypeOK
<1>2. inHand[r] # 0 /\ log[inHand[r]] # Poison
  BY DEF PipelineInv, ConsumerInv, CP!HandledSoFar
<1>3. QED
  BY <1>1, <1>2 DEF Deliveries

\* A step of the pipeline is a step of one component, or of the consumer and
\* the delivery loop together; the others only see the count of faults change.
LEMMA Moves ==
    ASSUME PipelineInv, [Next]_vars
    PROVE  \/ /\ OP!Next /\ LogGrows /\ UNCHANGED <<consumerVars, deliveryVars>>
           \/ /\ CP!Next /\ UNCHANGED <<outboxVars, log>>
              /\ \/ EnqueueRead
                 \/ \E r \in Replicas : DP!Crash(r)
                 \/ UNCHANGED deliveryVars
           \/ /\ DP!Next /\ UNCHANGED <<outboxVars, log, consumerVars>>
              /\ Queued' = Queued
           \/ UNCHANGED vars
<1> DEFINE OMoves == OP!Next /\ LogGrows /\ UNCHANGED <<consumerVars, deliveryVars>>
           CMoves == /\ CP!Next /\ UNCHANGED <<outboxVars, log>>
                     /\ \/ EnqueueRead
                        \/ \E r \in Replicas : DP!Crash(r)
                        \/ UNCHANGED deliveryVars
           DMoves == /\ DP!Next /\ UNCHANGED <<outboxVars, log, consumerVars>>
                     /\ Queued' = Queued
<1>1. ASSUME NEW e \in EventIDs,
             \/ CommitEvent(e) \/ OutboxTime(e) \/ ReplayOne(e)
             \/ \E f \in EventIDs : ReplayHistory(e, f)
      PROVE  OMoves
  <2>1. OP!Next
    BY <1>1, OutboxSteps
  <2>2. LogGrows /\ UNCHANGED <<consumerVars, deliveryVars>>
    BY <1>1 DEF CommitEvent, OutboxTime, ReplayOne, ReplayHistory, LogGrows
  <2>3. QED
    BY <2>1, <2>2
<1>2. ASSUME NEW w \in Publishers, PublisherStep(w) \/ PublisherFault(w)
      PROVE  OMoves
  <2>1. OP!Next
    BY <1>2, OutboxSteps
  <2>2. LogGrows /\ UNCHANGED <<consumerVars, deliveryVars>>
    BY <1>2 DEF PublisherStep, PublisherFault, Publish, LogGrows
  <2>3. QED
    BY <2>1, <2>2
<1>3. ASSUME NEW r \in Replicas, ConsumerStep(r)
      PROVE  CMoves
  <2>1. CP!Next
    BY <1>3, ConsumerSteps
  <2>2. CASE UNCHANGED <<outboxVars, deliveryVars>> /\ log' = log
    BY <2>1, <2>2
  <2>3. ASSUME NEW p \in Endpoints, Enqueue(r, p)
        PROVE  CMoves
    <3>1. UNCHANGED <<outboxVars, log>>
      BY <2>3 DEF Enqueue, C!Enqueue
    <3>2. EnqueueRead \/ UNCHANGED deliveryVars
      <4> DEFINE d == <<log[inHand[r]], p>>
      <4>1. CASE drow[d] # None
        BY <2>3, <4>1 DEF Enqueue
      <4>2. CASE drow[d] = None /\ D!Enqueue(d)
        <5>1. d \in Deliveries /\ d[1] \in Topic
          BY <2>3, ParsedInHand DEF Enqueue, Topic
        <5>2. QED
          BY <4>2, <5>1, DeliverySteps DEF EnqueueRead
      <4>3. QED
        BY <2>3, <4>1, <4>2 DEF Enqueue
    <3>3. QED
      BY <2>1, <3>1, <3>2
  <2>4. QED
    BY <1>3, <2>2, <2>3 DEF ConsumerStep, C!Assign, C!Fetch, C!CommitMessages
<1>4. ASSUME NEW r \in Replicas, ConsumerFault(r)
      PROVE  CMoves
  <2>1. CP!Next
    BY <1>4, ConsumerSteps
  <2>2. QED
    BY <1>4, <2>1 DEF ConsumerFault, C!HandlerError, C!Rebalance
<1>5. ASSUME NEW r \in Replicas, CrashReplica(r)
      PROVE  CMoves
  <2>1. CP!Next
    BY <1>5, ConsumerSteps
  <2>2. UNCHANGED <<outboxVars, log>>
    BY <1>5 DEF CrashReplica, C!Crash
  <2>3. DP!Crash(r) \/ UNCHANGED deliveryVars
    BY <1>5, DeliverySteps DEF CrashReplica
  <2>4. QED
    BY <2>1, <2>2, <2>3
<1>6. ASSUME NEW r \in Replicas, DeliveryStep(r) \/ LoseDelivery(r)
      PROVE  DMoves
  <2>1. DP!Next
    BY <1>6, DeliverySteps DEF DP!Next, DP!Step
  <2>2. Queued' = Queued
    BY <1>6, DeliverySteps, RowsStay DEF PipelineInv, DeliveryInv
  <2>3. QED
    BY <1>6, <2>1, <2>2 DEF DeliveryStep, LoseDelivery
<1>7. ASSUME NEW d \in Deliveries, DeliveryTime(d)
      PROVE  DMoves
  <2>1. DP!Next
    BY <1>7, DeliverySteps DEF DP!Next
  <2>2. Queued' = Queued
    BY <1>7, DeliverySteps, RowsStay DEF PipelineInv, DeliveryInv
  <2>3. QED
    BY <1>7, <2>1, <2>2 DEF DeliveryTime
<1> HIDE DEF OMoves, CMoves, DMoves
<1>8. OMoves \/ CMoves \/ DMoves \/ UNCHANGED vars
  BY <1>1, <1>2, <1>3, <1>4, <1>5, <1>6, <1>7 DEF Next
<1>9. QED
  BY <1>8 DEF OMoves, CMoves, DMoves

------------------------------------------------------------------------------
(***************************************************************************)
(* Every step keeps the invariant.                                         *)
(***************************************************************************)

\* A component that does nothing keeps its part, while others count a fault.
LEMMA OutboxIdle ==
    ASSUME OutboxInv, UNCHANGED <<outboxVars, log>>, faults' \in 0..MaxFaults
    PROVE  OutboxInv'
<1>1. Topic' = Topic /\ UNCHANGED <<orow, dlq, opc, obatch, ocur, replay, replays>>
  BY DEF Topic, outboxVars
<1>2. QED
  BY <1>1 DEF OutboxInv, OP!TypeOK, OP!SentIsOnKafka, OP!PublishedIsOnKafka

\* Likewise for the delivery loop.
LEMMA DeliveryIdle ==
    ASSUME DeliveryInv, UNCHANGED deliveryVars, faults' \in 0..MaxFaults
    PROVE  DeliveryInv'
<1>1. UNCHANGED <<drow, received, dpc, dbatch, dcur>>
  BY DEF deliveryVars
<1>2. QED
  BY <1>1
  DEF DeliveryInv, DP!TypeOK, DP!SentIsReceived, DP!DeliveredIsReceived, DP!HeldOnce

\* Likewise for the consumer.
LEMMA ConsumerIdle ==
    ASSUME ConsumerInv, UNCHANGED <<log, consumerVars>>, Queued' = Queued,
           faults' \in 0..MaxFaults
    PROVE  ConsumerInv'
<1>1. UNCHANGED <<log, committed, owner, position, inHand, todo, errors>>
  BY DEF consumerVars
<1>2. CP!TypeOK' /\ CP!HandledSoFar'
  BY <1>1 DEF ConsumerInv, CP!TypeOK, CP!HandledSoFar
<1>3. CP!Skipped' = CP!Skipped
  BY <1>1 DEF CP!Skipped, CP!Passed, CP!Handled
<1>4. QED
  BY <1>1, <1>2, <1>3 DEF ConsumerInv

\* A publisher or the replayer appends an event for the consumer to read.
LEMMA ConsumerAppends ==
    ASSUME ConsumerInv, UNCHANGED consumerVars, Queued' = Queued,
           NEW e \in EventIDs, log' = Append(log, e), faults' \in 0..MaxFaults
    PROVE  ConsumerInv'
<1>1. UNCHANGED <<committed, owner, position, inHand, todo, errors>>
  BY DEF consumerVars
<1>2. CP!TypeOK' /\ CP!HandledSoFar'
  BY <1>1, CP!AppendType, ConsumerConstants DEF ConsumerInv
<1>3. CP!Skipped' \subseteq CP!Skipped
  BY <1>1, CP!AppendSkips, ConsumerConstants DEF ConsumerInv
<1>4. QED
  BY <1>1, <1>2, <1>3 DEF ConsumerInv

\* A step of the outbox keeps its part: what it appends has been committed.
LEMMA OutboxActs ==
    ASSUME OutboxInv, OP!Next
    PROVE  OutboxInv' /\ faults' \in 0..MaxFaults
<1>1. OP!TypeOK'
  BY OP!TypeStep, OutboxConstants DEF OutboxInv
<1>2. OP!SentIsOnKafka' /\ OP!PublishedIsOnKafka'
  BY OP!KafkaStep, OutboxConstants DEF OutboxInv
<1>3. \A e \in Topic' : orow'[e] # None
  <2>1. /\ Topic' \subseteq Topic \cup {e \in EventIDs : orow[e] # None}
        /\ \/ \E e \in EventIDs : OP!Insert(e)
           \/ \A e \in EventIDs : orow'[e] # None <=> orow[e] # None
    BY OP!EventsStep, OutboxConstants DEF OutboxInv
  <2>2. ASSUME NEW e \in EventIDs, OP!Insert(e)
        PROVE  \A f \in EventIDs : orow[f] # None => orow'[f] # None
    BY <2>2 DEF OP!Insert, OutboxInv, OP!TypeOK
  <2>3. QED
    BY <1>1, <2>1, <2>2 DEF OutboxInv, OP!TypeOK
<1>4. QED
  BY <1>1, <1>2, <1>3 DEF OutboxInv, OP!TypeOK

\* A step of the consumer keeps its part: without errors it skips nothing.
LEMMA ConsumerActs ==
    ASSUME ConsumerInv, CP!Next
    PROVE  ConsumerInv' /\ faults' \in 0..MaxFaults
<1>1. CP!TypeOK' /\ CP!HandledSoFar'
  BY CP!TypeStep, ConsumerConstants DEF ConsumerInv
<1>2. \/ CP!Skipped' \subseteq CP!Skipped /\ errors' = errors
      \/ errors' = errors + 1
  BY CP!SkippedStep, ConsumerConstants DEF ConsumerInv
<1>3. errors \in Nat
  BY DEF ConsumerInv, CP!TypeOK
<1>4. errors' = 0 => CP!Skipped' = {}
  BY <1>2, <1>3 DEF ConsumerInv
<1>5. QED
  BY <1>1, <1>4 DEF ConsumerInv, CP!TypeOK

\* A step of the delivery loop keeps its part.
LEMMA DeliveryActs ==
    ASSUME DeliveryInv, DP!Next
    PROVE  DeliveryInv' /\ faults' \in 0..MaxFaults
<1>1. DP!TypeOK'
  BY DP!TypeStep, DeliveryConstants DEF DeliveryInv
<1>2. DP!SentIsReceived' /\ DP!DeliveredIsReceived'
  BY DP!ReceivedStep, DeliveryConstants DEF DeliveryInv
<1>3. DP!HeldOnce'
  BY DP!HeldOnceStep, DeliveryConstants DEF DeliveryInv
<1>4. QED
  BY <1>1, <1>2, <1>3 DEF DeliveryInv, DP!TypeOK

\* Every step of the pipeline keeps the invariant of each component.
LEMMA PipelineStep == PipelineInv /\ [Next]_vars => PipelineInv'
<1> SUFFICES ASSUME PipelineInv, [Next]_vars
             PROVE  PipelineInv'
  OBVIOUS
<1> USE DEF PipelineInv
<1>1. CASE OP!Next /\ LogGrows /\ UNCHANGED <<consumerVars, deliveryVars>>
  <2>1. OutboxInv' /\ faults' \in 0..MaxFaults
    BY <1>1, OutboxActs
  <2>2. DeliveryInv'
    BY <1>1, <2>1, DeliveryIdle
  <2>3. Queued' = Queued
    BY <1>1 DEF Queued, deliveryVars
  <2>4. ConsumerInv'
    BY <1>1, <2>1, <2>3, ConsumerIdle, ConsumerAppends DEF LogGrows
  <2>5. QED
    BY <2>1, <2>2, <2>4
<1>2. CASE /\ CP!Next /\ UNCHANGED <<outboxVars, log>>
           /\ \/ EnqueueRead
              \/ \E r \in Replicas : DP!Crash(r)
              \/ UNCHANGED deliveryVars
  <2>1. ConsumerInv' /\ faults' \in 0..MaxFaults
    BY <1>2, ConsumerActs
  <2>2. OutboxInv'
    BY <1>2, <2>1, OutboxIdle
  <2>3. CASE DP!Next
    BY <2>1, <2>2, <2>3, DeliveryActs
  <2>4. CASE UNCHANGED deliveryVars
    BY <2>1, <2>2, <2>4, DeliveryIdle
  <2>5. QED
    BY <1>2, <2>3, <2>4 DEF EnqueueRead, DP!Next
<1>3. CASE /\ DP!Next /\ UNCHANGED <<outboxVars, log, consumerVars>>
           /\ Queued' = Queued
  <2>1. DeliveryInv' /\ faults' \in 0..MaxFaults
    BY <1>3, DeliveryActs
  <2>2. OutboxInv'
    BY <1>3, <2>1, OutboxIdle
  <2>3. ConsumerInv'
    BY <1>3, <2>1, ConsumerIdle
  <2>4. QED
    BY <2>1, <2>2, <2>3
<1>4. CASE UNCHANGED vars
  <2>1. faults' \in 0..MaxFaults
    BY <1>4 DEF vars, OutboxInv, OP!TypeOK
  <2>2. Queued' = Queued /\ UNCHANGED <<outboxVars, log, consumerVars, deliveryVars>>
    BY <1>4 DEF vars, Queued, deliveryVars
  <2>3. QED
    BY <2>1, <2>2, OutboxIdle, ConsumerIdle, DeliveryIdle
<1> HIDE DEF PipelineInv
<1>5. QED
  BY <1>1, <1>2, <1>3, <1>4, Moves

\* The invariant holds at the start.
LEMMA PipelineInit == Init => PipelineInv
<1> SUFFICES ASSUME Init
             PROVE  PipelineInv
  OBVIOUS
<1>1. OutboxInv
  <2>1. /\ Topic = {} /\ dlq = {} /\ replay = {} /\ faults = 0 /\ replays = 0
        /\ orow = [e \in EventIDs |-> None]
        /\ opc = [w \in Publishers |-> "poll"]
        /\ obatch = [w \in Publishers |-> {}]
        /\ ocur = [w \in Publishers |-> None]
    BY DEF Init, O!Init
  <2>2. QED
    BY <2>1, PipelineAssumption
    DEF OutboxInv, OP!TypeOK, OP!SentIsOnKafka, OP!PublishedIsOnKafka
<1>2. ConsumerInv
  <2>1. /\ log = << >> /\ committed = 0 /\ owner = None /\ Queued = {}
        /\ faults = 0 /\ errors = 0
        /\ position = [c \in Replicas |-> 0]
        /\ inHand = [c \in Replicas |-> 0]
        /\ todo = [c \in Replicas |-> {}]
    BY DEF Init, C!Init
  <2>2. CP!TypeOK /\ CP!HandledSoFar
    BY <2>1, PipelineAssumption DEF CP!TypeOK, CP!HandledSoFar
  <2>3. CP!Skipped = {}
    BY <2>1 DEF CP!Skipped
  <2>4. QED
    BY <2>2, <2>3 DEF ConsumerInv
<1>3. DeliveryInv
  <2>1. /\ drow = [d \in Deliveries |-> None] /\ received = {} /\ faults = 0
        /\ dpc = [w \in Replicas |-> "poll"]
        /\ dbatch = [w \in Replicas |-> {}]
        /\ dcur = [w \in Replicas |-> None]
    BY DEF Init, D!Init
  <2>2. QED
    BY <2>1, PipelineAssumption
    DEF DeliveryInv, DP!TypeOK, DP!SentIsReceived, DP!DeliveredIsReceived,
        DP!HeldOnce
<1>4. QED
  BY <1>1, <1>2, <1>3 DEF PipelineInv

\* The invariant of the pipeline.
LEMMA PipelineCorrect == Spec => []PipelineInv
BY PipelineInit, PipelineStep, PTL DEF Spec

------------------------------------------------------------------------------
(***************************************************************************)
(* An event that the outbox calls published is on the partition, and every *)
(* message below the committed offset has its delivery rows.               *)
(***************************************************************************)

\* A published event is queued for the endpoint, or will still be read.
THEOREM NothingFallsBetween == Spec => []PublishedIsInFlight
<1>1. PipelineInv => PublishedIsInFlight
  <2> SUFFICES ASSUME PipelineInv, errors = 0, NEW d \in Deliveries \ Queued,
                      orow[d[1]] # None, orow[d[1]].status = "published"
               PROVE  \E i \in committed + 1 .. Len(log) : log[i] = d[1]
    BY DEF PublishedIsInFlight
  <2>1. PICK e \in EventIDs, p \in Endpoints : d = <<e, p>>
    BY DEF Deliveries
  <2>2. e \in Topic
    BY <2>1 DEF PipelineInv, OutboxInv, OP!PublishedIsOnKafka
  <2>3. PICK i \in DOMAIN log : log[i] = e
    BY <2>2 DEF Topic
  <2>4. i \in 1..Len(log) /\ Len(log) \in Nat /\ committed \in 0..Len(log)
    BY DEF PipelineInv, ConsumerInv, CP!TypeOK
  <2>5. ~(i <= committed)
    <3> SUFFICES ASSUME i <= committed
                 PROVE  FALSE
      OBVIOUS
    <3>1. CP!Handled(i)
      BY <2>4 DEF PipelineInv, ConsumerInv, CP!Skipped, CP!Passed
    <3>2. e # Poison
      BY PipelineAssumption
    <3>3. d \in Queued
      BY <2>1, <2>3, <3>1, <3>2 DEF CP!Handled
    <3>4. QED
      BY <3>3
  <2>6. i \in committed + 1 .. Len(log)
    BY <2>4, <2>5
  <2>7. QED
    BY <2>1, <2>3, <2>6
<1>2. QED
  BY <1>1, PipelineCorrect, PTL

------------------------------------------------------------------------------
(***************************************************************************)
(* With one webhook worker, the pipeline implements EventDelivery.         *)
(***************************************************************************)
OneReplica == \A q, r \in Replicas : q = r

\* The variables of EventDelivery.
Committed == {e \in EventIDs : orow[e] # None}

Status == [d \in Deliveries |-> IF drow[d] = None THEN "none" ELSE drow[d].status]

\* A step of the outbox commits an event, or is invisible to the receivers.
LEMMA OutboxImplements ==
    ASSUME PipelineInv, OP!Next, UNCHANGED deliveryVars
    PROVE  [Promise!Next]_(Promise!vars)
<1>1. received' = received /\ Status' = Status
  BY DEF deliveryVars, Status
<1>2. ASSUME NEW e \in EventIDs, OP!Insert(e)
      PROVE  Promise!Commit(e)
  <2>1. /\ orow \in [EventIDs -> OP!Rows \cup {None}]
        /\ None \notin OP!Rows
    BY OutboxConstants DEF PipelineInv, OutboxInv, OP!TypeOK, OP!RowAssumption
  <2>2. orow[e] = None /\ orow'[e] # None /\ \A f \in EventIDs \ {e} : orow'[f] = orow[f]
    <3>1. [status |-> "pending", attempts |-> 0, due |-> TRUE, lapsed |-> FALSE] \in OP!Rows
      BY DEF OP!Rows, OP!Statuses
    <3>2. QED
      BY <1>2, <2>1, <3>1 DEF OP!Insert
  <2>3. e \notin Committed /\ Committed' = Committed \cup {e}
    BY <2>2 DEF Committed
  <2>4. QED
    BY <1>1, <2>3 DEF Promise!Commit, Committed, Status
<1>3. CASE \A e \in EventIDs : orow'[e] # None <=> orow[e] # None
  <2>1. Committed' = Committed
    BY <1>3 DEF Committed
  <2>2. QED
    BY <1>1, <2>1 DEF Promise!vars, Committed, Status
<1>4. \/ \E e \in EventIDs : OP!Insert(e)
      \/ \A e \in EventIDs : orow'[e] # None <=> orow[e] # None
  BY OP!EventsStep, OutboxConstants DEF PipelineInv, OutboxInv
<1>5. QED
  BY <1>2, <1>3, <1>4 DEF Promise!Next

\* The handler queues an event the ledger has committed, once per endpoint.
LEMMA EnqueueImplements ==
    ASSUME PipelineInv, NEW d \in Deliveries, d[1] \in Topic, DP!Enqueue(d),
           UNCHANGED outboxVars
    PROVE  Promise!Queue(d)
<1>1. Committed' = Committed
  BY DEF outboxVars, Committed
<1>2. d[1] \in Committed
  BY DEF PipelineInv, OutboxInv, OP!TypeOK, Committed
<1>3. drow \in [Deliveries -> DP!Rows \cup {None}] /\ None \notin DP!Rows
  BY DeliveryConstants DEF PipelineInv, DeliveryInv, DP!TypeOK, DP!DeliveryRowAssumption
<1>4. received' = received /\ drow[d] = None
  BY DEF DP!Enqueue
<1>5. /\ drow'[d] # None /\ drow'[d].status = "pending"
      /\ \A c \in Deliveries \ {d} : drow'[c] = drow[c]
  <2>1. [status |-> "pending", attempts |-> 0, due |-> TRUE] \in DP!Rows
    BY DEF DP!Rows
  <2>2. QED
    BY <1>3, <2>1 DEF DP!Enqueue
<1>6. Status[d] = "none" /\ Status' = [Status EXCEPT ![d] = "pending"]
  BY <1>4, <1>5 DEF Status
<1>7. QED
  BY <1>1, <1>2, <1>4, <1>6 DEF Promise!Queue, Committed, Status

\* A step of the only webhook worker accepts or settles the pending delivery in
\* its hand, or is invisible.
LEMMA DeliveryImplements ==
    ASSUME PipelineInv, DP!HeldIsPending, UNCHANGED outboxVars, DP!Next,
           Queued' = Queued
    PROVE  [Promise!Next]_(Promise!vars)
<1>1. Committed' = Committed
  BY DEF outboxVars, Committed
<1>2. DP!TypeOK /\ DP!SentIsReceived
  BY DEF PipelineInv, DeliveryInv
<1>3. None \notin DP!Rows /\ None \notin Deliveries
  BY DeliveryConstants, PipelineAssumption DEF DP!DeliveryRowAssumption, Deliveries
<1>4. CASE Status' = Status /\ received' = received
  BY <1>1, <1>4 DEF Promise!vars, Committed, Status
<1>5. ASSUME NEW d \in Deliveries, DP!Enqueue(d)
      PROVE  FALSE
  <2>1. [status |-> "pending", attempts |-> 0, due |-> TRUE] \in DP!Rows
    BY DEF DP!Rows
  <2>2. drow[d] = None /\ drow'[d] # None
    BY <1>2, <1>3, <1>5, <2>1 DEF DP!Enqueue, DP!TypeOK
  <2>3. QED
    BY <2>2 DEF Queued
<1>6. ASSUME NEW d \in Deliveries, DP!BackoffEnds(d)
      PROVE  Status' = Status /\ received' = received
  <2>1. \A c \in Deliveries : /\ drow'[c] # None <=> drow[c] # None
                              /\ drow'[c].status = drow[c].status
    BY <1>2, <1>6, DP!BackoffEffect, DeliveryConstants
  <2>2. QED
    BY <1>6, <2>1 DEF Status, DP!BackoffEnds
<1>7. ASSUME NEW r \in Replicas, DP!ClaimDue(r) \/ DP!LoseOutcome(r) \/ DP!Crash(r)
      PROVE  Status' = Status /\ received' = received
  BY <1>7 DEF DP!ClaimDue, DP!LoseOutcome, DP!Crash, Status
<1>8. ASSUME NEW r \in Replicas, NEW d \in Deliveries, DP!Send(r, d)
      PROVE  [Promise!Next]_(Promise!vars)
  <2>1. Status' = Status /\ received' \in {received, received \cup {d}}
    BY <1>8 DEF DP!Send, Status
  <2>2. Status[d] = "pending"
    BY <1>2, <1>8 DEF DP!Send, DP!HeldIsPending, DP!TypeOK, Status
  <2>3. CASE received' = received \cup {d}
    <3>1. Promise!Accept(d)
      BY <1>1, <2>1, <2>2, <2>3 DEF Promise!Accept, Committed, Status
    <3>2. QED
      BY <3>1 DEF Promise!Next, Promise!Deliveries, Deliveries
  <2>4. QED
    BY <1>4, <2>1, <2>3
<1>9. ASSUME NEW r \in Replicas, DP!MarkDelivered(r) \/ DP!MarkFailed(r)
      PROVE  [Promise!Next]_(Promise!vars)
  <2>1. PICK d \in Deliveries : d = dcur[r]
    BY <1>2, <1>9, DP!MarkEffect, DeliveryConstants
  <2>2. /\ drow[d] \in DP!Rows /\ drow'[d] \in DP!Rows
        /\ \A c \in Deliveries \ {d} : drow'[c] = drow[c]
        /\ received' = received
        /\ DP!MarkDelivered(r) => drow'[d].status = "delivered"
        /\ DP!MarkFailed(r) => drow'[d].status \in {"dead_letter", "pending"}
    BY <1>2, <1>9, <2>1, DP!MarkEffect, DeliveryConstants
  <2>3. DP!MarkDelivered(r) => d \in received
    BY <1>2, <2>1 DEF DP!MarkDelivered, DP!SentIsReceived
  <2>4. Status[d] = "pending"
    BY <1>3, <2>1, <2>2 DEF DP!HeldIsPending, Status
  <2>5. Status' = [Status EXCEPT ![d] = drow'[d].status]
    BY <1>3, <2>2 DEF Status
  <2>6. CASE drow'[d].status = "pending"
    <3>1. Status' = Status
      BY <2>4, <2>5, <2>6 DEF Status
    <3>2. QED
      BY <1>4, <2>2, <3>1
  <2>7. CASE drow'[d].status = "dead_letter" \/ DP!MarkDelivered(r)
    <3>1. Promise!Settle(d)
      BY <1>1, <2>2, <2>3, <2>4, <2>5, <2>7 DEF Promise!Settle, Committed, Status
    <3>2. QED
      BY <3>1 DEF Promise!Next, Promise!Deliveries, Deliveries
  <2>8. QED
    BY <1>9, <2>2, <2>6, <2>7
<1>10. QED
  BY <1>4, <1>5, <1>6, <1>7, <1>8, <1>9 DEF DP!Next, DP!Step

\* Every step of the pipeline is a step of EventDelivery, or invisible.
LEMMA StepImplements ==
    ASSUME PipelineInv, DP!HeldIsPending, [Next]_vars
    PROVE  [Promise!Next]_(Promise!vars)
<1>1. CASE OP!Next /\ UNCHANGED deliveryVars
  BY <1>1, OutboxImplements
<1>2. CASE EnqueueRead /\ UNCHANGED outboxVars
  BY <1>2, EnqueueImplements
  DEF EnqueueRead, Promise!Next, Promise!Deliveries, Deliveries
<1>3. CASE DP!Next /\ Queued' = Queued /\ UNCHANGED outboxVars
  BY <1>3, DeliveryImplements
<1>4. CASE (\E r \in Replicas : DP!Crash(r)) /\ UNCHANGED outboxVars
  <2>1. DP!Next
    BY <1>4 DEF DP!Next
  <2>2. Queued' = Queued
    BY <1>4, RowsStay DEF PipelineInv, DeliveryInv
  <2>3. QED
    BY <1>3, <1>4, <2>1, <2>2
<1>5. CASE UNCHANGED <<outboxVars, deliveryVars>>
  BY <1>5 DEF outboxVars, deliveryVars, Promise!vars
<1>6. QED
  BY <1>1, <1>2, <1>3, <1>4, <1>5, Moves DEF vars

\* With one replica the deliveries in its hands stay pending.
LEMMA HeldStaysPending ==
    ASSUME OneReplica, PipelineInv, DP!HeldIsPending, [Next]_vars
    PROVE  DP!HeldIsPending'
<1>1. DP!OneReplica
  BY DEF OneReplica, DP!OneReplica
<1>2. CASE UNCHANGED deliveryVars
  BY <1>2 DEF deliveryVars, DP!HeldIsPending
<1>3. CASE DP!Next
  BY <1>1, <1>3, DP!HeldIsPendingStep, DeliveryConstants DEF PipelineInv, DeliveryInv
<1>4. QED
  BY <1>2, <1>3, Moves DEF vars, EnqueueRead, DP!Next

\* With one webhook worker the pipeline keeps its promise: an event is queued
\* once per endpoint, only after its commit, however often it is published,
\* replayed or consumed, and settled once, as delivered only when accepted.
THEOREM PromiseIsKept == OneReplica => (Spec => KeepsPromise)
<1> SUFFICES ASSUME OneReplica
             PROVE  Spec => KeepsPromise
  OBVIOUS
<1>1. Init => Promise!Init /\ DP!HeldIsPending
  <2> SUFFICES ASSUME Init
               PROVE  Promise!Init /\ DP!HeldIsPending
    OBVIOUS
  <2>1. /\ orow = [e \in EventIDs |-> None]
        /\ drow = [d \in Deliveries |-> None]
        /\ received = {}
        /\ dbatch = [r \in Replicas |-> {}]
        /\ dcur = [r \in Replicas |-> None]
    BY DEF Init, O!Init, D!Init
  <2>2. Promise!Init
    BY <2>1 DEF Promise!Init, Promise!Deliveries, Deliveries
  <2>3. DP!HeldIsPending
    BY <2>1 DEF DP!HeldIsPending
  <2>4. QED
    BY <2>2, <2>3
<1>2. PipelineInv /\ DP!HeldIsPending /\ [Next]_vars => DP!HeldIsPending'
  BY HeldStaysPending
<1>3. PipelineInv /\ DP!HeldIsPending /\ [Next]_vars => [Promise!Next]_(Promise!vars)
  BY StepImplements
<1>4. Spec => Promise!Spec
  BY <1>1, <1>2, <1>3, PipelineCorrect, PTL DEF Spec, Promise!Spec
<1>5. QED
  BY <1>4 DEF KeepsPromise
==============================================================================
