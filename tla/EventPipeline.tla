---------------------------- MODULE EventPipeline ----------------------------
(***************************************************************************)
(* The whole way of an event: committed by the ledger, published by the    *)
(* outbox workers (Outbox), consumed from Kafka (EventConsumer) and POSTed *)
(* to the endpoints (WebhookDelivery).                                     *)
(*                                                                         *)
(* The components share two things.  The partition that publishers and     *)
(* replayers append to is the one the consumer group reads, so a repeated  *)
(* publish is a repeated message.  The table webhook_deliveries that the   *)
(* handler of the consumer inserts into is the one the delivery loop       *)
(* works through.  The two halves of a webhook worker run in one process   *)
(* (src/cmd/webhook-worker) and die together.                              *)
(***************************************************************************)
EXTENDS Integers, Sequences, FiniteSets

CONSTANTS EventIDs, Endpoints,
          Publishers,          \* outbox workers
          Replicas,            \* webhook workers
          OutboxBatch, OutboxAttempts, WebhookBatch, WebhookAttempts,
          MaxFaults,           \* bound on crashes, rebalances, lost statements
          MaxReplays,          \* bound on replays
          MaxErrors,           \* bound on errors of the consumer's handler
          Poison, None

ASSUME PipelineAssumption ==
    /\ EventIDs \subseteq Int
    /\ {OutboxBatch, OutboxAttempts, WebhookBatch, WebhookAttempts} \subseteq Nat \ {0}
    /\ {MaxFaults, MaxReplays, MaxErrors} \subseteq Nat
    /\ IsFiniteSet(Publishers) /\ IsFiniteSet(Replicas)
    /\ Poison \notin EventIDs
    /\ None \notin EventIDs \cup Replicas
    /\ None \notin EventIDs \X Endpoints

VARIABLES orow, dlq, opc, obatch, ocur, replay, replays,   \* the outbox
          log,                                             \* the partition
          committed, owner, position, inHand, todo, errors, \* the consumer
          drow, received, dpc, dbatch, dcur,               \* the deliveries
          faults                                           \* in any of them

Deliveries == EventIDs \X Endpoints

Topic == {log[i] : i \in DOMAIN log}

Queued == {d \in Deliveries : drow[d] # None}

O == INSTANCE Outbox WITH
        Workers <- Publishers, BatchSize <- OutboxBatch,
        MaxAttempts <- OutboxAttempts,
        row <- orow, topic <- Topic, pc <- opc, batch <- obatch, cur <- ocur

\* Publish and ReplayOne take the place of Produce, and their bounds bound the log.
C == INSTANCE EventConsumer WITH MaxLog <- 0, queued <- Queued

D == INSTANCE WebhookDelivery WITH
        Workers <- Replicas, BatchSize <- WebhookBatch,
        MaxAttempts <- WebhookAttempts,
        row <- drow, pc <- dpc, batch <- dbatch, cur <- dcur

ASSUME PipelineRowAssumption == None \notin O!Rows /\ None \notin D!Rows

outboxVars == <<orow, dlq, opc, obatch, ocur, replay, replays>>
consumerVars == <<committed, owner, position, inHand, todo, errors>>
deliveryVars == <<drow, received, dpc, dbatch, dcur>>

vars == <<outboxVars, log, consumerVars, deliveryVars, faults>>

Init ==
    /\ log = << >>
    /\ drow = [d \in Deliveries |-> None]
    /\ O!Init
    /\ C!Init
    /\ D!Init

(***************************************************************************)
(* The steps the components share.                                         *)
(***************************************************************************)

\* The producer writes to the partition: once when it reports success,
\* otherwise at most once.
Publish(w, e) ==
    /\ log' \in {log, Append(log, e)}
    /\ O!Publish(w, e)
    /\ opc'[w] = "published" => log' # log
    /\ UNCHANGED <<consumerVars, deliveryVars>>

ReplayOne(e) ==
    /\ log' \in {log, Append(log, e)}
    /\ O!ReplayOne(e)
    /\ UNCHANGED <<consumerVars, deliveryVars>>

\* A mutant of Enqueue: ON CONFLICT DO UPDATE, which starts over.
EnqueueAgain(r, endpoint) ==
    /\ endpoint \in todo[r]
    /\ drow' = [drow EXCEPT ![<<log[inHand[r]], endpoint>>] =
                  [status |-> "pending", attempts |-> 0, due |-> TRUE]]
    /\ C!Enqueue(r, endpoint)
    /\ UNCHANGED <<received, dpc, dbatch, dcur, outboxVars>>

\* The handler inserts the row of the delivery loop, or finds it there.
Enqueue(r, endpoint) ==
    /\ endpoint \in todo[r]
    /\ LET d == <<log[inHand[r]], endpoint>> IN
          \/ drow[d] = None /\ D!Enqueue(d)
          \/ drow[d] # None /\ UNCHANGED deliveryVars
    /\ C!Enqueue(r, endpoint)
    /\ UNCHANGED outboxVars

\* A webhook worker dies with both its loops.
CrashReplica(r) ==
    /\ \/ D!Crash(r)
       \/ dbatch[r] = {} /\ dcur[r] = None /\ UNCHANGED deliveryVars
    /\ C!Crash(r)
    /\ UNCHANGED outboxVars

(***************************************************************************)
(* The steps a component takes alone.                                      *)
(***************************************************************************)

PublisherStep(w) ==
    \/ \E e \in EventIDs : Publish(w, e)
    \/ /\ UNCHANGED <<log, consumerVars, deliveryVars>>
       /\ O!Claim(w) \/ O!MarkPublished(w) \/ O!MarkFailed(w) \/ O!PublishToDLQ(w)

PublisherFault(w) ==
    /\ UNCHANGED <<log, consumerVars, deliveryVars>>
    /\ O!LoseOutcome(w) \/ O!Crash(w)

OutboxTime(e) ==
    /\ UNCHANGED <<log, consumerVars, deliveryVars>>
    /\ O!BackoffEnds(e) \/ O!LeaseLapses(e)

CommitEvent(e) ==
    /\ UNCHANGED <<log, consumerVars, deliveryVars>>
    /\ O!Insert(e)

ReplayHistory(from, to) ==
    /\ UNCHANGED <<log, consumerVars, deliveryVars>>
    /\ O!ReplayHistory(from, to)

ConsumerStep(r) ==
    \/ \E endpoint \in Endpoints : Enqueue(r, endpoint)
    \/ /\ UNCHANGED <<outboxVars, deliveryVars>>
       /\ C!Assign(r) \/ C!Fetch(r) \/ C!CommitMessages(r)

ConsumerFault(r) ==
    /\ UNCHANGED <<outboxVars, deliveryVars>>
    /\ C!HandlerError(r) \/ C!Rebalance

DeliveryStep(r) ==
    /\ UNCHANGED <<outboxVars, log, consumerVars>>
    /\ D!Step(r)

LoseDelivery(r) ==
    /\ UNCHANGED <<outboxVars, log, consumerVars>>
    /\ D!LoseOutcome(r)

DeliveryTime(d) ==
    /\ UNCHANGED <<outboxVars, log, consumerVars>>
    /\ D!BackoffEnds(d)

Next ==
    \/ \E e \in EventIDs :
          \/ CommitEvent(e)
          \/ OutboxTime(e)
          \/ ReplayOne(e)
          \/ \E f \in EventIDs : ReplayHistory(e, f)
    \/ \E w \in Publishers : PublisherStep(w) \/ PublisherFault(w)
    \/ \E r \in Replicas :
          \/ ConsumerStep(r)
          \/ ConsumerFault(r)
          \/ DeliveryStep(r)
          \/ LoseDelivery(r)
          \/ CrashReplica(r)
    \/ \E d \in Deliveries : DeliveryTime(d)

Spec == Init /\ [][Next]_vars

\* The fairness of the components.
FairSpec ==
    /\ Spec
    /\ \A w \in Publishers : WF_vars(PublisherStep(w))
    /\ \A r \in Replicas : WF_vars(ConsumerStep(r)) /\ WF_vars(DeliveryStep(r))
    /\ \A e \in EventIDs : WF_vars(OutboxTime(e))
    /\ \A d \in Deliveries : WF_vars(DeliveryTime(d))

------------------------------------------------------------------------------
(***************************************************************************)
(* Properties.                                                             *)
(***************************************************************************)

Promise == INSTANCE EventDelivery WITH
    events <- {e \in EventIDs : orow[e] # None},
    status <- [d \in Deliveries |->
                 IF drow[d] = None THEN "none" ELSE drow[d].status]

\* With one webhook worker the pipeline keeps its promise: however often an
\* event is published, replayed or consumed, it is queued once per endpoint,
\* only after the ledger has committed it, and settled once, as delivered only
\* when the endpoint has accepted it.
KeepsPromise == Promise!Spec

\* An event the outbox calls published is never between two components: it is
\* queued for an endpoint, or the consumer group will still read it, unless the
\* handler has failed.
PublishedIsInFlight ==
    errors = 0 =>
        \A d \in Deliveries \ Queued :
            orow[d[1]] # None /\ orow[d[1]].status = "published" =>
                \E i \in committed + 1 .. Len(log) : log[i] = d[1]

Settled(e) ==
    \A endpoint \in Endpoints :
        LET r == drow[<<e, endpoint>>] IN r # None /\ r.status # "pending"

\* End to end: every committed event is eventually settled for every endpoint
\* or dead-lettered by the outbox, unless the handler of the consumer fails,
\* although publishers and webhook workers crash and the partition changes hands.
EventsReachEndpoints ==
    \A e \in EventIDs :
        (orow[e] # None) ~>
            \/ Settled(e)
            \/ orow[e] # None /\ orow[e].status = "dead_letter"
            \/ errors > 0
==============================================================================
