--------------------------- MODULE EventConsumer ----------------------------
(***************************************************************************)
(* The consumer group of the webhook workers on one Kafka partition        *)
(* (src/internal/kafka/consumer.go) and its handler, which records one     *)
(* pending delivery per endpoint (Worker.HandleEvent in                    *)
(* src/internal/webhook/worker.go, Enqueue in store.go).                   *)
(*                                                                         *)
(* Kafka itself is external: a log, one committed offset per group, and at *)
(* most one replica that owns the partition.  A replica fetches from a     *)
(* position of its own, which only starts at the committed offset.  A      *)
(* commit may fail, and may also succeed after the replica has lost the    *)
(* partition: the broker only asks for a member of the current generation. *)
(***************************************************************************)
EXTENDS Integers, Sequences, FiniteSets

CONSTANTS EventIDs,    \* event ids
          Poison,      \* a message that cannot be parsed or has no event id
          Endpoints,   \* WEBHOOK_ENDPOINTS
          Replicas,    \* consumers of the group
          MaxLog,      \* bound on the messages of the partition
          MaxFaults,   \* bound on crashes and rebalances
          MaxErrors,   \* bound on errors of the handler
          None         \* no owner

ASSUME ConsumerAssumption ==
    /\ MaxLog \in Nat
    /\ MaxFaults \in Nat
    /\ MaxErrors \in Nat
    /\ Poison \notin EventIDs
    /\ None \notin Replicas

VARIABLES log,        \* the partition
          committed,  \* how many messages the group has committed
          owner,      \* the replica the partition is assigned to or None
          position,   \* by replica, how many messages it has fetched
          inHand,     \* by replica, the index of the message it handles or 0
          todo,       \* by replica, the endpoints HandleEvent has not reached
          queued,     \* the (event, endpoint) pairs of webhook_deliveries
          faults, errors

vars == <<log, committed, owner, position, inHand, todo, queued, faults, errors>>

Init ==
    /\ log = << >>
    /\ committed = 0
    /\ owner = None
    /\ position = [c \in Replicas |-> 0]
    /\ inHand = [c \in Replicas |-> 0]
    /\ todo = [c \in Replicas |-> {}]
    /\ queued = {}
    /\ faults = 0
    /\ errors = 0

\* A publisher or the replayer appends a message, perhaps again.
Produce(m) ==
    /\ Len(log) < MaxLog
    /\ log' = Append(log, m)
    /\ UNCHANGED <<committed, owner, position, inHand, todo, queued, faults, errors>>

\* A mutant of Assign: the group starts at the end of the partition.
AssignAtEnd(c) ==
    /\ owner = None
    /\ owner' = c
    /\ position' = [position EXCEPT ![c] = Len(log)]
    /\ UNCHANGED <<log, committed, inHand, todo, queued, faults, errors>>

\* A replica joins and resumes after the committed offset (FirstOffset when
\* there is none).
Assign(c) ==
    /\ owner = None
    /\ owner' = c
    /\ position' = [position EXCEPT ![c] = committed]
    /\ UNCHANGED <<log, committed, inHand, todo, queued, faults, errors>>

\* The coordinator takes the partition away from a replica that is still
\* handling a message.
Rebalance ==
    /\ owner # None
    /\ faults < MaxFaults
    /\ faults' = faults + 1
    /\ owner' = None
    /\ UNCHANGED <<log, committed, position, inHand, todo, queued, errors>>

\* FetchMessage.  HandleEvent has nothing to do for a poison message.
Fetch(c) ==
    LET i == position[c] + 1 IN
    /\ owner = c
    /\ inHand[c] = 0
    /\ i <= Len(log)
    /\ position' = [position EXCEPT ![c] = i]
    /\ inHand' = [inHand EXCEPT ![c] = i]
    /\ todo' = [todo EXCEPT ![c] = IF log[i] = Poison THEN {} ELSE Endpoints]
    /\ UNCHANGED <<log, committed, owner, queued, faults, errors>>

\* Enqueue: INSERT ... ON CONFLICT (event_id, endpoint) DO NOTHING, one endpoint
\* after the other.  The pair is the key of a row here, as in the table.
Enqueue(c, endpoint) ==
    /\ endpoint \in todo[c]
    /\ queued' = queued \cup {<<log[inHand[c]], endpoint>>}
    /\ todo' = [todo EXCEPT ![c] = @ \ {endpoint}]
    /\ UNCHANGED <<log, committed, owner, position, inHand, faults, errors>>

\* The failpoint before_webhook_persist, or PostgreSQL fails under Enqueue:
\* Run does not commit the message and fetches the next one.
HandlerError(c) ==
    /\ todo[c] # {}
    /\ errors < MaxErrors
    /\ errors' = errors + 1
    /\ inHand' = [inHand EXCEPT ![c] = 0]
    /\ todo' = [todo EXCEPT ![c] = {}]
    /\ UNCHANGED <<log, committed, owner, position, queued, faults>>

\* Mutants of CommitMessages: the offset is one too large, or committed before
\* the work.
CommitOneMore(c) ==
    /\ inHand[c] # 0
    /\ todo[c] = {}
    /\ inHand' = [inHand EXCEPT ![c] = 0]
    /\ committed' \in {committed, inHand[c] + 1}
    /\ UNCHANGED <<log, owner, position, todo, queued, faults, errors>>

CommitEarly(c) ==
    /\ inHand[c] # 0
    /\ owner = c
    /\ committed' = inHand[c]
    /\ inHand' = [inHand EXCEPT ![c] = IF todo[c] = {} THEN 0 ELSE @]
    /\ UNCHANGED <<log, owner, position, todo, queued, faults, errors>>

\* CommitMessages, after the handler; its failure is only logged.  It may move
\* the offset back when the partition has changed hands in the meantime.
CommitMessages(c) ==
    /\ inHand[c] # 0
    /\ todo[c] = {}
    /\ inHand' = [inHand EXCEPT ![c] = 0]
    /\ committed' \in {committed, inHand[c]}
    /\ UNCHANGED <<log, owner, position, todo, queued, faults, errors>>

\* The replica dies; the group notices.
Crash(c) ==
    /\ faults < MaxFaults
    /\ faults' = faults + 1
    /\ inHand' = [inHand EXCEPT ![c] = 0]
    /\ todo' = [todo EXCEPT ![c] = {}]
    /\ owner' = IF owner = c THEN None ELSE owner
    /\ UNCHANGED <<log, committed, position, queued, errors>>

Step(c) ==
    \/ Assign(c)
    \/ Fetch(c)
    \/ \E endpoint \in Endpoints : Enqueue(c, endpoint)
    \/ CommitMessages(c)

Next ==
    \/ \E m \in EventIDs \cup {Poison} : Produce(m)
    \/ Rebalance
    \/ \E c \in Replicas : Step(c) \/ HandlerError(c) \/ Crash(c)

Spec == Init /\ [][Next]_vars

\* Every replica keeps running, or is restarted, and Kafka serves it.
FairSpec == Spec /\ \A c \in Replicas : WF_vars(Step(c))

-----------------------------------------------------------------------------
(***************************************************************************)
(* Properties.                                                             *)
(***************************************************************************)

\* Type correctness.
TypeOK ==
    /\ log \in Seq(EventIDs \cup {Poison})
    /\ committed \in 0..Len(log)
    /\ owner \in Replicas \cup {None}
    /\ position \in [Replicas -> 0..Len(log)]
    /\ inHand \in [Replicas -> 0..Len(log)]
    /\ todo \in [Replicas -> SUBSET Endpoints]
    /\ queued \in SUBSET (EventIDs \X Endpoints)
    /\ faults \in 0..MaxFaults
    /\ errors \in 0..MaxErrors

Handled(i) ==
    log[i] # Poison => \A endpoint \in Endpoints : <<log[i], endpoint>> \in queued

\* Crashes, rebalances and failed or late commits replay messages and never
\* skip one: below the committed offset, only as many messages lack a delivery
\* row as the handler has failed.
SkippedOnlyByErrors ==
    Cardinality({i \in 1..committed : ~Handled(i)}) <= errors

\* Offsets are committed only after the handler has persisted its work: below
\* the committed offset every message has a delivery row for every endpoint.
CommittedIsHandled == \A i \in 1..committed : Handled(i)

\* As long as the handler never fails, every message is eventually handled for
\* every endpoint, although replicas crash, lose the partition and repeat work.
EventsAreHandled ==
    \A i \in 1..MaxLog :
        (Len(log) >= i) ~> (Len(log) >= i /\ Handled(i)) \/ errors > 0
=============================================================================
