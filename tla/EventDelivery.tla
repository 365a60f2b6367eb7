---------------------------- MODULE EventDelivery ----------------------------
(***************************************************************************)
(* What the event pipeline promises to whoever receives its webhooks,      *)
(* without outbox, Kafka, consumer group or delivery loop: an event the    *)
(* ledger has committed may be queued for an endpoint, once; the endpoint  *)
(* may then accept it any number of times; and the delivery is settled     *)
(* once and for all, as delivered only if the endpoint has accepted it.    *)
(***************************************************************************)
CONSTANTS EventIDs,   \* event ids
          Endpoints   \* WEBHOOK_ENDPOINTS

VARIABLES events,     \* the events the ledger has committed
          status,     \* by (event, endpoint), where the delivery stands
          received    \* the (event, endpoint) pairs answered with 2xx

vars == <<events, status, received>>

Deliveries == EventIDs \X Endpoints

Init ==
    /\ events = {}
    /\ status = [d \in Deliveries |-> "none"]
    /\ received = {}

Commit(e) ==
    /\ e \notin events
    /\ events' = events \cup {e}
    /\ UNCHANGED <<status, received>>

Queue(d) ==
    /\ d[1] \in events
    /\ status[d] = "none"
    /\ status' = [status EXCEPT ![d] = "pending"]
    /\ UNCHANGED <<events, received>>

Accept(d) ==
    /\ status[d] = "pending"
    /\ received' = received \cup {d}
    /\ UNCHANGED <<events, status>>

Settle(d) ==
    /\ status[d] = "pending"
    /\ \/ d \in received /\ status' = [status EXCEPT ![d] = "delivered"]
       \/ status' = [status EXCEPT ![d] = "dead_letter"]
    /\ UNCHANGED <<events, received>>

Next ==
    \/ \E e \in EventIDs : Commit(e)
    \/ \E d \in Deliveries : Queue(d) \/ Accept(d) \/ Settle(d)

Spec == Init /\ [][Next]_vars
==============================================================================
