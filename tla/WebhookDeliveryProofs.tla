------------------------ MODULE WebhookDeliveryProofs ------------------------
(***************************************************************************)
(* Theorems about WebhookDelivery, for every number of replicas and        *)
(* deliveries, every batch size and every attempt budget.                  *)
(***************************************************************************)
EXTENDS WebhookDelivery, FiniteSetTheorems, TLAPS

\* A replica that is about to record a success has got a 2xx.
SentIsReceived == \A w \in Workers : pc[w] = "ok" => cur[w] \in received

\* The replicas that may still record an outcome for a delivery.
Holders(d) == {w \in Workers : d \in batch[w] \/ cur[w] = d}

\* A replica has a delivery either in its batch or in its hand.
HeldOnce == \A w \in Workers : cur[w] \notin batch[w]

\* The budget of a delivery: the attempts made, and those that replicas which
\* share it may still make.
Budget ==
    \A d \in Deliveries : row[d] # None =>
        /\ row[d].status = "dead_letter" => row[d].attempts >= MaxAttempts
        /\ row[d].status = "pending" => row[d].attempts < MaxAttempts
        /\ row[d].attempts + Cardinality(Holders(d))
             <= MaxAttempts + Cardinality(Workers) - 1

------------------------------------------------------------------------------
(***************************************************************************)
(* Type correctness.                                                       *)
(***************************************************************************)

\* An UPDATE of a row that exists keeps the table a table and its rows in place.
LEMMA UpdateType ==
    ASSUME TypeOK, NEW d \in Deliveries, row[d] # None,
           NEW r \in Rows, row' = [row EXCEPT ![d] = r]
    PROVE  /\ row' \in [Deliveries -> Rows \cup {None}]
           /\ row'[d] = r
           /\ \A e \in Deliveries \ {d} : row'[e] = row[e]
           /\ \A e \in Deliveries : row'[e] # None <=> row[e] # None
BY DeliveryRowAssumption DEF TypeOK

\* Every UPDATE writes a row.
LEMMA UpdatedRow ==
    ASSUME NEW r \in Rows
    PROVE  LET due == [r EXCEPT !.due = TRUE]
               done == [r EXCEPT !.status = "delivered", !.attempts = @ + 1]
               failed == [status   |-> IF r.attempts + 1 >= MaxAttempts
                                       THEN "dead_letter" ELSE "pending",
                          attempts |-> r.attempts + 1,
                          due      |-> FALSE]
           IN  /\ due \in Rows
               /\ due.status = r.status /\ due.attempts = r.attempts
               /\ done \in Rows
               /\ failed \in Rows
<1> DEFINE n == r.attempts + 1
<1>1. r.attempts \in Nat /\ n \in Nat
  BY DEF Rows
<1>2. /\ [r EXCEPT !.due = TRUE] \in Rows
      /\ [r EXCEPT !.due = TRUE].status = r.status
      /\ [r EXCEPT !.due = TRUE].attempts = r.attempts
  BY DEF Rows
<1>3. [status   |-> IF n >= MaxAttempts THEN "dead_letter" ELSE "pending",
       attempts |-> n,
       due      |-> FALSE] \in Rows
  BY <1>1 DEF Rows
<1>4. [r EXCEPT !.status = "delivered", !.attempts = n] \in Rows
  <2> HIDE DEF n
  <2>1. QED
    BY <1>1 DEF Rows
<1>5. QED
  BY <1>2, <1>3, <1>4

\* What MarkDelivered and MarkFailed do to the row of the delivery in hand, and
\* to the replica.
LEMMA MarkEffect ==
    ASSUME TypeOK, NEW w \in Workers, MarkDelivered(w) \/ MarkFailed(w)
    PROVE  LET d == cur[w] IN
           /\ d \in Deliveries
           /\ row[d] \in Rows
           /\ row'[d] \in Rows
           /\ row' \in [Deliveries -> Rows \cup {None}]
           /\ \A e \in Deliveries \ {d} : row'[e] = row[e]
           /\ \A e \in Deliveries : row'[e] # None <=> row[e] # None
           /\ MarkDelivered(w) =>
                 \/ row' = row /\ row[d].status = "delivered"
                 \/ /\ row[d].status # "delivered"
                    /\ row'[d].status = "delivered"
                    /\ row'[d].attempts = row[d].attempts + 1
           /\ MarkFailed(w) =>
                 /\ row'[d].attempts = row[d].attempts + 1
                 /\ row'[d].status = IF row[d].attempts + 1 >= MaxAttempts
                                     THEN "dead_letter" ELSE "pending"
           /\ pc' = [pc EXCEPT ![w] = "poll"]
           /\ cur' = [cur EXCEPT ![w] = None]
           /\ UNCHANGED <<received, batch, faults>>
<1> DEFINE d == cur[w]
           done == [row[d] EXCEPT !.status = "delivered", !.attempts = @ + 1]
           failed == [status   |-> IF row[d].attempts + 1 >= MaxAttempts
                                   THEN "dead_letter" ELSE "pending",
                      attempts |-> row[d].attempts + 1,
                      due      |-> FALSE]
<1>1. d \in Deliveries /\ row[d] # None
  BY DeliveryAssumption DEF TypeOK, MarkDelivered, MarkFailed
<1>2. row[d] \in Rows /\ done \in Rows /\ failed \in Rows
  <2>1. row[d] \in Rows
    BY <1>1 DEF TypeOK
  <2>2. QED
    BY <2>1, UpdatedRow
<1>3. /\ pc' = [pc EXCEPT ![w] = "poll"]
      /\ cur' = [cur EXCEPT ![w] = None]
      /\ UNCHANGED <<received, batch, faults>>
  BY DEF MarkDelivered, MarkFailed, Done
<1>4. CASE MarkDelivered(w)
  <2>1. CASE row[d].status = "delivered"
    BY <1>1, <1>2, <1>3, <1>4, <2>1 DEF MarkDelivered, MarkFailed, TypeOK
  <2>2. CASE row[d].status # "delivered"
    <3>1. row' = [row EXCEPT ![d] = done]
      BY <1>4, <2>2 DEF MarkDelivered
    <3>2. done.status = "delivered" /\ done.attempts = row[d].attempts + 1
      BY <1>2 DEF Rows
    <3>3. ~MarkFailed(w)
      BY <1>4 DEF MarkDelivered, MarkFailed
    <3> HIDE DEF done, failed
    <3>4. QED
      BY <1>1, <1>2, <1>3, <2>2, <3>1, <3>2, <3>3, UpdateType
  <2>3. QED
    BY <2>1, <2>2
<1>5. CASE MarkFailed(w)
  <2>1. row' = [row EXCEPT ![d] = failed]
    BY <1>5 DEF MarkFailed
  <2>2. /\ failed.attempts = row[d].attempts + 1
        /\ failed.status = IF row[d].attempts + 1 >= MaxAttempts
                           THEN "dead_letter" ELSE "pending"
    OBVIOUS
  <2>3. ~MarkDelivered(w)
    BY <1>5 DEF MarkDelivered, MarkFailed
  <2> HIDE DEF done, failed
  <2>4. QED
    BY <1>1, <1>2, <1>3, <2>1, <2>2, <2>3, UpdateType
<1>6. QED
  BY <1>4, <1>5

\* The end of a backoff changes no more than the row's due.
LEMMA BackoffEffect ==
    ASSUME TypeOK, NEW d \in Deliveries, BackoffEnds(d)
    PROVE  /\ row' \in [Deliveries -> Rows \cup {None}]
           /\ row[d] # None
           /\ row'[d].status = row[d].status
           /\ row'[d].attempts = row[d].attempts
           /\ \A e \in Deliveries \ {d} : row'[e] = row[e]
           /\ \A e \in Deliveries : row'[e] # None <=> row[e] # None
           /\ UNCHANGED <<received, pc, batch, cur, faults>>
<1> DEFINE r == [row[d] EXCEPT !.due = TRUE]
<1>1. row[d] # None /\ row[d] \in Rows
  BY DEF BackoffEnds, TypeOK
<1>2. r \in Rows /\ r.status = row[d].status /\ r.attempts = row[d].attempts
  BY <1>1, UpdatedRow
<1>3. row' = [row EXCEPT ![d] = r] /\ UNCHANGED <<received, pc, batch, cur, faults>>
  BY DEF BackoffEnds
<1> HIDE DEF r
<1>4. QED
  BY <1>1, <1>2, <1>3, UpdateType

\* Every step keeps the types.
LEMMA TypeStep == TypeOK /\ [Next]_vars => TypeOK'
<1> SUFFICES ASSUME TypeOK, [Next]_vars
             PROVE  TypeOK'
  OBVIOUS
<1> USE DeliveryAssumption, DeliveryRowAssumption DEF TypeOK
<1>1. ASSUME NEW d \in Deliveries, Enqueue(d)
      PROVE  TypeOK'
  BY <1>1 DEF Enqueue, Rows
<1>2. ASSUME NEW d \in Deliveries, BackoffEnds(d)
      PROVE  TypeOK'
  BY <1>2, BackoffEffect
<1>3. ASSUME NEW w \in Workers, ClaimDue(w)
      PROVE  TypeOK'
  BY <1>3 DEF ClaimDue, Due
<1>4. ASSUME NEW w \in Workers, NEW d \in Deliveries, Send(w, d)
      PROVE  TypeOK'
  BY <1>4 DEF Send
<1>5. ASSUME NEW w \in Workers, MarkDelivered(w) \/ MarkFailed(w)
      PROVE  TypeOK'
  BY <1>5, MarkEffect
<1>6. ASSUME NEW w \in Workers, LoseOutcome(w)
      PROVE  TypeOK'
  BY <1>6 DEF LoseOutcome, Done
<1>7. ASSUME NEW w \in Workers, Crash(w)
      PROVE  TypeOK'
  BY <1>7 DEF Crash, Done
<1>8. CASE UNCHANGED vars
  BY <1>8 DEF vars
<1>9. QED
  BY <1>1, <1>2, <1>3, <1>4, <1>5, <1>6, <1>7, <1>8 DEF Next, Step

\* Type correctness of the delivery workers.
THEOREM TypeCorrect == Spec => []TypeOK
<1>1. Init => TypeOK
  BY DeliveryAssumption DEF Init, TypeOK
<1>2. QED
  BY <1>1, TypeStep, PTL DEF Spec

------------------------------------------------------------------------------
(***************************************************************************)
(* A delivery is marked delivered only when its endpoint has accepted it.  *)
(***************************************************************************)

\* Every step keeps the link between a recorded success and a 2xx.
LEMMA ReceivedStep ==
    TypeOK /\ SentIsReceived /\ DeliveredIsReceived /\ [Next]_vars
        => SentIsReceived' /\ DeliveredIsReceived'
<1> SUFFICES ASSUME TypeOK, SentIsReceived, DeliveredIsReceived, [Next]_vars
             PROVE  SentIsReceived' /\ DeliveredIsReceived'
  OBVIOUS
<1> USE DEF SentIsReceived, DeliveredIsReceived
<1>1. ASSUME NEW d \in Deliveries, Enqueue(d)
      PROVE  SentIsReceived' /\ DeliveredIsReceived'
  BY <1>1 DEF Enqueue, TypeOK
<1>2. ASSUME NEW d \in Deliveries, BackoffEnds(d)
      PROVE  SentIsReceived' /\ DeliveredIsReceived'
  BY <1>2, BackoffEffect
<1>3. ASSUME NEW w \in Workers, ClaimDue(w)
      PROVE  SentIsReceived' /\ DeliveredIsReceived'
  BY <1>3 DEF ClaimDue
<1>4. ASSUME NEW w \in Workers, NEW d \in Deliveries, Send(w, d)
      PROVE  SentIsReceived' /\ DeliveredIsReceived'
  BY <1>4 DEF Send, TypeOK
<1>5. ASSUME NEW w \in Workers, MarkDelivered(w) \/ MarkFailed(w)
      PROVE  SentIsReceived' /\ DeliveredIsReceived'
  <2>1. SentIsReceived'
    BY <1>5, MarkEffect DEF TypeOK
  <2>2. MarkDelivered(w) => cur[w] \in received
    BY DEF MarkDelivered
  <2>3. MarkFailed(w) => row'[cur[w]].status # "delivered"
    BY <1>5, MarkEffect
  <2>4. DeliveredIsReceived'
    BY <1>5, <2>2, <2>3, MarkEffect
  <2>5. QED
    BY <2>1, <2>4
<1>6. ASSUME NEW w \in Workers, LoseOutcome(w)
      PROVE  SentIsReceived' /\ DeliveredIsReceived'
  BY <1>6 DEF LoseOutcome, Done, TypeOK
<1>7. ASSUME NEW w \in Workers, Crash(w)
      PROVE  SentIsReceived' /\ DeliveredIsReceived'
  BY <1>7 DEF Crash, Done, TypeOK
<1>8. CASE UNCHANGED vars
  BY <1>8 DEF vars
<1>9. QED
  BY <1>1, <1>2, <1>3, <1>4, <1>5, <1>6, <1>7, <1>8 DEF Next, Step

\* A delivery says delivered only when its endpoint has answered with a 2xx,
\* whichever replicas sent it and whatever outcomes were lost.
THEOREM NeverFalselyDelivered == Spec => []DeliveredIsReceived
<1>1. Init => SentIsReceived /\ DeliveredIsReceived
  BY DEF Init, SentIsReceived, DeliveredIsReceived
<1>2. QED
  BY <1>1, ReceivedStep, TypeCorrect, PTL DEF Spec

------------------------------------------------------------------------------
(***************************************************************************)
(* The attempt budget.                                                     *)
(***************************************************************************)

\* A replica has no delivery both in its batch and in its hand, so that each
\* outcome it records is one fewer that it may still record.
LEMMA HeldOnceStep == TypeOK /\ HeldOnce /\ [Next]_vars => HeldOnce'
<1> SUFFICES ASSUME TypeOK, HeldOnce, [Next]_vars
             PROVE  HeldOnce'
  OBVIOUS
<1> USE DeliveryAssumption DEF HeldOnce, TypeOK
<1>1. ASSUME NEW d \in Deliveries, Enqueue(d) \/ BackoffEnds(d)
      PROVE  HeldOnce'
  BY <1>1 DEF Enqueue, BackoffEnds
<1>2. ASSUME NEW w \in Workers, ClaimDue(w)
      PROVE  HeldOnce'
  BY <1>2 DEF ClaimDue
<1>3. ASSUME NEW w \in Workers, NEW d \in Deliveries, Send(w, d)
      PROVE  HeldOnce'
  BY <1>3 DEF Send
<1>4. ASSUME NEW w \in Workers, MarkDelivered(w) \/ MarkFailed(w)
      PROVE  HeldOnce'
  BY <1>4, MarkEffect
<1>5. ASSUME NEW w \in Workers, LoseOutcome(w) \/ Crash(w)
      PROVE  HeldOnce'
  BY <1>5 DEF LoseOutcome, Crash, Done
<1>6. CASE UNCHANGED vars
  BY <1>6 DEF vars
<1>7. QED
  BY <1>1, <1>2, <1>3, <1>4, <1>5, <1>6 DEF Next, Step

\* The replicas that share a delivery are finitely many, and a smaller set of
\* them counts no more.
LEMMA HoldersCount ==
    ASSUME NEW S, S \subseteq Workers, NEW T, T \subseteq S
    PROVE  /\ IsFiniteSet(S)
           /\ Cardinality(S) \in Nat
           /\ Cardinality(T) \in Nat
           /\ Cardinality(T) <= Cardinality(S)
           /\ Cardinality(S) <= Cardinality(Workers)
           /\ Cardinality(Workers) \in Nat
<1>1. IsFiniteSet(S) /\ Cardinality(S) <= Cardinality(Workers)
  BY DeliveryAssumption, FS_Subset
<1>2. IsFiniteSet(T) /\ Cardinality(T) <= Cardinality(S)
  BY <1>1, FS_Subset
<1>3. QED
  BY <1>1, <1>2, DeliveryAssumption, FS_CardinalityType

\* What the budget says of one delivery.
LEMMA BudgetKept ==
    ASSUME TypeOK, Budget, NEW d \in Deliveries, row[d] # None,
           row'[d] # None,
           row'[d].status = row[d].status,
           row'[d].attempts = row[d].attempts,
           Holders(d)' \subseteq Holders(d)
    PROVE  /\ row'[d].status = "dead_letter" => row'[d].attempts >= MaxAttempts
           /\ row'[d].status = "pending" => row'[d].attempts < MaxAttempts
           /\ row'[d].attempts + Cardinality(Holders(d)')
                <= MaxAttempts + Cardinality(Workers) - 1
<1>1. Holders(d) \subseteq Workers
  BY DEF Holders
<1>2. /\ Cardinality(Holders(d)) \in Nat /\ Cardinality(Holders(d)') \in Nat
      /\ Cardinality(Holders(d)') <= Cardinality(Holders(d))
      /\ Cardinality(Workers) \in Nat
  BY <1>1, HoldersCount
<1>3. row[d].attempts \in Nat
  BY DEF TypeOK, Rows
<1>4. QED
  BY <1>2, <1>3, DeliveryAssumption DEF Budget

\* The first selection of a delivery, and every later one, is of a pending row:
\* there is an attempt left, even when every replica has a claim on it.
LEMMA BudgetAtClaim ==
    ASSUME TypeOK, Budget, NEW w \in Workers, ClaimDue(w),
           NEW d \in Deliveries, row[d] # None
    PROVE  row[d].attempts + Cardinality(Holders(d)')
             <= MaxAttempts + Cardinality(Workers) - 1
<1>1. row[d].attempts \in Nat
  BY DEF TypeOK, Rows
<1>2. /\ Cardinality(Holders(d)') \in Nat
      /\ Cardinality(Holders(d)') <= Cardinality(Workers)
      /\ Cardinality(Workers) \in Nat
  <2>1. Holders(d)' \subseteq Workers
    BY DEF Holders
  <2>2. QED
    BY <2>1, HoldersCount
<1>3. CASE Due(d)
  BY <1>1, <1>2, <1>3, DeliveryAssumption DEF Budget, Due
<1>4. CASE ~Due(d)
  <2>1. Holders(d)' \subseteq Holders(d) /\ Holders(d) \subseteq Workers
    BY <1>4 DEF ClaimDue, Holders, TypeOK
  <2>2. /\ Cardinality(Holders(d)) \in Nat
        /\ Cardinality(Holders(d)') <= Cardinality(Holders(d))
    BY <2>1, HoldersCount
  <2>3. QED
    BY <1>1, <1>2, <2>2, DeliveryAssumption DEF Budget
<1>5. QED
  BY <1>3, <1>4

\* A replica that records an outcome gives up its claim on the delivery.
LEMMA BudgetAtMark ==
    ASSUME TypeOK, HeldOnce, NEW w \in Workers, NEW d \in Deliveries,
           cur[w] = d, cur' = [cur EXCEPT ![w] = None], batch' = batch
    PROVE  /\ Cardinality(Holders(d)) \in Nat
           /\ Cardinality(Holders(d)') = Cardinality(Holders(d)) - 1
           /\ Cardinality(Workers) \in Nat
<1>1. w \in Holders(d) /\ Holders(d)' = Holders(d) \ {w}
  BY DeliveryAssumption DEF Holders, HeldOnce, TypeOK
<1>2. Holders(d) \subseteq Workers
  BY DEF Holders
<1>3. /\ IsFiniteSet(Holders(d)) /\ Cardinality(Holders(d)) \in Nat
      /\ Cardinality(Workers) \in Nat
  BY <1>2, HoldersCount
<1>4. QED
  BY <1>1, <1>3, FS_RemoveElement

\* Every step keeps the budget.
LEMMA BudgetStep ==
    TypeOK /\ TypeOK' /\ HeldOnce /\ Budget /\ [Next]_vars => Budget'
<1> SUFFICES ASSUME TypeOK, TypeOK', HeldOnce, Budget, [Next]_vars,
                    NEW d \in Deliveries, row'[d] # None
             PROVE  /\ row'[d].status = "dead_letter" => row'[d].attempts >= MaxAttempts
                    /\ row'[d].status = "pending" => row'[d].attempts < MaxAttempts
                    /\ row'[d].attempts + Cardinality(Holders(d)')
                         <= MaxAttempts + Cardinality(Workers) - 1
  BY DEF Budget, Holders
<1> DEFINE Good ==
             /\ row'[d].status = "dead_letter" => row'[d].attempts >= MaxAttempts
             /\ row'[d].status = "pending" => row'[d].attempts < MaxAttempts
             /\ row'[d].attempts + Cardinality(Holders(d)')
                  <= MaxAttempts + Cardinality(Workers) - 1
<1>1. ASSUME NEW e \in Deliveries, Enqueue(e)
      PROVE  Good
  <2>1. CASE row[d] = None
    <3>1. row'[d] = [status |-> "pending", attempts |-> 0, due |-> TRUE]
      BY <1>1, <2>1 DEF Enqueue, TypeOK
    <3>2. Holders(d)' = {}
      BY <1>1, <2>1, DeliveryAssumption DEF Enqueue, Holders, TypeOK
    <3>3. Cardinality(Workers) \in Nat /\ Cardinality({}) = 0
      BY DeliveryAssumption, FS_CardinalityType, FS_EmptySet
    <3>4. QED
      BY <3>1, <3>2, <3>3, DeliveryAssumption
  <2>2. CASE row[d] # None
    <3>1. row'[d] = row[d] /\ Holders(d)' = Holders(d)
      BY <1>1, <2>2 DEF Enqueue, Holders, TypeOK
    <3>2. QED
      BY <2>2, <3>1, BudgetKept
  <2>3. QED
    BY <2>1, <2>2
<1>2. ASSUME NEW e \in Deliveries, BackoffEnds(e)
      PROVE  Good
  <2>1. /\ row[d] # None
        /\ row'[d].status = row[d].status
        /\ row'[d].attempts = row[d].attempts
    BY <1>2, BackoffEffect
  <2>2. Holders(d)' = Holders(d)
    BY <1>2 DEF BackoffEnds, Holders
  <2>3. QED
    BY <2>1, <2>2, BudgetKept
<1>3. ASSUME NEW w \in Workers, ClaimDue(w)
      PROVE  Good
  <2>1. row' = row
    BY <1>3 DEF ClaimDue
  <2>2. QED
    BY <1>3, <2>1, BudgetAtClaim DEF Budget
<1>4. ASSUME NEW w \in Workers, NEW e \in Deliveries, Send(w, e)
      PROVE  Good
  <2>1. row' = row
    BY <1>4 DEF Send
  <2>2. Holders(d)' \subseteq Holders(d)
    BY <1>4, DeliveryAssumption DEF Send, Holders, TypeOK
  <2>3. QED
    BY <2>1, <2>2, BudgetKept
<1>5. ASSUME NEW w \in Workers, MarkDelivered(w) \/ MarkFailed(w)
      PROVE  Good
  <2>1. /\ pc' = [pc EXCEPT ![w] = "poll"]
        /\ cur' = [cur EXCEPT ![w] = None] /\ batch' = batch
        /\ row[d] # None
    BY <1>5, MarkEffect
  <2>2. CASE cur[w] # d \/ row' = row
    <3>1. row'[d] = row[d]
      BY <1>5, <2>2, MarkEffect
    <3>2. Holders(d)' \subseteq Holders(d)
      BY <2>1, DeliveryAssumption DEF Holders, TypeOK
    <3>3. QED
      BY <2>1, <3>1, <3>2, BudgetKept
  <2>3. CASE cur[w] = d /\ row' # row
    <3>1. /\ Cardinality(Holders(d)) \in Nat
          /\ Cardinality(Holders(d)') = Cardinality(Holders(d)) - 1
          /\ Cardinality(Workers) \in Nat
      BY <2>1, <2>3, BudgetAtMark
    <3>2. row[d].attempts \in Nat
      BY <2>1 DEF TypeOK, Rows
    <3>3. /\ row'[d].attempts = row[d].attempts + 1
          /\ \/ row'[d].status = "delivered"
             \/ row'[d].status = IF row[d].attempts + 1 >= MaxAttempts
                                 THEN "dead_letter" ELSE "pending"
      BY <1>5, <2>3, MarkEffect
    <3>4. row[d].attempts + Cardinality(Holders(d))
            <= MaxAttempts + Cardinality(Workers) - 1
      BY <2>1 DEF Budget
    <3>5. QED
      BY <3>1, <3>2, <3>3, <3>4, DeliveryAssumption
  <2>4. QED
    BY <2>2, <2>3
<1>6. ASSUME NEW w \in Workers, LoseOutcome(w) \/ Crash(w)
      PROVE  Good
  <2>1. row' = row
    BY <1>6 DEF LoseOutcome, Crash
  <2>2. Holders(d)' \subseteq Holders(d)
    BY <1>6, DeliveryAssumption DEF LoseOutcome, Crash, Done, Holders, TypeOK
  <2>3. QED
    BY <2>1, <2>2, BudgetKept
<1>7. CASE UNCHANGED vars
  <2>1. row' = row /\ Holders(d)' = Holders(d)
    BY <1>7 DEF vars, Holders
  <2>2. QED
    BY <2>1, BudgetKept
<1>8. QED
  BY <1>1, <1>2, <1>3, <1>4, <1>5, <1>6, <1>7 DEF Next, Step

\* A delivery is dead-lettered exactly when its attempts are used up, and the
\* replicas that share it make at most one attempt each beyond the budget.
THEOREM BudgetIsKept == Spec => []DeadLetteredAtBudget
<1>1. Init => HeldOnce /\ Budget
  BY DEF Init, HeldOnce, Budget
<1>2. TypeOK /\ Budget => DeadLetteredAtBudget
  <2> SUFFICES ASSUME TypeOK, Budget, NEW d \in Deliveries, row[d] # None
               PROVE  row[d].attempts <= MaxAttempts + Cardinality(Workers) - 1
    BY DEF DeadLetteredAtBudget, Budget
  <2>1. Holders(d) \subseteq Workers
    BY DEF Holders
  <2>2. Cardinality(Holders(d)) \in Nat /\ Cardinality(Workers) \in Nat
    BY <2>1, HoldersCount
  <2>3. row[d].attempts \in Nat
    BY DEF TypeOK, Rows
  <2>4. QED
    BY <2>2, <2>3, DeliveryAssumption DEF Budget
<1>3. QED
  BY <1>1, <1>2, TypeCorrect, HeldOnceStep, BudgetStep, PTL DEF Spec

------------------------------------------------------------------------------
(***************************************************************************)
(* One replica.  With two, MarkFailed of the one may overwrite the success *)
(* of the other; alone, a replica only holds deliveries that are pending.  *)
(***************************************************************************)
OneReplica == \A v, w \in Workers : v = w

HeldIsPending ==
    \A w \in Workers :
        /\ \A d \in batch[w] : row[d].status = "pending"
        /\ cur[w] # None => row[cur[w]].status = "pending"

\* Every step of a single replica keeps the deliveries it holds pending.
LEMMA HeldIsPendingStep ==
    ASSUME OneReplica, TypeOK, HeldOnce, HeldIsPending, [Next]_vars
    PROVE  HeldIsPending'
<1> USE DEF HeldIsPending
<1>1. ASSUME NEW d \in Deliveries, Enqueue(d)
      PROVE  HeldIsPending'
  BY <1>1 DEF Enqueue, TypeOK
<1>2. ASSUME NEW d \in Deliveries, BackoffEnds(d)
      PROVE  HeldIsPending'
  <2>1. \A e \in Deliveries : row'[e].status = row[e].status
    BY <1>2, BackoffEffect
  <2>2. batch' = batch /\ cur' = cur
    BY <1>2 DEF BackoffEnds
  <2>3. QED
    BY <2>1, <2>2 DEF TypeOK
<1>3. ASSUME NEW w \in Workers, ClaimDue(w)
      PROVE  HeldIsPending'
  BY <1>3 DEF ClaimDue, Due, TypeOK
<1>4. ASSUME NEW w \in Workers, NEW d \in Deliveries, Send(w, d)
      PROVE  HeldIsPending'
  BY <1>4 DEF Send, TypeOK
<1>5. ASSUME NEW w \in Workers, MarkDelivered(w) \/ MarkFailed(w)
      PROVE  HeldIsPending'
  <2>1. /\ \A e \in Deliveries \ {cur[w]} : row'[e] = row[e]
        /\ cur' = [cur EXCEPT ![w] = None]
        /\ batch' = batch
    BY <1>5, MarkEffect
  <2>2. \A v \in Workers : v = w /\ cur'[v] = None
    BY <2>1 DEF OneReplica, TypeOK
  <2>3. \A d \in batch[w] : d \in Deliveries \ {cur[w]}
    BY DEF HeldOnce, TypeOK
  <2>4. QED
    BY <2>1, <2>2, <2>3
<1>6. ASSUME NEW w \in Workers, LoseOutcome(w) \/ Crash(w)
      PROVE  HeldIsPending'
  BY <1>6 DEF LoseOutcome, Crash, Done, TypeOK
<1>7. CASE UNCHANGED vars
  BY <1>7 DEF vars
<1>8. QED
  BY <1>1, <1>2, <1>3, <1>4, <1>5, <1>6, <1>7 DEF Next, Step

\* What DeliveredIsFinal says of a step.
FinalStep ==
    \A d \in Deliveries :
        row[d] # None /\ row[d].status = "delivered" => row'[d].status = "delivered"

\* With a single replica no late failure reopens a delivery that was delivered.
THEOREM FinalWithOneReplica == OneReplica => (Spec => DeliveredIsFinal)
<1> SUFFICES ASSUME OneReplica
             PROVE  Spec => DeliveredIsFinal
  OBVIOUS
<1>1. Init => HeldOnce /\ HeldIsPending
  BY DEF Init, HeldOnce, HeldIsPending
<1>2. TypeOK /\ HeldIsPending /\ [Next]_vars => [FinalStep]_vars
  <2> SUFFICES ASSUME TypeOK, HeldIsPending, Next, NEW d \in Deliveries,
                      row[d] # None, row[d].status = "delivered"
               PROVE  row'[d].status = "delivered"
    BY DEF FinalStep
  <2>1. ASSUME NEW e \in Deliveries, Enqueue(e)
        PROVE  row'[d].status = "delivered"
    BY <2>1 DEF Enqueue, TypeOK
  <2>2. ASSUME NEW e \in Deliveries, BackoffEnds(e)
        PROVE  row'[d].status = "delivered"
    BY <2>2, BackoffEffect
  <2>3. ASSUME NEW w \in Workers, MarkDelivered(w) \/ MarkFailed(w)
        PROVE  row'[d].status = "delivered"
    <3>1. cur[w] \in Deliveries /\ \A e \in Deliveries \ {cur[w]} : row'[e] = row[e]
      BY <2>3, MarkEffect
    <3>2. cur[w] # d
      BY <3>1, DeliveryAssumption DEF HeldIsPending
    <3>3. QED
      BY <3>1, <3>2
  <2>4. ASSUME NEW w \in Workers,
               \/ ClaimDue(w) \/ \E e \in Deliveries : Send(w, e)
               \/ LoseOutcome(w) \/ Crash(w)
        PROVE  row'[d].status = "delivered"
    BY <2>4 DEF ClaimDue, Send, LoseOutcome, Crash
  <2>5. QED
    BY <2>1, <2>2, <2>3, <2>4 DEF Next, Step
<1>3. TypeOK /\ HeldOnce /\ HeldIsPending /\ [Next]_vars => HeldIsPending'
  BY HeldIsPendingStep
<1>4. Spec => [](TypeOK /\ HeldOnce /\ HeldIsPending)
  BY <1>1, <1>3, TypeCorrect, HeldOnceStep, PTL DEF Spec
<1>5. Spec => [][FinalStep]_vars
  BY <1>2, <1>4, PTL DEF Spec
<1>6. QED
  BY <1>5 DEF DeliveredIsFinal, FinalStep
==============================================================================
