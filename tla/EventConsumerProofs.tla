------------------------- MODULE EventConsumerProofs -------------------------
(***************************************************************************)
(* Theorems about EventConsumer, for every number of replicas, endpoints   *)
(* and messages, and any number of crashes, rebalances and errors.         *)
(***************************************************************************)
EXTENDS EventConsumer, FiniteSetTheorems, TLAPS

\* A replica has rows to insert only for a message that can be parsed, and has
\* inserted those for the endpoints it has done.
HandledSoFar ==
    \A c \in Replicas :
        /\ todo[c] # {} => inHand[c] # 0 /\ log[inHand[c]] # Poison
        /\ inHand[c] # 0 /\ log[inHand[c]] # Poison =>
              \A endpoint \in Endpoints \ todo[c] :
                  <<log[inHand[c]], endpoint>> \in queued

\* The messages that no replica will fetch again unless the partition changes
\* hands: below the committed offset, below a message that is being handled
\* and may be committed, or fetched by the owner and no longer in its hand.
Passed(i) ==
    \/ i <= committed
    \/ \E c \in Replicas : inHand[c] # 0 /\ i < inHand[c]
    \/ owner # None /\ i <= position[owner] /\ i # inHand[owner]

\* The messages that have been passed over without a delivery row.
Skipped == {i \in 1..Len(log) : Passed(i) /\ ~Handled(i)}

\* Each of them is the work of an error of the handler.
SkipsAreErrors == Cardinality(Skipped) <= errors

------------------------------------------------------------------------------
(***************************************************************************)
(* Type correctness.                                                       *)
(***************************************************************************)

\* A new message leaves the others where they are.
LEMMA AppendLog ==
    ASSUME TypeOK, NEW m \in EventIDs \cup {Poison}, log' = Append(log, m)
    PROVE  /\ log' \in Seq(EventIDs \cup {Poison})
           /\ Len(log) \in Nat
           /\ Len(log') = Len(log) + 1
           /\ \A i \in 1..Len(log) : log'[i] = log[i]
           /\ log'[Len(log) + 1] = m
BY DEF TypeOK

\* A new message, whoever appends it, keeps types and the work in hand.
LEMMA AppendType ==
    ASSUME TypeOK, HandledSoFar,
           NEW m \in EventIDs \cup {Poison}, log' = Append(log, m),
           UNCHANGED <<committed, owner, position, inHand, todo, queued, errors>>,
           faults' \in 0..MaxFaults
    PROVE  TypeOK' /\ HandledSoFar'
<1>1. /\ log' \in Seq(EventIDs \cup {Poison})
      /\ Len(log) \in Nat
      /\ Len(log') = Len(log) + 1
      /\ \A i \in 1..Len(log) : log'[i] = log[i]
  BY AppendLog
<1>2. 0..Len(log) \subseteq 0..Len(log')
  BY <1>1
<1>3. TypeOK'
  BY <1>1, <1>2 DEF TypeOK
<1>4. \A c \in Replicas : inHand[c] # 0 => log'[inHand[c]] = log[inHand[c]]
  BY <1>1 DEF TypeOK
<1>5. HandledSoFar'
  BY <1>4 DEF HandledSoFar
<1>6. QED
  BY <1>3, <1>5

\* Every step keeps types and the work in hand.
LEMMA TypeStep ==
    TypeOK /\ HandledSoFar /\ [Next]_vars => TypeOK' /\ HandledSoFar'
<1> SUFFICES ASSUME TypeOK, HandledSoFar, [Next]_vars
             PROVE  TypeOK' /\ HandledSoFar'
  OBVIOUS
<1>1. ASSUME NEW m \in EventIDs \cup {Poison}, Produce(m)
      PROVE  TypeOK' /\ HandledSoFar'
  <2>1. faults' \in 0..MaxFaults
    BY <1>1 DEF Produce, TypeOK
  <2>2. QED
    BY <1>1, <2>1, AppendType DEF Produce
<1>2. ASSUME Rebalance
      PROVE  TypeOK' /\ HandledSoFar'
  BY <1>2, ConsumerAssumption DEF Rebalance, TypeOK, HandledSoFar
<1>3. ASSUME NEW c \in Replicas, Assign(c)
      PROVE  TypeOK' /\ HandledSoFar'
  BY <1>3 DEF Assign, TypeOK, HandledSoFar
<1>4. ASSUME NEW c \in Replicas, Fetch(c)
      PROVE  TypeOK' /\ HandledSoFar'
  <2>1. TypeOK'
    BY <1>4 DEF Fetch, TypeOK
  <2>2. HandledSoFar'
    BY <1>4 DEF Fetch, TypeOK, HandledSoFar
  <2>3. QED
    BY <2>1, <2>2
<1>5. ASSUME NEW c \in Replicas, NEW p \in Endpoints, Enqueue(c, p)
      PROVE  TypeOK' /\ HandledSoFar'
  <2>1. log[inHand[c]] \in EventIDs /\ inHand[c] # 0
    BY <1>5 DEF Enqueue, TypeOK, HandledSoFar
  <2>2. TypeOK'
    BY <1>5, <2>1 DEF Enqueue, TypeOK
  <2>3. HandledSoFar'
    BY <1>5, <2>1 DEF Enqueue, TypeOK, HandledSoFar
  <2>4. QED
    BY <2>2, <2>3
<1>6. ASSUME NEW c \in Replicas, CommitMessages(c)
      PROVE  TypeOK' /\ HandledSoFar'
  BY <1>6 DEF CommitMessages, TypeOK, HandledSoFar
<1>7. ASSUME NEW c \in Replicas, HandlerError(c)
      PROVE  TypeOK' /\ HandledSoFar'
  BY <1>7, ConsumerAssumption DEF HandlerError, TypeOK, HandledSoFar
<1>8. ASSUME NEW c \in Replicas, Crash(c)
      PROVE  TypeOK' /\ HandledSoFar'
  BY <1>8, ConsumerAssumption DEF Crash, TypeOK, HandledSoFar
<1>9. CASE UNCHANGED vars
  BY <1>9 DEF vars, TypeOK, HandledSoFar
<1>10. QED
  BY <1>1, <1>2, <1>3, <1>4, <1>5, <1>6, <1>7, <1>8, <1>9 DEF Next, Step

\* Types and the work in hand hold in every state.
LEMMA HandledSoFarCorrect == Spec => [](TypeOK /\ HandledSoFar)
<1>1. Init => TypeOK /\ HandledSoFar
  BY ConsumerAssumption DEF Init, TypeOK, HandledSoFar
<1>2. QED
  BY <1>1, TypeStep, PTL DEF Spec

\* Type correctness of the consumer group.
THEOREM TypeCorrect == Spec => []TypeOK
BY HandledSoFarCorrect, PTL

------------------------------------------------------------------------------
(***************************************************************************)
(* No message is skipped but by an error of the handler.                   *)
(***************************************************************************)

\* A new message is one that nobody has passed.
LEMMA AppendSkips ==
    ASSUME TypeOK, NEW m \in EventIDs \cup {Poison}, log' = Append(log, m),
           UNCHANGED <<committed, owner, position, inHand, queued>>
    PROVE  Skipped' \subseteq Skipped
<1>1. /\ Len(log) \in Nat
      /\ Len(log') = Len(log) + 1
      /\ \A i \in 1..Len(log) : log'[i] = log[i]
  BY AppendLog
<1>2. \A i : Passed(i)' <=> Passed(i)
  BY DEF Passed
<1>3. ~Passed(Len(log) + 1)
  <2>1. /\ committed \in 0..Len(log)
        /\ \A c \in Replicas : inHand[c] \in 0..Len(log) /\ position[c] \in 0..Len(log)
        /\ owner # None => owner \in Replicas
    BY DEF TypeOK
  <2>2. QED
    BY <1>1, <2>1 DEF Passed
<1>4. \A i \in 1..Len(log) : Handled(i)' <=> Handled(i)
  BY <1>1 DEF Handled
<1>5. ASSUME NEW i \in Skipped'
      PROVE  i \in Skipped
  <2>1. i \in 1..(Len(log) + 1) /\ Passed(i) /\ ~Handled(i)'
    BY <1>1, <1>2, <1>5 DEF Skipped
  <2>2. i \in 1..Len(log)
    BY <1>1, <1>3, <2>1
  <2>3. QED
    BY <1>4, <2>1, <2>2 DEF Skipped
<1>6. QED
  BY <1>5

\* New delivery rows only make fewer messages unhandled.
LEMMA InsertSkips ==
    ASSUME queued \subseteq queued',
           UNCHANGED <<log, committed, owner, position, inHand>>
    PROVE  Skipped' \subseteq Skipped
<1>1. \A i : Passed(i)' <=> Passed(i)
  BY DEF Passed
<1>2. \A i : Handled(i) => Handled(i)'
  BY DEF Handled
<1>3. QED
  BY <1>1, <1>2 DEF Skipped

\* When a step passes only messages that were passed before, or are handled, it
\* skips none.
LEMMA PassesHandled ==
    ASSUME UNCHANGED <<log, queued>>,
           \A i \in 1..Len(log) : Passed(i)' => Passed(i) \/ Handled(i)
    PROVE  Skipped' \subseteq Skipped
BY DEF Skipped, Handled

\* A fetch passes only the messages that the owner had passed.
LEMMA FetchSkips ==
    ASSUME TypeOK, NEW c \in Replicas, Fetch(c)
    PROVE  Skipped' \subseteq Skipped
<1>1. /\ owner = c /\ owner # None /\ inHand[c] = 0 /\ position[c] \in Nat
      /\ UNCHANGED <<log, committed, owner, queued>>
      /\ position' = [position EXCEPT ![c] = position[c] + 1]
      /\ inHand' = [inHand EXCEPT ![c] = position[c] + 1]
  BY ConsumerAssumption DEF Fetch, TypeOK
<1>2. /\ position'[c] = position[c] + 1 /\ inHand'[c] = position[c] + 1
      /\ \A d \in Replicas \ {c} : inHand'[d] = inHand[d]
  BY <1>1 DEF TypeOK
<1>3. ASSUME NEW i \in 1..Len(log), Passed(i)'
      PROVE  Passed(i)
  <2>1. CASE i <= committed
    BY <2>1 DEF Passed
  <2>2. CASE i <= position[c]
    BY <1>1, <2>2 DEF Passed
  <2>3. CASE \E d \in Replicas \ {c} : inHand[d] # 0 /\ i < inHand[d]
    BY <2>3 DEF Passed
  <2>4. i \in Nat
    OBVIOUS
  <2>5. QED
    BY <1>1, <1>2, <1>3, <2>1, <2>2, <2>3, <2>4 DEF Passed
<1>4. QED
  BY <1>1, <1>3, PassesHandled

\* A commit passes the message in hand, which is handled, and those before it,
\* which were passed.
LEMMA CommitSkips ==
    ASSUME TypeOK, HandledSoFar, NEW c \in Replicas, CommitMessages(c)
    PROVE  Skipped' \subseteq Skipped
<1>1. /\ inHand[c] # 0 /\ todo[c] = {}
      /\ inHand' = [inHand EXCEPT ![c] = 0]
      /\ committed' \in {committed, inHand[c]}
      /\ UNCHANGED <<log, owner, position, queued>>
  BY DEF CommitMessages
<1>2. Handled(inHand[c])
  BY <1>1 DEF HandledSoFar, Handled
<1>3. /\ inHand'[c] = 0 /\ inHand[c] \in Nat
      /\ \A d \in Replicas \ {c} : inHand'[d] = inHand[d]
      /\ owner # None => owner \in Replicas
  BY <1>1 DEF TypeOK
<1>4. ASSUME NEW i \in 1..Len(log), Passed(i)', i # inHand[c]
      PROVE  Passed(i)
  <2>1. CASE i <= committed
    BY <2>1 DEF Passed
  <2>2. CASE i <= inHand[c]
    BY <1>1, <1>3, <1>4, <2>2 DEF Passed
  <2>3. CASE \E d \in Replicas : inHand'[d] # 0 /\ i < inHand'[d]
    BY <1>3, <2>3 DEF Passed
  <2>4. CASE owner # None /\ i <= position[owner] /\ i # inHand'[owner]
    BY <1>3, <1>4, <2>4 DEF Passed
  <2>5. QED
    BY <1>1, <1>4, <2>1, <2>2, <2>3, <2>4 DEF Passed
<1>5. \A i \in 1..Len(log) : Passed(i)' => Passed(i) \/ Handled(i)
  BY <1>2, <1>4
<1>6. QED
  BY <1>1, <1>5, PassesHandled

\* An error of the handler passes the message in hand.
LEMMA ErrorSkips ==
    ASSUME TypeOK, NEW c \in Replicas, HandlerError(c)
    PROVE  Skipped' \subseteq Skipped \cup {inHand[c]}
<1>1. /\ inHand' = [inHand EXCEPT ![c] = 0]
      /\ UNCHANGED <<log, committed, owner, position, queued>>
  BY DEF HandlerError
<1>2. /\ inHand'[c] = 0
      /\ \A d \in Replicas \ {c} : inHand'[d] = inHand[d]
      /\ owner # None => owner \in Replicas
  BY <1>1 DEF TypeOK
<1>3. ASSUME NEW i \in 1..Len(log), Passed(i)', i # inHand[c]
      PROVE  Passed(i)
  BY <1>1, <1>2, <1>3 DEF Passed
<1>4. \A i : Handled(i)' <=> Handled(i)
  BY <1>1 DEF Handled
<1>5. QED
  BY <1>1, <1>3, <1>4 DEF Skipped

\* A crash, a rebalance and an assignment only let messages be fetched again.
LEMMA HandoverSkips ==
    ASSUME TypeOK, NEW c \in Replicas, Crash(c) \/ Assign(c) \/ Rebalance
    PROVE  Skipped' \subseteq Skipped
<1>1. UNCHANGED <<log, committed, queued>>
  BY DEF Crash, Assign, Rebalance
<1>2. CASE Crash(c)
  <2>1. /\ \A d \in Replicas : inHand'[d] = IF d = c THEN 0 ELSE inHand[d]
        /\ owner' = IF owner = c THEN None ELSE owner
        /\ position' = position
        /\ owner # None => owner \in Replicas
    BY <1>2 DEF Crash, TypeOK
  <2>2. \A i \in 1..Len(log) : Passed(i)' => Passed(i)
    BY <1>1, <2>1 DEF Passed
  <2>3. QED
    BY <1>1, <2>2, PassesHandled
<1>3. CASE Assign(c)
  <2>1. owner' = c /\ position'[c] = committed /\ inHand' = inHand
    BY <1>3 DEF Assign, TypeOK
  <2>2. \A i \in 1..Len(log) : Passed(i)' => Passed(i)
    BY <1>1, <2>1 DEF Passed
  <2>3. QED
    BY <1>1, <2>2, PassesHandled
<1>4. CASE Rebalance
  <2>1. owner' = None /\ inHand' = inHand
    BY <1>4 DEF Rebalance
  <2>2. \A i \in 1..Len(log) : Passed(i)' => Passed(i)
    BY <1>1, <2>1 DEF Passed
  <2>3. QED
    BY <1>1, <2>2, PassesHandled
<1>5. QED
  BY <1>2, <1>3, <1>4

\* A step skips no message, or is an error of the handler and skips one.
LEMMA SkippedStep ==
    ASSUME TypeOK, HandledSoFar, [Next]_vars
    PROVE  \/ Skipped' \subseteq Skipped /\ errors' = errors
           \/ /\ \E c \in Replicas : Skipped' \subseteq Skipped \cup {inHand[c]}
              /\ errors' = errors + 1
<1> DEFINE Nothing == Skipped' \subseteq Skipped /\ errors' = errors
           One == /\ \E c \in Replicas : Skipped' \subseteq Skipped \cup {inHand[c]}
                  /\ errors' = errors + 1
<1>1. ASSUME NEW m \in EventIDs \cup {Poison}, Produce(m)
      PROVE  Nothing
  BY <1>1, AppendSkips DEF Produce
<1>2. ASSUME NEW c \in Replicas, Crash(c) \/ Assign(c)
      PROVE  Nothing
  <2>1. errors' = errors
    BY <1>2 DEF Crash, Assign
  <2>2. QED
    BY <1>2, <2>1, HandoverSkips
<1>3. ASSUME Rebalance
      PROVE  Nothing
  <2>1. owner \in Replicas /\ errors' = errors
    BY <1>3 DEF Rebalance, TypeOK
  <2>2. QED
    BY <1>3, <2>1, HandoverSkips
<1>4. ASSUME NEW c \in Replicas, Fetch(c)
      PROVE  Nothing
  <2>1. errors' = errors
    BY <1>4 DEF Fetch
  <2>2. QED
    BY <1>4, <2>1, FetchSkips
<1>5. ASSUME NEW c \in Replicas, NEW p \in Endpoints, Enqueue(c, p)
      PROVE  Nothing
  BY <1>5, InsertSkips DEF Enqueue
<1>6. ASSUME NEW c \in Replicas, CommitMessages(c)
      PROVE  Nothing
  <2>1. errors' = errors
    BY <1>6 DEF CommitMessages
  <2>2. QED
    BY <1>6, <2>1, CommitSkips
<1>7. ASSUME NEW c \in Replicas, HandlerError(c)
      PROVE  One
  <2>1. errors' = errors + 1
    BY <1>7 DEF HandlerError
  <2>2. QED
    BY <1>7, <2>1, ErrorSkips
<1>8. CASE UNCHANGED vars
  BY <1>8, InsertSkips DEF vars
<1>9. QED
  BY <1>1, <1>2, <1>3, <1>4, <1>5, <1>6, <1>7, <1>8 DEF Next, Step

\* The skipped messages are finitely many.
LEMMA SkippedFinite ==
    ASSUME TypeOK
    PROVE  IsFiniteSet(Skipped) /\ Cardinality(Skipped) \in Nat
<1>1. IsFiniteSet(1..Len(log))
  BY FS_Interval DEF TypeOK
<1>2. Skipped \subseteq 1..Len(log)
  BY DEF Skipped
<1>3. IsFiniteSet(Skipped)
  BY <1>1, <1>2, FS_Subset
<1>4. QED
  BY <1>3, FS_CardinalityType

\* Every step keeps the count.
LEMMA SkipsStep ==
    TypeOK /\ HandledSoFar /\ SkipsAreErrors /\ [Next]_vars => SkipsAreErrors'
<1> SUFFICES ASSUME TypeOK, HandledSoFar, SkipsAreErrors, [Next]_vars
             PROVE  SkipsAreErrors'
  OBVIOUS
<1>1. /\ IsFiniteSet(Skipped) /\ Cardinality(Skipped) \in Nat
      /\ errors \in Nat /\ Cardinality(Skipped) <= errors
  BY SkippedFinite DEF TypeOK, SkipsAreErrors
<1>2. CASE Skipped' \subseteq Skipped /\ errors' = errors
  <2>1. IsFiniteSet(Skipped') /\ Cardinality(Skipped') <= Cardinality(Skipped)
    BY <1>1, <1>2, FS_Subset
  <2>2. Cardinality(Skipped') \in Nat
    BY <2>1, FS_CardinalityType
  <2>3. QED
    BY <1>1, <1>2, <2>1, <2>2 DEF SkipsAreErrors
<1>3. ASSUME NEW c \in Replicas, Skipped' \subseteq Skipped \cup {inHand[c]},
             errors' = errors + 1
      PROVE  SkipsAreErrors'
  <2> DEFINE T == Skipped \cup {inHand[c]}
  <2>1. /\ IsFiniteSet(T)
        /\ Cardinality(T) = Cardinality(Skipped)
             \/ Cardinality(T) = Cardinality(Skipped) + 1
    BY <1>1, FS_AddElement
  <2>2. IsFiniteSet(Skipped') /\ Cardinality(Skipped') <= Cardinality(T)
    BY <1>3, <2>1, FS_Subset
  <2>3. Cardinality(Skipped') \in Nat
    BY <2>2, FS_CardinalityType
  <2>4. QED
    BY <1>1, <1>3, <2>1, <2>2, <2>3 DEF SkipsAreErrors
<1>4. QED
  BY <1>2, <1>3, SkippedStep

\* Crashes, rebalances and failed or late commits never skip a message: at most
\* as many messages below the committed offset lack a delivery row as the
\* handler has failed.
THEOREM NothingIsSkipped == Spec => []SkippedOnlyByErrors
<1>1. Init => SkipsAreErrors
  <2> SUFFICES ASSUME Init
               PROVE  SkipsAreErrors
    OBVIOUS
  <2>1. Skipped = {} /\ errors = 0
    BY DEF Init, Skipped
  <2>2. QED
    BY <2>1, FS_EmptySet DEF SkipsAreErrors
<1>2. TypeOK /\ SkipsAreErrors => SkippedOnlyByErrors
  <2> SUFFICES ASSUME TypeOK, SkipsAreErrors
               PROVE  SkippedOnlyByErrors
    OBVIOUS
  <2> DEFINE S == {i \in 1..committed : ~Handled(i)}
  <2>1. S \subseteq Skipped
    BY DEF Skipped, Passed, TypeOK
  <2>2. IsFiniteSet(Skipped) /\ Cardinality(Skipped) \in Nat
    BY SkippedFinite
  <2>3. IsFiniteSet(S) /\ Cardinality(S) <= Cardinality(Skipped)
    BY <2>1, <2>2, FS_Subset
  <2>4. Cardinality(S) \in Nat /\ errors \in Nat
    BY <2>3, FS_CardinalityType DEF TypeOK
  <2>5. QED
    BY <2>2, <2>3, <2>4 DEF SkipsAreErrors, SkippedOnlyByErrors
<1>3. QED
  BY <1>1, <1>2, SkipsStep, HandledSoFarCorrect, PTL DEF Spec

NothingSkippedYet == errors = 0 => Skipped = {}

CommittedUnlessErrors == errors = 0 => CommittedIsHandled

\* Offsets are committed only after the work as long as the handler does not
\* fail: crashes, rebalances and late commits alone never lose a message.
THEOREM OnlyErrorsLoseMessages == Spec => []CommittedUnlessErrors
<1>1. Init => NothingSkippedYet
  BY DEF Init, Skipped, NothingSkippedYet
<1>2. TypeOK /\ HandledSoFar /\ NothingSkippedYet /\ [Next]_vars => NothingSkippedYet'
  BY SkippedStep DEF TypeOK, NothingSkippedYet
<1>3. TypeOK /\ NothingSkippedYet => CommittedUnlessErrors
  BY DEF TypeOK, CommittedUnlessErrors, CommittedIsHandled, NothingSkippedYet,
         Skipped, Passed
<1>4. QED
  BY <1>1, <1>2, <1>3, HandledSoFarCorrect, PTL DEF Spec
==============================================================================
