-------------------------- MODULE SystemBusProofs --------------------------
(***************************************************************************)
(* Proof that a reader is never left on an unregistered fabric of the bus, *)
(* but for the two races, whatever the topics, the connections, the        *)
(* publishers and the size of the buffer.                                  *)
(***************************************************************************)
EXTENDS SystemBus, FiniteSetTheorems, TLAPS

PCs == {"closed", "contains", "insert", "reader", "replaced", "poll", "empty",
        "asleep", "drop", "dealloc"}

ConnState == [pc: PCs, topic: Topics \cup {None}, todo: SUBSET (Topics \cup Fabrics),
              woken: BOOLEAN, late: BOOLEAN]

\* The mesh registers a topic with a fabric of its own, and a connection reads
\* a topic from a fabric of the topic.
MeshType ==
    /\ topic_mesh \in [Topics -> Fabrics \cup {None}]
    /\ \A t \in Topics : topic_mesh[t] \in FabricsOf(t) \cup {None}

ReaderType ==
    /\ reader \in [Connections -> [Topics -> TopicReader \cup {None}]]
    /\ \A x \in Connections : \A t \in Subscribed(x) : reader[x][t].fabric \in FabricsOf(t)

\* What a connection keeps across the steps of an operation.
ConnOK(x) ==
    /\ conn[x].pc \in {"poll", "empty", "drop", "dealloc"}
         => conn[x].todo \subseteq Subscribed(x)
    /\ conn[x].pc \in {"contains", "insert", "reader", "replaced"} => conn[x].topic \in Topics
    /\ conn[x].pc = "dealloc" => conn[x].topic \in Subscribed(x)
    /\ conn[x].pc = "replaced" => \E f \in FabricsOf(conn[x].topic) : conn[x].todo = {f}

ConnType ==
    /\ conn \in [Connections -> ConnState]
    /\ \A x \in Connections : ConnOK(x)

\* The fabric whose reference count includes x's reader of t: a reader that
\* waits to clean up has given its reference back.
Held(x, t) ==
    IF reader[x][t] = None \/ (conn[x].pc = "dealloc" /\ conn[x].topic = t)
    THEN None ELSE reader[x][t].fabric

Holders(f) == {x \in Connections : Held(x, f[1]) = f}

\* The reference counts count the readers ...
Counted == num_readers = [f \in Fabrics |-> Cardinality(Holders(f))]

\* ... and outside the races they are all on the registered fabric.
Registered ==
    \A x \in Connections : \A t \in Topics \ raced : Held(x, t) \in {None, topic_mesh[t]}

IInv == MeshType /\ ReaderType /\ ConnType /\ Counted /\ Registered
-----------------------------------------------------------------------------
(* Fabrics and the fabrics held                                             *)

\* A fabric carries the topic it was made for.
LEMMA FabricTopic ==
    /\ \A t \in Topics : \A f \in FabricsOf(t) : f \in Fabrics /\ f[1] = t
    /\ \A f \in Fabrics : f[1] \in Topics /\ f \in FabricsOf(f[1])
  BY DEF Fabrics, FabricsOf

\* A set indexed by a finite set is no larger than it.
LEMMA ImageBound ==
    ASSUME NEW S, IsFiniteSet(S), NEW g, NEW T, T = {g[x] : x \in S}
    PROVE  IsFiniteSet(T) /\ Cardinality(T) <= Cardinality(S)
  <1> DEFINE h == [x \in S |-> g[x]]
  <1>1. h \in Surjection(S, T)
    BY DEF Surjection
  <1> QED
    BY <1>1, FS_Surjection

\* A connection that subscribes finds an unused name for the topic's fabric.
LEMMA NameLeft ==
    ASSUME IInv, NEW t \in Topics
    PROVE  Unused(t) # {}
  <1> DEFINE n == Cardinality(Connections)
             R == {reader[x][t].fabric : x \in {y \in Connections : reader[y][t] # None}}
             W == {y \in Connections : conn[y].pc = "replaced"}
             Q == {CHOOSE f \in conn[x].todo : TRUE : x \in W}
             M == {topic_mesh[t]}
  <1>0. n \in Nat
    BY BusAssumption, FS_CardinalityType
  <1>1. IsFiniteSet(R) /\ Cardinality(R) <= n
    <2> DEFINE S == {y \in Connections : reader[y][t] # None}
               g == [x \in S |-> reader[x][t].fabric]
    <2>1. IsFiniteSet(S) /\ Cardinality(S) <= n
      BY BusAssumption, FS_Subset
    <2>2. R = {g[x] : x \in S}
      BY Zenon
    <2>3. IsFiniteSet(R) /\ Cardinality(R) <= Cardinality(S)
      <3> HIDE DEF R, g, S
      <3> QED BY <2>1, <2>2, ImageBound
    <2>4. Cardinality(S) \in Nat /\ Cardinality(R) \in Nat
      BY <2>1, <2>3, FS_CardinalityType
    <2> QED
      <3> HIDE DEF R, g, S, n
      <3> QED BY <1>0, <2>1, <2>3, <2>4
  <1>2. IsFiniteSet(Q) /\ Cardinality(Q) <= n
    <2> DEFINE g == [x \in W |-> CHOOSE f \in conn[x].todo : TRUE]
    <2>1. IsFiniteSet(W) /\ Cardinality(W) <= n
      BY BusAssumption, FS_Subset
    <2>2. Q = {g[x] : x \in W}
      BY Zenon
    <2>3. IsFiniteSet(Q) /\ Cardinality(Q) <= Cardinality(W)
      <3> HIDE DEF Q, g, W
      <3> QED BY <2>1, <2>2, ImageBound
    <2>4. Cardinality(W) \in Nat /\ Cardinality(Q) \in Nat
      BY <2>1, <2>3, FS_CardinalityType
    <2> QED
      <3> HIDE DEF Q, g, W, n
      <3> QED BY <1>0, <2>1, <2>3, <2>4
  <1>3. IsFiniteSet(M) /\ Cardinality(M) = 1
    BY FS_Singleton, Zenon
  <1>4. Replaced \subseteq Q
    <2> SUFFICES ASSUME NEW x \in Connections, conn[x].pc = "replaced", NEW f \in conn[x].todo
                 PROVE  f \in Q
      BY DEF Replaced
    <2>1. conn[x].todo = {f}
      BY DEF IInv, ConnType, ConnOK
    <2> QED
      BY <2>1
  <1>5. FabricsOf(t) \ Unused(t) \subseteq R \cup Q \cup M
    <2> SUFFICES ASSUME NEW f \in FabricsOf(t), f \notin Unused(t), f \notin Q, f \notin M
                 PROVE  f \in R
      OBVIOUS
    <2>1. ReadersOf(f) # {}
      BY <1>4 DEF Unused
    <2>2. PICK x \in Connections, u \in Topics : reader[x][u] # None /\ reader[x][u].fabric = f
      BY <2>1 DEF ReadersOf
    <2>3. f \in FabricsOf(u)
      BY <2>2 DEF IInv, ReaderType, Subscribed
    <2>4. u = t
      BY <2>3, FabricTopic
    <2> QED
      BY <2>2, <2>4
  <1>6. IsFiniteSet(R \cup Q \cup M) /\ Cardinality(R \cup Q \cup M) <= 2 * n + 1
    <2> HIDE DEF R, Q, M, n
    <2>1. /\ IsFiniteSet(R \cup Q)
          /\ Cardinality(R \cup Q) = Cardinality(R) + Cardinality(Q) - Cardinality(R \cap Q)
      BY <1>1, <1>2, FS_Union
    <2>2. /\ IsFiniteSet((R \cup Q) \cup M)
          /\ Cardinality((R \cup Q) \cup M) =
               Cardinality(R \cup Q) + Cardinality(M) - Cardinality((R \cup Q) \cap M)
      BY <2>1, <1>3, FS_Union
    <2>3. IsFiniteSet(R \cap Q) /\ IsFiniteSet((R \cup Q) \cap M)
      BY <2>1, FS_Intersection
    <2>4. /\ Cardinality(R) \in Nat /\ Cardinality(Q) \in Nat /\ Cardinality(R \cup Q) \in Nat
          /\ Cardinality(R \cap Q) \in Nat /\ Cardinality((R \cup Q) \cap M) \in Nat
      BY <1>1, <1>2, <2>1, <2>3, FS_CardinalityType
    <2> QED
      BY <1>0, <1>1, <1>2, <1>3, <2>1, <2>2, <2>4
  <1>7. IsFiniteSet(FabricsOf(t)) /\ Cardinality(FabricsOf(t)) = 2 * n + 2
    <2> HIDE DEF n
    <2>1. IsFiniteSet(1..(2 * n + 2)) /\ Cardinality(1..(2 * n + 2)) = 2 * n + 2
      BY <1>0, FS_Interval
    <2>2. IsFiniteSet({t}) /\ Cardinality({t}) = 1
      BY FS_Singleton, Zenon
    <2>3. /\ IsFiniteSet({t} \X (1..(2 * n + 2)))
          /\ Cardinality({t} \X (1..(2 * n + 2))) =
               Cardinality({t}) * Cardinality(1..(2 * n + 2))
      BY <2>1, <2>2, FS_Product, Zenon
    <2> QED
      BY <1>0, <2>1, <2>2, <2>3 DEF FabricsOf, n
  <1>8. ASSUME Unused(t) = {} PROVE FALSE
    <2>1. FabricsOf(t) \in SUBSET (R \cup Q \cup M)
      BY <1>5, <1>8
    <2> HIDE DEF R, Q, M, n
    <2>2. Cardinality(FabricsOf(t)) <= Cardinality(R \cup Q \cup M)
      BY <2>1, <1>6, FS_Subset
    <2>3. Cardinality(R \cup Q \cup M) \in Nat
      BY <1>6, FS_CardinalityType
    <2> QED
      BY <1>0, <1>6, <1>7, <2>2, <2>3
  <1> QED
    BY <1>8

\* A step that moves no reader keeps the counts right ...
LEMMA SameCounts ==
    ASSUME Counted, UNCHANGED num_readers,
           \A x \in Connections : \A t \in Topics : Held(x, t)' = Held(x, t)
    PROVE  Counted'
  <1>1. ASSUME NEW f \in Fabrics PROVE Holders(f)' = Holders(f)
    BY FabricTopic DEF Holders
  <1> QED
    BY <1>1 DEF Counted

\* ... and, if it leaves the mesh alone, the readers registered.
LEMMA NothingMoves ==
    ASSUME Counted, Registered,
           UNCHANGED <<topic_mesh, num_readers, raced>>,
           \A x \in Connections : \A t \in Topics : Held(x, t)' = Held(x, t)
    PROVE  Counted' /\ Registered'
  <1>1. Counted'
    BY SameCounts
  <1>2. Registered'
    BY DEF Registered
  <1> QED
    BY <1>1, <1>2

\* The fabric a connection holds, by the state of its reader.
LEMMA HeldFabric ==
    ASSUME ReaderType, NEW x \in Connections, NEW t \in Topics
    PROVE  /\ Held(x, t) \in FabricsOf(t) \cup {None}
           /\ Held(x, t) # None => t \in Subscribed(x) /\ Held(x, t) = reader[x][t].fabric
           /\ t \in Subscribed(x) => reader[x][t] \in TopicReader
                /\ reader[x][t].fabric \in Fabrics
           /\ t \in Subscribed(x) => \/ Held(x, t) = reader[x][t].fabric
                                     \/ conn[x].pc = "dealloc" /\ conn[x].topic = t
  BY DEF ReaderType, Subscribed, Held, TopicReader

\* One connection's reference moves from the fabric it held, if any, to another.
LEMMA ReferenceMoves ==
    ASSUME Counted, NEW x \in Connections, NEW t \in Topics,
           Held(x, t) \in FabricsOf(t) \cup {None},
           Held(x, t)' \in FabricsOf(t) \cup {None},
           \A y \in Connections : \A u \in Topics :
               <<y, u>> # <<x, t>> => Held(y, u)' = Held(y, u),
           num_readers' = [g \in Fabrics |->
               num_readers[g] + (IF g = Held(x, t)' THEN 1 ELSE 0)
                              - (IF g = Held(x, t) THEN 1 ELSE 0)]
    PROVE  Counted'
  <1> SUFFICES ASSUME NEW g \in Fabrics
               PROVE  Cardinality(Holders(g))' = num_readers[g]
                        + (IF g = Held(x, t)' THEN 1 ELSE 0) - (IF g = Held(x, t) THEN 1 ELSE 0)
    BY DEF Counted
  <1>1. IsFiniteSet(Holders(g)) /\ num_readers[g] = Cardinality(Holders(g))
    BY BusAssumption, FS_Subset DEF Holders, Counted
  <1>2. Cardinality(Holders(g)) \in Nat
    BY <1>1, FS_CardinalityType
  <1>3. g[1] \in Topics /\ (g[1] # t => g # Held(x, t)' /\ g # Held(x, t))
    BY FabricTopic, NoneAssumption
  <1>4. \A y \in Connections \ {x} : y \in Holders(g)' <=> y \in Holders(g)
    BY <1>3 DEF Holders
  <1>5. g = Held(x, t) <=> x \in Holders(g) /\ g[1] = t
    BY <1>3 DEF Holders
  <1>6. g = Held(x, t)' <=> x \in Holders(g)' /\ g[1] = t
    BY <1>3 DEF Holders
  <1>7. g[1] # t => Holders(g)' = Holders(g)
    BY <1>3 DEF Holders
  <1>8. CASE (x \in Holders(g)') = (x \in Holders(g))
    <2>1. Holders(g)' = Holders(g)
      BY <1>4, <1>8 DEF Holders
    <2> QED
      BY <2>1, <1>1, <1>2, <1>5, <1>6
  <1>9. CASE x \in Holders(g)' /\ x \notin Holders(g)
    <2>1. Holders(g)' = Holders(g) \cup {x}
      BY <1>4, <1>9 DEF Holders
    <2>2. Cardinality(Holders(g) \cup {x}) = Cardinality(Holders(g)) + 1
      BY <1>1, <1>9, FS_AddElement, Zenon
    <2> QED
      BY <2>1, <2>2, <1>1, <1>5, <1>6, <1>7, <1>9
  <1>10. CASE x \notin Holders(g)' /\ x \in Holders(g)
    <2>1. Holders(g)' = Holders(g) \ {x}
      BY <1>4, <1>10 DEF Holders
    <2>2. Cardinality(Holders(g) \ {x}) = Cardinality(Holders(g)) - 1
      BY <1>1, <1>10, FS_RemoveElement, Zenon
    <2> QED
      BY <2>1, <2>2, <1>1, <1>2, <1>5, <1>6, <1>7, <1>10
  <1> QED
    BY <1>8, <1>9, <1>10

\* A fabric whose count is zero is held by nobody.
LEMMA ZeroMeansFree ==
    ASSUME Counted, NEW f \in Fabrics, ~(num_readers[f] > 0), NEW x \in Connections
    PROVE  Held(x, f[1]) # f
  <1>1. IsFiniteSet(Holders(f)) /\ num_readers[f] = Cardinality(Holders(f))
    BY BusAssumption, FS_Subset DEF Holders, Counted
  <1>2. Cardinality(Holders(f)) \in Nat
    BY <1>1, FS_CardinalityType
  <1>3. Holders(f) = {}
    BY <1>1, <1>2, FS_EmptySet
  <1> QED
    BY <1>3 DEF Holders

\* The counts are natural numbers.
LEMMA CountType ==
    ASSUME Counted
    PROVE  num_readers \in [Fabrics -> Nat]
  <1>1. ASSUME NEW f \in Fabrics PROVE Cardinality(Holders(f)) \in Nat
    <2>1. IsFiniteSet(Holders(f))
      BY BusAssumption, FS_Subset DEF Holders
    <2> QED
      BY <2>1, FS_CardinalityType
  <1> QED
    BY <1>1 DEF Counted

-----------------------------------------------------------------------------
(* The steps of a connection                                                *)

\* A step of x that is not the start or the end of a clean-up, and that
\* changes nobody's readers, is a matter of x's new state.
LEMMA ConnStep ==
    ASSUME IInv, NEW x \in Connections, NEW c \in ConnState,
           conn' = [conn EXCEPT ![x] = c],
           UNCHANGED <<topic_mesh, num_readers, reader, raced>>,
           conn[x].pc # "dealloc", c.pc # "dealloc",
           c.pc \in {"poll", "empty", "drop"} => c.todo \subseteq Subscribed(x),
           c.pc \in {"contains", "insert", "reader"} => c.topic \in Topics,
           c.pc # "replaced"
    PROVE  IInv'
  <1> USE DEF IInv
  <1>1. MeshType' /\ ReaderType'
    BY DEF MeshType, ReaderType, Subscribed
  <1>2. conn' \in [Connections -> ConnState] /\ conn'[x] = c
    BY DEF ConnType
  <1>3. ASSUME NEW y \in Connections PROVE ConnOK(y)'
    <2>1. Subscribed(y)' = Subscribed(y)
      BY DEF Subscribed
    <2>2. CASE y = x
      BY <1>2, <2>1, <2>2 DEF ConnOK
    <2>3. CASE y # x
      <3>1. conn'[y] = conn[y]
        BY <2>3
      <3> QED
        BY <2>1 DEF ConnOK, ConnType
    <2> QED
      BY <2>2, <2>3
  <1>4. ConnType'
    BY <1>3 DEF ConnType
  <1>5. ASSUME NEW y \in Connections, NEW t \in Topics PROVE Held(y, t)' = Held(y, t)
    BY DEF Held
  <1>6. Counted' /\ Registered'
    BY <1>5, NothingMoves
  <1> QED
    BY <1>1, <1>4, <1>6

\* The states a connection is put in are well-formed.
LEMMA StatesAreTyped ==
    /\ \A S \in SUBSET Topics : PollAll(S) \in ConnState
    /\ \A t \in Topics : At("contains", t, {}, FALSE) \in ConnState
    /\ \A S \in SUBSET Topics : At("drop", None, S, FALSE) \in ConnState
    /\ \A t \in Topics : \A f \in Fabrics : At("replaced", t, {f}, FALSE) \in ConnState
    /\ \A left \in SUBSET Topics : \A remaining \in SUBSET Topics :
         Dropping(left, remaining) \in ConnState
  BY DEF PollAll, Dropping, At, ConnState, PCs

\* Receiving takes one message from a reader's buffer.
LEMMA StepReceive ==
    ASSUME IInv, NEW x \in Connections, Receive(x)
    PROVE  IInv'
  <1> USE DEF IInv
  <1>1. PICK t \in conn[x].todo :
          reader[x][t].unread > 0 /\ reader' = [reader EXCEPT ![x][t].unread = @ - 1]
    BY Zenon DEF Receive
  <1>2. t \in Topics /\ t \in Subscribed(x)
    BY DEF Receive, ConnType, ConnOK, Subscribed
  <1>3. reader[x][t] \in TopicReader /\ reader[x][t].unread \in Nat
    BY <1>2, HeldFabric DEF TopicReader
  <1>4. /\ reader' \in [Connections -> [Topics -> TopicReader \cup {None}]]
        /\ reader'[x][t] \in TopicReader /\ reader'[x][t].fabric = reader[x][t].fabric
        /\ \A y \in Connections : \A u \in Topics :
             <<y, u>> # <<x, t>> => reader'[y][u] = reader[y][u]
    BY <1>1, <1>2, <1>3 DEF ReaderType, TopicReader
  <1>5. \A y \in Connections : Subscribed(y)' = Subscribed(y)
    BY <1>2, <1>4, NoneAssumption DEF Subscribed
  <1>6. ReaderType'
    <2>1. ASSUME NEW y \in Connections, NEW u \in Subscribed(y)'
          PROVE  reader'[y][u].fabric \in FabricsOf(u)
      <3>1. u \in Subscribed(y) /\ u \in Topics
        BY <1>5 DEF Subscribed
      <3>2. reader[y][u].fabric \in FabricsOf(u)
        BY <3>1 DEF ReaderType
      <3> QED
        BY <1>4, <3>1, <3>2
    <2> QED
      BY <1>4, <2>1 DEF ReaderType
  <1>7. conn' = [conn EXCEPT ![x] = Polling(x)] /\ Polling(x) \in ConnState
    BY StatesAreTyped DEF Receive, Polling, Subscribed
  <1>8. ConnType'
    BY <1>5, <1>7 DEF ConnType, ConnOK, Polling, PollAll, At
  <1>9. MeshType' /\ UNCHANGED <<topic_mesh, num_readers, raced>>
    BY DEF Receive, MeshType
  <1>10. ASSUME NEW y \in Connections, NEW u \in Topics PROVE Held(y, u)' = Held(y, u)
    <2>1. conn'[x].pc # "dealloc" /\ conn[x].pc # "dealloc"
      BY DEF Receive, Polling, PollAll, At
    <2>2. y # x => conn'[y] = conn[y]
      BY <1>7
    <2>3. reader'[y][u] = None <=> reader[y][u] = None
      BY <1>5 DEF Subscribed
    <2> QED
      BY <1>4, <2>1, <2>2, <2>3 DEF Held
  <1> QED
    BY <1>6, <1>8, <1>9, <1>10, NothingMoves

\* An empty poll.
LEMMA StepPollEmpty ==
    ASSUME IInv, NEW x \in Connections, PollEmpty(x)
    PROVE  IInv'
  <1> USE DEF IInv
  <1>1. PICK t \in conn[x].todo : conn' = [conn EXCEPT ![x].pc = "empty", ![x].topic = t]
    BY Zenon DEF PollEmpty
  <1>2. t \in Topics /\ conn[x].todo \subseteq Subscribed(x) /\ conn[x] \in ConnState
    BY DEF PollEmpty, ConnType, ConnOK, Subscribed
  <1> DEFINE c == [conn[x] EXCEPT !.pc = "empty", !.topic = t]
  <1>3. c \in ConnState /\ c.pc = "empty" /\ c.todo = conn[x].todo
    BY <1>2, Zenon DEF ConnState, PCs
  <1>4. conn' = [conn EXCEPT ![x] = c]
    BY <1>1, Zenon
  <1> HIDE DEF c
  <1> QED
    BY <1>2, <1>3, <1>4, ConnStep, Zenon DEF PollEmpty

\* The registration of a waker.
LEMMA StepRegisterWaker ==
    ASSUME IInv, NEW x \in Connections, RegisterWaker(x)
    PROVE  IInv'
  <1> USE DEF IInv
  <1> DEFINE c == [conn[x] EXCEPT !.pc = "poll", !.topic = None, !.todo = @ \ {conn[x].topic}]
  <1>1. conn[x].todo \subseteq Subscribed(x) /\ conn[x] \in ConnState
    BY DEF RegisterWaker, ConnType, ConnOK
  <1>2. c \in ConnState /\ c.pc = "poll" /\ c.todo \subseteq conn[x].todo
    BY <1>1, Zenon DEF ConnState, PCs
  <1>3. conn' = [conn EXCEPT ![x] = c]
    BY Zenon DEF RegisterWaker
  <1> HIDE DEF c
  <1> QED
    BY <1>1, <1>2, <1>3, ConnStep, Zenon DEF RegisterWaker

\* Going to sleep, or back to the readers.
LEMMA StepSleep ==
    ASSUME IInv, NEW x \in Connections, Sleep(x)
    PROVE  IInv'
  <1> USE DEF IInv
  <1> DEFINE c == IF conn[x].woken THEN Polling(x) ELSE [conn[x] EXCEPT !.pc = "asleep"]
  <1>1. conn[x] \in ConnState
    BY DEF ConnType
  <1>2. Polling(x) \in ConnState /\ Polling(x).todo \subseteq Subscribed(x)
        /\ Polling(x).pc = "poll"
    BY StatesAreTyped DEF Polling, Subscribed, PollAll, At
  <1>3. c \in ConnState /\ c.pc \in {"poll", "asleep"} /\ (c.pc = "poll" => c = Polling(x))
    BY <1>1, <1>2 DEF ConnState, PCs
  <1>4. conn' = [conn EXCEPT ![x] = c]
    BY DEF Sleep
  <1> HIDE DEF c
  <1> QED
    BY <1>2, <1>3, <1>4, ConnStep, Zenon DEF Sleep

\* A connection is opened.
LEMMA StepConnect ==
    ASSUME IInv, NEW x \in Connections, Connect(x)
    PROVE  IInv'
  <1> DEFINE c == At("contains", DUMMY_SUBSCRIPTION_TOPIC, {}, FALSE)
  <1>1. c \in ConnState /\ c.pc = "contains" /\ c.topic \in Topics
    BY StatesAreTyped DEF Topics, At
  <1>2. conn' = [conn EXCEPT ![x] = c]
    BY DEF Connect
  <1> HIDE DEF c
  <1> QED
    BY <1>1, <1>2, ConnStep, Zenon DEF Connect

\* A client asks for a subscription.
LEMMA StepClientSubscribes ==
    ASSUME IInv, NEW x \in Connections, ClientSubscribes(x)
    PROVE  IInv'
  <1>1. PICK t \in ClientTopics : conn' = [conn EXCEPT ![x] = At("contains", t, {}, FALSE)]
    BY Zenon DEF ClientSubscribes
  <1> DEFINE c == At("contains", t, {}, FALSE)
  <1>2. c \in ConnState /\ c.pc = "contains" /\ c.topic \in Topics
    BY StatesAreTyped DEF Topics, At
  <1>3. conn' = [conn EXCEPT ![x] = c]
    BY <1>1
  <1> HIDE DEF c
  <1> QED
    BY <1>2, <1>3, ConnStep, Zenon DEF ClientSubscribes, AtSelect

\* A client unsubscribes or closes.
LEMMA StepClientLeaves ==
    ASSUME IInv, NEW x \in Connections, ClientLeaves(x)
    PROVE  IInv'
  <1>1. PICK S \in SUBSET Subscribed(x) : conn' = [conn EXCEPT ![x] = At("drop", None, S,
             FALSE)]
    BY Zenon DEF ClientLeaves
  <1> DEFINE c == At("drop", None, S, FALSE)
  <1>2. c \in ConnState /\ c.pc = "drop" /\ c.todo \subseteq Subscribed(x)
    BY StatesAreTyped DEF Subscribed, At
  <1>3. conn' = [conn EXCEPT ![x] = c]
    BY <1>1
  <1> HIDE DEF c
  <1> QED
    BY <1>2, <1>3, ConnStep, Zenon DEF ClientLeaves, AtSelect

\* The look at the mesh that starts a subscription.
LEMMA StepSubscribeContains ==
    ASSUME IInv, NEW x \in Connections, SubscribeContains(x)
    PROVE  IInv'
  <1> USE DEF IInv
  <1> DEFINE c == [conn[x] EXCEPT !.pc =
                     IF topic_mesh[conn[x].topic] = None THEN "insert" ELSE "reader"]
  <1>1. conn[x] \in ConnState /\ conn[x].topic \in Topics
    BY DEF SubscribeContains, ConnType, ConnOK
  <1>2. c \in ConnState /\ c.pc \in {"insert", "reader"} /\ c.topic = conn[x].topic
    BY <1>1 DEF ConnState, PCs
  <1>3. conn' = [conn EXCEPT ![x] = c]
    BY DEF SubscribeContains
  <1> HIDE DEF c
  <1> QED
    BY <1>1, <1>2, <1>3, ConnStep, Zenon DEF SubscribeContains

\* A topic is registered, over whatever was there.
LEMMA StepSubscribeInsert ==
    ASSUME IInv, NEW x \in Connections, SubscribeInsert(x)
    PROVE  IInv'
  <1> USE DEF IInv
  <1> DEFINE t == conn[x].topic
             f == CHOOSE g \in Unused(t) : TRUE
             c == [conn[x] EXCEPT !.pc = "reader"]
  <1>1. t \in Topics /\ conn[x] \in ConnState
    BY DEF SubscribeInsert, ConnType, ConnOK
  <1>2. f \in FabricsOf(t) /\ f \in Fabrics
    BY <1>1, NameLeft, FabricTopic DEF Unused
  <1>3. topic_mesh' = [topic_mesh EXCEPT ![t] = f]
    BY DEF SubscribeInsert
  <1>4. conn' = [conn EXCEPT ![x] = c] /\ UNCHANGED <<num_readers, reader>>
    BY DEF SubscribeInsert
  <1>5. c \in ConnState /\ c.pc = "reader" /\ c.topic = t /\ conn[x].pc = "insert"
    BY <1>1 DEF SubscribeInsert, ConnState, PCs
  <1>6. raced' = IF topic_mesh[t] = None THEN raced ELSE raced \cup {t}
    BY DEF SubscribeInsert
  <1> HIDE DEF t, f, c
  <1>7. MeshType'
    BY <1>2, <1>3, Zenon DEF MeshType
  <1>8. ReaderType' /\ \A y \in Connections : Subscribed(y)' = Subscribed(y)
    BY <1>4 DEF ReaderType, Subscribed
  <1>9. ConnType'
    BY <1>1, <1>4, <1>5, <1>8 DEF ConnType, ConnOK
  <1>10. \A y \in Connections : \A u \in Topics : Held(y, u)' = Held(y, u)
    BY <1>4, <1>5 DEF Held
  <1>11. Counted'
    BY <1>4, <1>10, SameCounts
  <1>12. Registered'
    BY <1>3, <1>6, <1>10 DEF Registered
  <1> QED
    BY <1>7, <1>8, <1>9, <1>11, <1>12

\* A reader is taken, in place of the one the connection had.
LEMMA StepNewReader ==
    ASSUME IInv, NEW x \in Connections, new_reader(x)
    PROVE  IInv'
  <1> USE DEF IInv
  <1>0. PICK t \in Topics : t = conn[x].topic
    BY DEF new_reader, ConnType, ConnOK
  <1> DEFINE f == topic_mesh[t]
             old == {reader[x][conn[x].topic].fabric : u \in {conn[x].topic} \cap Subscribed(x)}
  <1>1. t \in Topics /\ conn[x].pc = "reader" /\ conn[x] \in ConnState
    BY DEF new_reader, ConnType
  <1>2. CASE f = None
    <2> DEFINE c == Dropping(Subscribed(x), {})
    <2>1. c \in ConnState /\ c.pc \in {"drop", "closed"} /\ (c.pc = "drop"
          => c.todo = Subscribed(x))
      BY StatesAreTyped, Zenon DEF Subscribed, Dropping, At
    <2>2. conn' = [conn EXCEPT ![x] = c] /\ UNCHANGED <<topic_mesh, num_readers, reader, raced>>
      BY <1>0, <1>2 DEF new_reader
    <2> HIDE DEF c
    <2> QED
      BY <1>1, <2>1, <2>2, ConnStep, Zenon
  <1>3. CASE f # None
    <2> DEFINE c == IF LastOfAnother(x, t, f) THEN At("replaced", t, old, FALSE)
                    ELSE PollAll(Subscribed(x) \cup {t})
               r == [fabric |-> f, unread |-> 0]
    <2>1. /\ num_readers' = [g \in Fabrics |->
               num_readers[g] + (IF g = f THEN 1 ELSE 0) - (IF g \in old THEN 1 ELSE 0)]
          /\ reader' = [reader EXCEPT ![x][t] = r]
          /\ conn' = [conn EXCEPT ![x] = c]
          /\ UNCHANGED <<topic_mesh, raced>>
      BY <1>0, <1>3, Zenon DEF new_reader
    <2>2. f \in FabricsOf(t) /\ f \in Fabrics /\ r \in TopicReader /\ r # None
      BY <1>3, NoneAssumption DEF MeshType, TopicReader
    <2>3. \A g \in Fabrics : g \in old <=> g = Held(x, t)
      BY <1>0, <1>1, NoneAssumption DEF Held, Subscribed
    <2>4. t \in Subscribed(x) => old = {reader[x][t].fabric}
          /\ reader[x][t].fabric \in FabricsOf(t)
      BY <1>0 DEF ReaderType
    <2>5. /\ c \in ConnState
          /\ \/ c.pc = "replaced" /\ c.topic = t /\ \E g \in FabricsOf(t) : c.todo = {g}
             \/ c.pc = "poll" /\ c.todo \subseteq Subscribed(x) \cup {t}
      <3>1. CASE LastOfAnother(x, t, f)
        <4>1. t \in Subscribed(x)
          BY <3>1 DEF LastOfAnother, Subscribed
        <4> QED
          BY <2>4, <3>1, <4>1, StatesAreTyped, FabricTopic, SMTT(30) DEF At
      <3>2. CASE ~LastOfAnother(x, t, f)
        <4>1. Subscribed(x) \cup {t} \in SUBSET Topics
          BY DEF Subscribed
        <4> QED
          BY <3>2, <4>1, StatesAreTyped, SMTT(30) DEF PollAll, At
      <3> QED
        BY <3>1, <3>2, Zenon
    <2> HIDE DEF c, r, old, f
    <2>6. MeshType'
      BY <2>1 DEF MeshType
    <2>7. /\ reader' \in [Connections -> [Topics -> TopicReader \cup {None}]]
          /\ reader'[x][t] = r
          /\ \A y \in Connections : \A u \in Topics :
               <<y, u>> # <<x, t>> => reader'[y][u] = reader[y][u]
      BY <2>1, <2>2 DEF ReaderType
    <2>8. Subscribed(x)' = Subscribed(x) \cup {t}
      BY <2>2, <2>7 DEF Subscribed
    <2>9. \A y \in Connections \ {x} : Subscribed(y)' = Subscribed(y)
      BY <2>7 DEF Subscribed
    <2>10. ReaderType'
      <3>1. ASSUME NEW y \in Connections, NEW u \in Subscribed(y)'
            PROVE  reader'[y][u].fabric \in FabricsOf(u)
        <4>1. CASE <<y, u>> = <<x, t>>
          BY <2>2, <2>7, <4>1 DEF r
        <4>2. CASE <<y, u>> # <<x, t>>
          <5>1. u \in Topics /\ u \in Subscribed(y)
            BY <2>8, <2>9, <4>2 DEF Subscribed
          <5> QED
            BY <2>7, <4>2, <5>1 DEF ReaderType
        <4> QED
          BY <4>1, <4>2
      <3> QED
        BY <2>7, <3>1 DEF ReaderType
    <2>11. conn' \in [Connections -> ConnState] /\ conn'[x] = c
      BY <2>1, <2>5 DEF ConnType
    <2>12. ConnType'
      <3>1. ConnOK(x)'
        BY <2>5, <2>8, <2>11 DEF ConnOK
      <3>2. \A y \in Connections \ {x} : ConnOK(y)'
        BY <2>1, <2>9 DEF ConnOK, ConnType
      <3> QED
        BY <2>11, <3>1, <3>2 DEF ConnType
    <2>13. \A y \in Connections : \A u \in Topics :
             <<y, u>> # <<x, t>> => Held(y, u)' = Held(y, u)
      BY <1>1, <2>1, <2>5 DEF Held
    <2>14. Held(x, t)' = f
      BY <2>2, <2>5, <2>7, <2>11 DEF Held, r
    <2>15. Held(x, t) \in FabricsOf(t) \cup {None}
      BY HeldFabric
    <2>16. num_readers' = [g \in Fabrics |->
               num_readers[g] + (IF g = Held(x, t)' THEN 1 ELSE 0)
                              - (IF g = Held(x, t) THEN 1 ELSE 0)]
      BY <2>1, <2>3, <2>14
    <2>17. Counted'
      <3> HIDE DEF IInv
      <3>1. Counted
        BY DEF IInv
      <3>2. Held(x, t)' \in FabricsOf(t) \cup {None}
        BY <2>2, <2>14
      <3> QED
        BY <2>13, <2>15, <2>16, <3>1, <3>2, ReferenceMoves
    <2>18. Registered'
      BY <2>1, <2>13, <2>14 DEF Registered, f
    <2> QED
      BY <2>6, <2>10, <2>12, <2>17, <2>18
  <1> QED
    BY <1>2, <1>3

\* A reader that leaves the bus is held no more, and nothing else moves.
LEMMA ReaderLeaves ==
    ASSUME IInv, NEW x \in Connections, NEW t \in Subscribed(x), NEW races,
           conn[x].pc \in {"drop", "dealloc"},
           conn[x].pc = "dealloc" => conn[x].topic = t,
           Leave(x, t, races)
    PROVE  /\ ReaderType' /\ ConnType'
           /\ Held(x, t)' = None
           /\ \A y \in Connections : \A u \in Topics :
                <<y, u>> # <<x, t>> => Held(y, u)' = Held(y, u)
           /\ races \ {t} \subseteq raced'
           /\ t \in races \ raced' => \A y \in Connections : Held(y, t)' = None
  <1> USE DEF IInv
  <1> DEFINE c == Dropping(conn[x].todo \ {t}, Subscribed(x) \ {t})
  <1>1. t \in Topics /\ conn[x] \in ConnState /\ conn[x].todo \subseteq Subscribed(x)
    BY SMTT(30) DEF ConnType, ConnOK, Subscribed
  <1>2. /\ c \in ConnState
        /\ c.pc \in {"drop", "poll", "closed"}
        /\ c.pc # "closed" => c.todo \subseteq Subscribed(x) \ {t}
    <2>1. conn[x].todo \ {t} \in SUBSET Topics /\ Subscribed(x) \ {t} \in SUBSET Topics
      BY <1>1 DEF Subscribed
    <2> QED
      BY <1>1, <2>1, StatesAreTyped, Zenon DEF Dropping, PollAll, At
  <1>3. reader' = [reader EXCEPT ![x][t] = None] /\ conn' = [conn EXCEPT ![x] = c]
    BY DEF Leave
  <1> HIDE DEF c
  <1>4. /\ reader' \in [Connections -> [Topics -> TopicReader \cup {None}]]
        /\ reader'[x][t] = None
        /\ \A y \in Connections : \A u \in Topics :
             <<y, u>> # <<x, t>> => reader'[y][u] = reader[y][u]
    BY <1>1, <1>3 DEF ReaderType
  <1>5. Subscribed(x)' = Subscribed(x) \ {t}
    BY <1>4 DEF Subscribed
  <1>6. \A y \in Connections \ {x} : Subscribed(y)' = Subscribed(y)
    BY <1>4 DEF Subscribed
  <1>7. ReaderType'
    <2>1. ASSUME NEW y \in Connections, NEW u \in Subscribed(y)'
          PROVE  reader'[y][u].fabric \in FabricsOf(u)
      <3>1. <<y, u>> # <<x, t>> /\ u \in Subscribed(y) /\ u \in Topics
        BY <1>5, <1>6 DEF Subscribed
      <3> QED
        BY <1>4, <3>1 DEF ReaderType
    <2> QED
      BY <1>4, <2>1 DEF ReaderType
  <1>8. conn' \in [Connections -> ConnState] /\ conn'[x] = c
    BY <1>2, <1>3 DEF ConnType
  <1>9. ConnType'
    <2>1. ConnOK(x)'
      BY <1>2, <1>5, <1>8 DEF ConnOK
    <2>2. \A y \in Connections \ {x} : ConnOK(y)'
      BY <1>3, <1>6 DEF ConnOK, ConnType
    <2> QED
      BY <1>8, <2>1, <2>2 DEF ConnType
  <1>10. Held(x, t)' = None
    BY <1>4 DEF Held
  <1>11. \A y \in Connections : \A u \in Topics :
           <<y, u>> # <<x, t>> => Held(y, u)' = Held(y, u)
    BY <1>2, <1>3 DEF Held
  <1>12. races \ {t} \subseteq raced'
    BY DEF Leave
  <1>13. ASSUME t \in races \ raced', NEW y \in Connections PROVE Held(y, t)' = None
    <2>1. y # x => t \notin Subscribed(y)
      BY <1>13 DEF Leave
    <2> QED
      BY <1>4, <2>1 DEF Held, Subscribed
  <1> QED
    BY <1>7, <1>9, <1>10, <1>11, <1>12, <1>13

\* The clean-up of a topic takes no registered fabric from a reader, unless it
\* is recorded as a race.
LEMMA CleanUpIsSafe ==
    ASSUME IInv, NEW t \in Topics, NEW f \in FabricsOf(t), CleanUp(t, f)
    PROVE  /\ MeshType'
           /\ raced \subseteq Races(t, f)
           /\ \A y \in Connections : \A u \in Topics \ Races(t, f) :
                Held(y, u) \in {None, topic_mesh'[u]}
  <1> USE DEF IInv
  <1>1. raced \subseteq Races(t, f)
    BY DEF Races
  <1>2. CASE NewSubscription(f)
    <2>1. topic_mesh' = topic_mesh
      BY <1>2 DEF CleanUp
    <2> QED
      BY <1>1, <2>1 DEF MeshType, Registered
  <1>3. CASE ~NewSubscription(f)
    <2>1. topic_mesh' = [topic_mesh EXCEPT ![t] = None]
      BY <1>3 DEF CleanUp
    <2>2. MeshType'
      BY <2>1 DEF MeshType
    <2>3. ASSUME NEW y \in Connections, NEW u \in Topics \ Races(t, f)
          PROVE  Held(y, u) \in {None, topic_mesh'[u]}
      <3>1. Held(y, u) \in {None, topic_mesh[u]}
        BY <1>1 DEF Registered
      <3>2. CASE u # t
        BY <2>1, <3>1, <3>2
      <3>3. CASE u = t
        <4>1. Held(y, t) # f
          BY <1>3, FabricTopic, ZeroMeansFree DEF NewSubscription
        <4>2. topic_mesh' # topic_mesh => topic_mesh[t] \in {f, None}
          BY <3>3 DEF Races
        <4>3. topic_mesh' = topic_mesh => topic_mesh[t] = None
          BY <2>1 DEF MeshType
        <4> QED
          BY <3>1, <3>3, <4>1, <4>2
      <3> QED
        BY <3>2, <3>3
    <2> QED
      BY <1>1, <2>2, <2>3
  <1> QED
    BY <1>2, <1>3

\* A reader gives its reference back.
LEMMA StepDropReader ==
    ASSUME IInv, NEW x \in Connections, DropReader(x)
    PROVE  IInv'
  <1> USE DEF IInv
  <1>1. PICK t \in conn[x].todo :
          LET f == reader[x][t].fabric IN
          /\ num_readers' = [num_readers EXCEPT ![f] = @ - 1]
          /\ IF num_readers[f] = 1
             THEN /\ conn' = [conn EXCEPT ![x].pc = "dealloc", ![x].topic = t]
                  /\ UNCHANGED <<reader, raced>>
             ELSE Leave(x, t, raced)
    BY Zenon DEF DropReader
  <1>2. conn[x].pc = "drop" /\ topic_mesh' = topic_mesh
    BY DEF DropReader
  <1>3. /\ conn[x] \in ConnState /\ conn[x].todo \subseteq Subscribed(x)
        /\ t \in Subscribed(x) /\ t \in Topics
    BY <1>2 DEF ConnType, ConnOK, Subscribed
  <1>4. Held(x, t) = reader[x][t].fabric /\ Held(x, t) \in FabricsOf(t) /\ Held(x,
        t) \in Fabrics
    BY <1>2, <1>3, HeldFabric, NoneAssumption
  <1>5. num_readers' = [g \in Fabrics |-> num_readers[g] - (IF g = Held(x, t) THEN 1 ELSE 0)]
    <2>1. num_readers \in [Fabrics -> Nat]
      BY CountType
    <2>2. num_readers' = [num_readers EXCEPT ![Held(x, t)] = @ - 1]
      BY <1>1, <1>4
    <2>3. \A g \in Fabrics : num_readers'[g] = num_readers[g] - (IF g = Held(x,
          t) THEN 1 ELSE 0)
      <3> HIDE DEF IInv
      <3> QED
        BY <2>1, <2>2
    <2>4. num_readers' = [g \in Fabrics |-> num_readers'[g]]
      BY <2>1, <2>2, Zenon
    <2> QED
      BY <2>3, <2>4
  <1>6. SUFFICES /\ ReaderType' /\ ConnType'
                 /\ Held(x, t)' = None
                 /\ \A y \in Connections : \A u \in Topics :
                      <<y, u>> # <<x, t>> => Held(y, u)' = Held(y, u)
                 /\ raced \ {t} \subseteq raced'
                 /\ t \in raced \ raced' => \A y \in Connections : Held(y, t)' = None
    <2>1. num_readers' = [g \in Fabrics |->
            num_readers[g] + (IF g = Held(x, t)' THEN 1 ELSE 0) - (IF g = Held(x,
            t) THEN 1 ELSE 0)]
      BY <1>5, NoneAssumption, CountType
    <2>2. Counted'
      <3>1. Counted /\ Held(x, t)' \in FabricsOf(t) \cup {None}
        BY <1>6
      <3> HIDE DEF IInv
      <3> QED
        BY <1>3, <1>4, <2>1, <3>1, ReferenceMoves
    <2>3. Registered'
      <3> SUFFICES ASSUME NEW y \in Connections, NEW u \in Topics, u \notin raced'
                   PROVE  Held(y, u)' \in {None, topic_mesh[u]}
        BY <1>2 DEF Registered
      <3> QED
        BY DEF Registered
    <2>4. MeshType'
      BY <1>2 DEF MeshType
    <2> QED
      BY <2>2, <2>3, <2>4
  <1>7. CASE num_readers[reader[x][t].fabric] = 1
    <2> DEFINE c == [conn[x] EXCEPT !.pc = "dealloc", !.topic = t]
    <2>1. conn' = [conn EXCEPT ![x] = c] /\ UNCHANGED <<reader, raced>>
      BY <1>1, <1>7, Zenon
    <2>2. c \in ConnState /\ c.pc = "dealloc" /\ c.topic = t /\ c.todo = conn[x].todo
      BY <1>3, Zenon DEF ConnState, PCs
    <2> HIDE DEF c
    <2>3. ReaderType' /\ \A y \in Connections : Subscribed(y)' = Subscribed(y)
      BY <2>1 DEF ReaderType, Subscribed
    <2>4. ConnType'
      BY <1>3, <2>1, <2>2, <2>3 DEF ConnType, ConnOK
    <2>5. Held(x, t)' = None
      BY <2>1, <2>2 DEF Held, ConnType
    <2>6. \A y \in Connections : \A u \in Topics :
            <<y, u>> # <<x, t>> => Held(y, u)' = Held(y, u)
      BY <1>2, <2>1, <2>2 DEF Held
    <2> QED
      BY <2>1, <2>3, <2>4, <2>5, <2>6
  <1>8. CASE num_readers[reader[x][t].fabric] # 1
    <2>1. Leave(x, t, raced)
      BY <1>1, <1>8
    <2> HIDE DEF IInv
    <2> QED
      BY <1>2, <1>3, <2>1, ReaderLeaves
  <1> QED
    BY <1>7, <1>8

\* The last reader cleans its topic up and leaves.
LEMMA StepDealloc ==
    ASSUME IInv, NEW x \in Connections, Dealloc(x)
    PROVE  IInv'
  <1> USE DEF IInv
  <1>1. PICK t \in Subscribed(x) : t = conn[x].topic /\ t \in Topics /\ conn[x].pc = "dealloc"
    BY DEF Dealloc, ConnType, ConnOK, Subscribed
  <1>2. PICK f \in FabricsOf(t) : f = reader[x][t].fabric
    BY DEF ReaderType
  <1>3. CleanUp(t, f) /\ Leave(x, t, Races(t, f)) /\ num_readers' = num_readers
    BY <1>1, <1>2 DEF Dealloc
  <1>4. /\ MeshType'
        /\ \A y \in Connections : \A u \in Topics \ Races(t, f) :
             Held(y, u) \in {None, topic_mesh'[u]}
    BY <1>1, <1>3, CleanUpIsSafe
  <1>5. PICK races : races = Races(t, f)
    BY SMTT(30)
  <1>6. /\ ReaderType' /\ ConnType'
        /\ Held(x, t)' = None
        /\ \A y \in Connections : \A u \in Topics :
             <<y, u>> # <<x, t>> => Held(y, u)' = Held(y, u)
        /\ races \ {t} \subseteq raced'
        /\ t \in races \ raced' => \A y \in Connections : Held(y, t)' = None
    BY <1>1, <1>3, <1>5, ReaderLeaves
  <1>7. Held(x, t) = None
    BY <1>1 DEF Held
  <1>8. Counted'
    BY <1>3, <1>6, <1>7, SameCounts
  <1>9. Registered'
    <2> SUFFICES ASSUME NEW y \in Connections, NEW u \in Topics, u \notin raced'
                 PROVE  Held(y, u)' \in {None, topic_mesh'[u]}
      BY DEF Registered
    <2>1. CASE u \in races
      BY <1>6, <2>1
    <2>2. CASE u \notin races
      BY <1>4, <1>5, <1>6
    <2> QED
      BY <2>1, <2>2
  <1> QED
    BY <1>4, <1>6, <1>8, <1>9

\* The clean-up after a reader that was replaced.
LEMMA StepDeallocReplaced ==
    ASSUME IInv, NEW x \in Connections, DeallocReplaced(x)
    PROVE  IInv'
  <1> USE DEF IInv
  <1>1. conn[x].pc = "replaced" /\ conn[x].topic \in Topics
    BY DEF DeallocReplaced, ConnType, ConnOK
  <1>2. PICK f \in FabricsOf(conn[x].topic) :
          CleanUp(conn[x].topic, f) /\ raced' = Races(conn[x].topic, f)
    BY DEF DeallocReplaced, ConnType, ConnOK
  <1>3. conn' = [conn EXCEPT ![x] = Polling(x)] /\ UNCHANGED <<num_readers, reader>>
    BY DEF DeallocReplaced
  <1>4. Polling(x) \in ConnState /\ Polling(x).pc = "poll"
        /\ Polling(x).todo \subseteq Subscribed(x)
    BY StatesAreTyped DEF Polling, PollAll, At, Subscribed
  <1>5. /\ MeshType'
        /\ \A y \in Connections : \A u \in Topics \ raced' : Held(y, u) \in {None,
             topic_mesh'[u]}
    BY <1>1, <1>2, CleanUpIsSafe
  <1>6. ReaderType' /\ \A y \in Connections : Subscribed(y)' = Subscribed(y)
    BY <1>3 DEF ReaderType, Subscribed
  <1>7. ConnType'
    BY <1>3, <1>4, <1>6 DEF ConnType, ConnOK
  <1>8. \A y \in Connections : \A u \in Topics : Held(y, u)' = Held(y, u)
    BY <1>1, <1>3, <1>4 DEF Held
  <1>9. Counted'
    BY <1>3, <1>8, SameCounts
  <1>10. Registered'
    BY <1>5, <1>8 DEF Registered
  <1> QED
    BY <1>5, <1>6, <1>7, <1>9, <1>10

-----------------------------------------------------------------------------
(* The steps of a publisher                                                 *)

\* A broadcast adds a message to buffers and wakes connections.
LEMMA StepWriteMessage ==
    ASSUME IInv, NEW topic, NEW f, write_message(topic, f)
    PROVE  IInv'
  <1> USE DEF IInv
  <1>1. /\ \A x \in Connections : \A t \in Topics : reader'[x][t] =
             IF <<x, t>> \in ReadersOf(f) THEN [reader[x][t] EXCEPT !.unread = @ + 1] ELSE reader[x][t]
        /\ \A x \in Connections : conn'[x] =
             IF x \in Woken(topic) THEN Wake(conn[x], x) ELSE Miss(conn[x], x, f)
        /\ UNCHANGED <<topic_mesh, num_readers, raced>>
    BY DEF write_message
  <1>2. ASSUME NEW x \in Connections, NEW t \in Topics
        PROVE  /\ reader'[x][t] \in TopicReader \cup {None}
               /\ reader'[x][t] = None <=> reader[x][t] = None
               /\ reader[x][t] # None => reader'[x][t].fabric = reader[x][t].fabric
    <2>1. CASE reader[x][t] = None
      BY <1>1, <2>1, Zenon DEF ReadersOf
    <2>2. CASE reader[x][t] # None
      <3>1. reader[x][t] \in TopicReader
        BY <2>2 DEF ReaderType
      <3>2. [reader[x][t] EXCEPT !.unread = @ + 1] \in TopicReader
        BY <3>1 DEF TopicReader
      <3>3. [reader[x][t] EXCEPT !.unread = @ + 1].fabric = reader[x][t].fabric
        OBVIOUS
      <3> QED
        BY <1>1, <3>1, <3>2, <3>3, NoneAssumption, Zenon
    <2> QED
      BY <2>1, <2>2
  <1>3. \A x \in Connections : Subscribed(x)' = Subscribed(x)
    BY <1>2 DEF Subscribed
  <1>4. ReaderType'
    <2>1. reader' \in [Connections -> [Topics -> TopicReader \cup {None}]]
      BY <1>2 DEF write_message
    <2>2. ASSUME NEW x \in Connections, NEW t \in Subscribed(x)'
          PROVE  reader'[x][t].fabric \in FabricsOf(t)
      BY <1>2 DEF ReaderType, Subscribed
    <2> QED
      BY <2>1, <2>2 DEF ReaderType
  <1>5. ASSUME NEW x \in Connections
        PROVE  /\ conn'[x] \in ConnState
               /\ \/ conn'[x].pc = "poll" /\ conn'[x].todo \subseteq Subscribed(x)
                     /\ conn[x].pc = "asleep"
                  \/ conn'[x].pc = conn[x].pc /\ conn'[x].topic = conn[x].topic
                     /\ conn'[x].todo = conn[x].todo
    <2>1. conn[x] \in ConnState
      BY DEF ConnType
    <2>2. Polling(x) \in ConnState /\ Polling(x).pc = "poll"
          /\ Polling(x).todo \subseteq Subscribed(x)
      BY StatesAreTyped DEF Polling, PollAll, At, Subscribed
    <2> QED
      <3>1. CASE conn'[x] = [conn[x] EXCEPT !.woken = TRUE]
        BY <2>1, <3>1, Zenon DEF ConnState
      <3>2. CASE conn'[x] = [conn[x] EXCEPT !.late = TRUE]
        BY <2>1, <3>2, Zenon DEF ConnState
      <3>3. CASE conn'[x] = conn[x]
        BY <2>1, <3>3
      <3>4. CASE conn'[x] = Polling(x) /\ conn[x].pc = "asleep"
        BY <2>2, <3>4
      <3> QED
        BY <1>1, <3>1, <3>2, <3>3, <3>4 DEF Wake, Miss
  <1>6. ConnType'
    <2>1. conn' \in [Connections -> ConnState]
      BY <1>5 DEF write_message
    <2>2. ASSUME NEW x \in Connections PROVE ConnOK(x)'
      BY <1>3, <1>5 DEF ConnOK, ConnType
    <2> QED
      BY <2>1, <2>2 DEF ConnType
  <1>7. \A x \in Connections : \A t \in Topics : Held(x, t)' = Held(x, t)
    BY <1>2, <1>5 DEF Held
  <1>8. MeshType'
    BY <1>1 DEF MeshType
  <1> QED
    BY <1>1, <1>4, <1>6, <1>7, <1>8, NothingMoves

-----------------------------------------------------------------------------
(* The invariant                                                            *)

\* The bus starts with no reader and no registered topic.
LEMMA InitIInv == Init => IInv
  <1> SUFFICES ASSUME Init PROVE IInv
    OBVIOUS
  <1>1. MeshType /\ ReaderType
    BY DEF Init, MeshType, ReaderType, Subscribed
  <1>2. ConnType
    BY DEF Init, ConnType, ConnOK, At, ConnState, PCs
  <1>3. \A x \in Connections : \A t \in Topics : Held(x, t) = None
    BY DEF Init, Held
  <1>4. Counted
    <2>1. ASSUME NEW f \in Fabrics PROVE Holders(f) = {}
      BY <1>3, FabricTopic, NoneAssumption DEF Holders
    <2> QED
      BY <2>1, FS_EmptySet, SMTT(30) DEF Counted, Init
  <1>5. Registered
    BY <1>3 DEF Registered
  <1> QED
    BY <1>1, <1>2, <1>4, <1>5 DEF IInv

\* Every step keeps the invariant.
LEMMA NextIInv == IInv /\ [Next]_vars => IInv'
  <1> SUFFICES ASSUME IInv, [Next]_vars PROVE IInv'
    OBVIOUS
  <1>1. ASSUME NEW p \in Publishers, publish(p) PROVE IInv'
    <2>1. CASE UNCHANGED <<topic_mesh, num_readers, wakers, reader, conn, raced>>
      BY <2>1 DEF IInv, MeshType, ReaderType, ConnType, ConnOK, Subscribed, Counted,
      Holders, Held, Registered
    <2>2. CASE \E t \in ClientTopics : \E f \in {topic_mesh[t]} \ {None} : write_message(t, f)
      BY <2>2, StepWriteMessage
    <2> QED
      BY <1>1, <2>1, <2>2 DEF publish
  <1>2. ASSUME NEW p \in Publishers, FinishPublish(p) PROVE IInv'
    BY <1>2, StepWriteMessage DEF FinishPublish
  <1>3. ASSUME NEW x \in Connections, Poll(x) PROVE IInv'
    BY <1>3, StepReceive, StepPollEmpty, StepRegisterWaker, StepSleep DEF Poll
  <1>4. ASSUME NEW x \in Connections, Connect(x) \/ ClientSubscribes(x) \/ ClientLeaves(x)
        PROVE  IInv'
    BY <1>4, StepConnect, StepClientSubscribes, StepClientLeaves
  <1>5. ASSUME NEW x \in Connections, Handle(x) PROVE IInv'
    BY <1>5, StepSubscribeContains, StepSubscribeInsert, StepNewReader, StepDropReader,
    StepDealloc, StepDeallocReplaced, SMTT(30) DEF Handle
  <1>6. CASE UNCHANGED vars
    BY <1>6 DEF vars, IInv, MeshType, ReaderType, ConnType, ConnOK, Subscribed, Counted,
    Holders, Held, Registered
  <1> QED
    BY <1>1, <1>2, <1>3, <1>4, <1>5, <1>6 DEF Next

\* The reference counts of the fabrics count their readers, and the readers
\* that are counted are on the registered fabric, outside the races.
THEOREM Inductive == Spec => []IInv
  BY InitIInv, NextIInv, PTL DEF Spec

\* TopicReader's Drop: a reader is left on an unregistered fabric only by one
\* of the two races.
THEOREM ZombiesOnlyByRace == Spec => []ZombieOnlyByRace
  <1>1. IInv => ZombieOnlyByRace
    <2> SUFFICES ASSUME IInv, NEW x \in Connections, NEW t \in Subscribed(x) \ raced
                 PROVE  \/ reader[x][t].fabric = topic_mesh[t]
                        \/ conn[x].pc = "dealloc" /\ conn[x].topic = t
      BY DEF ZombieOnlyByRace
    <2>1. t \in Topics /\ reader[x][t].fabric # None
      BY HeldFabric, NoneAssumption DEF IInv, Subscribed
    <2>2. Held(x, t) \in {None, topic_mesh[t]}
      BY <2>1 DEF IInv, Registered
    <2> QED
      BY <2>1, <2>2 DEF Held, Subscribed
  <1> QED
    BY <1>1, Inductive, PTL
=============================================================================
