----------------------------- MODULE SystemBus -----------------------------
(***************************************************************************)
(* The in-process publish/subscribe bus (core/src/system_bus.rs), with the *)
(* websocket connections that read it (core/src/api_server/websocket.rs)   *)
(* and the threads that publish on it: the order book, the handshake       *)
(* manager and the price reporter's streams.                               *)
(*                                                                         *)
(* The topic mesh and every topic have a std RwLock.  A section that ends  *)
(* without waiting is one step; the only holder that waits is a publisher  *)
(* that found a full buffer: it keeps a read lock on the mesh and the      *)
(* write lock of the topic.  A section that writes the mesh is enabled     *)
(* when no publisher waits.  One that reads it is always enabled, and is   *)
(* fair only while no writer queues: the lock lets no reader past one.     *)
(***************************************************************************)
EXTENDS Naturals, FiniteSets

CONSTANTS
    ClientTopics,    \* the topics published, to which clients subscribe
    DUMMY_SUBSCRIPTION_TOPIC,   \* every open connection reads it, nobody writes
    Connections,     \* websocket connections; a closed one is reused
    Publishers,
    BUS_BUFFER_SIZE, \* messages a topic buffers for its slowest reader
    None

Topics == ClientTopics \cup {DUMMY_SUBSCRIPTION_TOPIC}

\* Names for the fabrics a topic has had: one may be registered and each
\* connection may still hold two others.  A freed name is used again.
FabricsOf(t) == {t} \X (1..(2 * Cardinality(Connections) + 2))
Fabrics == UNION {FabricsOf(t) : t \in Topics}

ASSUME BusAssumption ==
    /\ BUS_BUFFER_SIZE \in Nat \ {0}
    /\ IsFiniteSet(Connections)
    /\ DUMMY_SUBSCRIPTION_TOPIC \notin ClientTopics

\* A connection's reader of a topic: a handle on a fabric, with its messages.
TopicReader == [fabric: Fabrics, unread: Nat]

ASSUME NoneAssumption == None \notin Fabrics /\ None \notin TopicReader

VARIABLES
    topic_mesh,   \* topic -> its registered fabric, or None
    num_readers,  \* fabric -> its reference count
    wakers,       \* topic -> connections to wake at its next message; the wakers
                  \* of a fabric no longer registered, never called, are left out
    reader,       \* connection, topic -> [fabric, unread], or None
    conn,         \* connection -> its program counter
    publisher,    \* publisher -> the fabric it waits for, or None
    raced         \* history: topics whose fabric was overwritten, or removed
                  \* by a reader of another fabric

vars == <<topic_mesh, num_readers, wakers, reader, conn, publisher, raced>>

Subscribed(x) == {t \in Topics : reader[x][t] # None}
ReadersOf(f) ==
    {r \in Connections \X Topics :
        reader[r[1]][r[2]] # None /\ reader[r[1]][r[2]].fabric = f}

\* Where a connection is: polling the readers in `todo', putting its waker on
\* one topic, asleep, or in the middle of a subscription or a clean-up; in
\* "replaced", `todo' is the fabric whose reader a second subscription replaced.
\* `late' is history: a message came between an empty poll and its waker.
At(pc, topic, todo, woken) ==
    [pc |-> pc, topic |-> topic, todo |-> todo, woken |-> woken, late |-> FALSE]

\* The dummy topic never has a message; polling it is left out.
PollAll(S) == At("poll", None, S \cap ClientTopics, FALSE)
Polling(x) == PollAll(Subscribed(x))

\* The readers in `left' are to be dropped; after them the connection polls
\* those that remain, or is closed.
Dropping(left, remaining) ==
    IF left # {} THEN At("drop", None, left, FALSE)
    ELSE IF remaining # {} THEN PollAll(remaining)
    ELSE At("closed", None, {}, FALSE)

Init ==
    /\ topic_mesh = [t \in Topics |-> None]
    /\ num_readers = [f \in Fabrics |-> 0]
    /\ wakers = [t \in Topics |-> {}]
    /\ reader = [x \in Connections |-> [t \in Topics |-> None]]
    /\ conn = [x \in Connections |-> At("closed", None, {}, FALSE)]
    /\ publisher = [p \in Publishers |-> None]
    /\ raced = {}

MeshWritable == \A p \in Publishers : publisher[p] = None
TopicWritable(f) == \A p \in Publishers : publisher[p] # f

\* The connections that wait, or are about to wait, to write the mesh.
MeshWriters == {x \in Connections : conn[x].pc \in {"insert", "dealloc", "replaced"}}
MeshReadable == MeshWritable \/ MeshWriters = {}

-----------------------------------------------------------------------------
(* Publishing                                                               *)

FullReaders(f) == {r \in ReadersOf(f) : reader[r[1]][r[2]].unread = BUS_BUFFER_SIZE}
Full(f) == FullReaders(f) # {}

Wake(c, x) ==
    IF c.pc = "asleep" THEN Polling(x)
    ELSE IF c.pc \in {"poll", "empty"} THEN [c EXCEPT !.woken = TRUE]
    ELSE c

Miss(c, x, f) ==
    IF c.pc = "empty" /\ reader[x][c.topic].fabric = f THEN [c EXCEPT !.late = TRUE]
    ELSE c

\* The mutant of Woken wakes one reader and forgets the others.
OneWoken(t) == IF wakers[t] = {} THEN {} ELSE {CHOOSE x \in wakers[t] : TRUE}
Woken(t) == wakers[t]

\* Push the message to every reader, then wake the tasks that wait for it.
write_message(topic, f) ==
    /\ ~Full(f)
    /\ reader' = [x \in Connections |-> [t \in Topics |->
         IF <<x, t>> \in ReadersOf(f)
         THEN [reader[x][t] EXCEPT !.unread = @ + 1] ELSE reader[x][t]]]
    /\ conn' = [x \in Connections |->
         IF x \in Woken(topic) THEN Wake(conn[x], x) ELSE Miss(conn[x], x, f)]
    /\ wakers' = [wakers EXCEPT ![topic] = {}]
    /\ UNCHANGED <<topic_mesh, num_readers, raced>>

\* A topic nobody registered is skipped.
publish(p) ==
    /\ publisher[p] = None
    /\ \E t \in ClientTopics : \E f \in {topic_mesh[t]} \ {None} :
         /\ TopicWritable(f)
         /\ \/ write_message(t, f) /\ UNCHANGED publisher
            \/ /\ Full(f)
               /\ publisher' = [publisher EXCEPT ![p] = f]
               /\ UNCHANGED <<topic_mesh, num_readers, wakers, reader, conn, raced>>

\* The broadcast a full buffer held up goes through.
FinishPublish(p) ==
    /\ publisher[p] # None
    /\ \E t \in ClientTopics : topic_mesh[t] = publisher[p] /\ write_message(t, topic_mesh[t])
    /\ publisher' = [publisher EXCEPT ![p] = None]

-----------------------------------------------------------------------------
(* A connection reading its subscriptions                                   *)

\* poll_bus on one of the readers: a message is pushed to the client, ...
Receive(x) ==
    /\ conn[x].pc = "poll"
    /\ \E t \in conn[x].todo :
         /\ reader[x][t].unread > 0
         /\ reader' = [reader EXCEPT ![x][t].unread = @ - 1]
    /\ conn' = [conn EXCEPT ![x] = Polling(x)]
    /\ UNCHANGED <<topic_mesh, num_readers, wakers, publisher, raced>>

\* ... or there is none ...
PollEmpty(x) ==
    /\ conn[x].pc = "poll"
    /\ \E t \in conn[x].todo :
         /\ reader[x][t].unread = 0
         /\ conn' = [conn EXCEPT ![x].pc = "empty", ![x].topic = t]
    /\ UNCHANGED <<topic_mesh, num_readers, wakers, reader, publisher, raced>>

\* ... and the waker is registered, under the lock of the wakers.
RegisterWaker(x) ==
    /\ conn[x].pc = "empty"
    /\ LET t == conn[x].topic IN
         /\ wakers' = [wakers EXCEPT ![t] = @ \cup
              {y \in {x} : reader[x][t].fabric = topic_mesh[t]}]
         /\ conn' = [conn EXCEPT ![x].pc = "poll", ![x].topic = None,
                                 ![x].todo = @ \ {t}]
    /\ UNCHANGED <<topic_mesh, num_readers, reader, publisher, raced>>

\* All readers pending: sleep, unless a waker was called since.
Sleep(x) ==
    /\ conn[x].pc = "poll" /\ conn[x].todo = {}
    /\ conn' = [conn EXCEPT ![x] = IF @.woken THEN Polling(x)
                                   ELSE [@ EXCEPT !.pc = "asleep"]]
    /\ UNCHANGED <<topic_mesh, num_readers, wakers, reader, publisher, raced>>

-----------------------------------------------------------------------------
(* Messages of the client                                                   *)

\* The select of handle_connection may take the client's branch.
AtSelect(x) ==
    \/ conn[x].pc = "asleep"
    \/ conn[x].pc = "poll" /\ conn[x].todo = Subscribed(x) \cap ClientTopics

\* handle_connection: an open connection always has one subscription.
Connect(x) ==
    /\ conn[x].pc = "closed"
    /\ conn' = [conn EXCEPT ![x] =
                  At("contains", DUMMY_SUBSCRIPTION_TOPIC, {}, FALSE)]
    /\ UNCHANGED <<topic_mesh, num_readers, wakers, reader, publisher, raced>>

ClientSubscribes(x) ==
    /\ AtSelect(x)
    /\ \E t \in ClientTopics :
         conn' = [conn EXCEPT ![x] = At("contains", t, {}, FALSE)]
    /\ UNCHANGED <<topic_mesh, num_readers, wakers, reader, publisher, raced>>

\* An unsubscription drops one reader, a close drops all, one after the other.
ClientLeaves(x) ==
    /\ AtSelect(x)
    /\ \E S \in {{t} : t \in Subscribed(x) \cap ClientTopics} \cup {Subscribed(x)} :
         conn' = [conn EXCEPT ![x] = At("drop", None, S, FALSE)]
    /\ UNCHANGED <<topic_mesh, num_readers, wakers, reader, publisher, raced>>

\* subscribe: is the topic registered?
SubscribeContains(x) ==
    /\ conn[x].pc = "contains"
    /\ conn' = [conn EXCEPT ![x].pc =
                  IF topic_mesh[conn[x].topic] = None THEN "insert" ELSE "reader"]
    /\ UNCHANGED <<topic_mesh, num_readers, wakers, reader, publisher, raced>>

Replaced == UNION {conn[x].todo : x \in {y \in Connections : conn[y].pc = "replaced"}}
Unused(t) == {f \in FabricsOf(t) \ Replaced : ReadersOf(f) = {} /\ topic_mesh[t] # f}

\* Register a new fabric, over whatever has been registered meanwhile.
SubscribeInsert(x) ==
    /\ conn[x].pc = "insert"
    /\ MeshWritable
    /\ LET t == conn[x].topic IN
         /\ topic_mesh' = [topic_mesh EXCEPT ![t] = CHOOSE f \in Unused(t) : TRUE]
         /\ wakers' = [wakers EXCEPT ![t] = {}]
         /\ raced' = IF topic_mesh[t] = None THEN raced ELSE raced \cup {t}
    /\ conn' = [conn EXCEPT ![x].pc = "reader"]
    /\ UNCHANGED <<num_readers, reader, publisher>>

\* Is x's reader of t the last one of a fabric other than f?
LastOfAnother(x, t, f) ==
    reader[x][t] # None /\ reader[x][t].fabric # f /\ num_readers[reader[x][t].fabric] = 1

\* Take a reader of the registered fabric; when it is gone again, the unwrap
\* panics, and the connection's readers are dropped with its task.  A reader
\* the connection already had is replaced, and dropped.
new_reader(x) ==
    /\ conn[x].pc = "reader"
    /\ LET t == conn[x].topic
           f == topic_mesh[t]
           old == {reader[x][t].fabric : u \in {t} \cap Subscribed(x)} IN
       IF f = None
       THEN /\ conn' = [conn EXCEPT ![x] = Dropping(Subscribed(x), {})]
            /\ UNCHANGED <<num_readers, reader>>
       ELSE /\ TopicWritable(f)
            /\ num_readers' = [g \in Fabrics |->
                 num_readers[g] + (IF g = f THEN 1 ELSE 0) - (IF g \in old THEN 1 ELSE 0)]
            /\ reader' = [reader EXCEPT ![x][t] = [fabric |-> f, unread |-> 0]]
            /\ conn' = [conn EXCEPT ![x] =
                 IF LastOfAnother(x, t, f) THEN At("replaced", t, old, FALSE)
                 ELSE PollAll(Subscribed(x) \cup {t})]
    /\ UNCHANGED <<topic_mesh, wakers, publisher, raced>>

-----------------------------------------------------------------------------
(* Dropping a reader                                                        *)

\* The reader leaves the bus.
Leave(x, t, races) ==
    /\ reader' = [reader EXCEPT ![x][t] = None]
    /\ raced' = IF \A y \in Connections \ {x} : t \notin Subscribed(y)
                THEN races \ {t} ELSE races
    /\ conn' = [conn EXCEPT ![x] = Dropping(conn[x].todo \ {t}, Subscribed(x) \ {t})]

\* TopicReader::drop: one reference less; the last one cleans the topic up.
DropReader(x) ==
    /\ conn[x].pc = "drop"
    /\ \E t \in conn[x].todo :
         LET f == reader[x][t].fabric IN
         /\ num_readers' = [num_readers EXCEPT ![f] = @ - 1]
         /\ UNCHANGED <<topic_mesh, wakers>>
         /\ IF num_readers[f] = 1
            THEN /\ conn' = [conn EXCEPT ![x].pc = "dealloc", ![x].topic = t]
                 /\ UNCHANGED <<reader, raced>>
            ELSE Leave(x, t, raced)
    /\ UNCHANGED publisher

\* The mutant of NewSubscription is the clean-up without its second look.
NotRechecked(f) == FALSE
NewSubscription(f) == num_readers[f] > 0

\* Under the mesh's lock, the topic goes with its last reader; it is a race when
\* the fabric removed was another one.
CleanUp(t, f) ==
    /\ MeshWritable
    /\ IF NewSubscription(f) THEN UNCHANGED <<topic_mesh, wakers>>
       ELSE /\ topic_mesh' = [topic_mesh EXCEPT ![t] = None]
            /\ wakers' = [wakers EXCEPT ![t] = {}]

Races(t, f) ==
    IF topic_mesh' # topic_mesh /\ topic_mesh[t] \notin {f, None} THEN raced \cup {t} ELSE raced

Dealloc(x) ==
    /\ conn[x].pc = "dealloc"
    /\ CleanUp(conn[x].topic, reader[x][conn[x].topic].fabric)
    /\ Leave(x, conn[x].topic, Races(conn[x].topic, reader[x][conn[x].topic].fabric))
    /\ UNCHANGED <<num_readers, publisher>>

\* The clean-up after a replaced reader.
DeallocReplaced(x) ==
    /\ conn[x].pc = "replaced"
    /\ \E f \in conn[x].todo :
         /\ CleanUp(conn[x].topic, f)
         /\ raced' = Races(conn[x].topic, f)
    /\ conn' = [conn EXCEPT ![x] = Polling(x)]
    /\ UNCHANGED <<num_readers, reader, publisher>>

-----------------------------------------------------------------------------
Poll(x) == Receive(x) \/ PollEmpty(x) \/ RegisterWaker(x) \/ Sleep(x)

Handle(x) ==
    \/ SubscribeContains(x) \/ SubscribeInsert(x) \/ new_reader(x)
    \/ DropReader(x) \/ Dealloc(x) \/ DeallocReplaced(x)

Unhindered(x) == (conn[x].pc \in {"contains", "reader"} => MeshReadable) /\ Handle(x)

Next ==
    \/ \E p \in Publishers : publish(p) \/ FinishPublish(p)
    \/ \E x \in Connections :
         Poll(x) \/ Connect(x) \/ ClientSubscribes(x) \/ ClientLeaves(x) \/ Handle(x)

\* A publisher whose buffer has room goes on; a connection finishes what it
\* began when it gets the locks; and however often its client writes, the
\* select, which tries its branches in random order, gets to the readers.
Spec ==
    /\ Init /\ [][Next]_vars
    /\ \A p \in Publishers : SF_vars(FinishPublish(p))
    /\ \A x \in Connections : SF_vars(Poll(x)) /\ WF_vars(Unhindered(x))

-----------------------------------------------------------------------------
(* Properties                                                               *)

\* TopicReader's Drop: clean-up looks at the count again under the lock, so a
\* reader is never left on a fabric that is no longer registered, except when
\* two subscriptions registered the topic at once, or a late clean-up
\* removed the fabric that had replaced its own.
ZombieOnlyByRace ==
    \A x \in Connections : \A t \in Subscribed(x) \ raced :
        \/ reader[x][t].fabric = topic_mesh[t]
        \/ conn[x].pc = "dealloc" /\ conn[x].topic = t

\* A connection whose buffer is full waits for the mesh that the publisher who
\* waits for this buffer has locked, be it behind another connection that
\* waits to write it, or for the very topic, of which it wants a new reader.
LockCycle(p) ==
    \E x \in {r[1] : r \in FullReaders(publisher[p])} :
        \/ x \in MeshWriters
        \/ conn[x].pc \in {"contains", "reader"} /\ MeshWriters # {}
        \/ conn[x].pc = "reader" /\ topic_mesh[conn[x].topic] = publisher[p]

\* A connection sleeps on a buffer that filled between its empty poll and the
\* registration of its waker: the publisher would wake it after the broadcast.
Unwoken(p) ==
    \E r \in FullReaders(publisher[p]) : conn[r[1]].pc = "asleep" /\ conn[r[1]].late

\* publish "blocks if the buffer is full": no longer than until the slowest
\* reader has read, whatever its client asks for meanwhile, except for the
\* two cycles above.
PublishEnds ==
    \A p \in Publishers :
        publisher[p] # None ~> (publisher[p] = None \/ LockCycle(p) \/ Unwoken(p))
=============================================================================
