---------------------------- MODULE GossipProofs ----------------------------
(***************************************************************************)
(* Proofs about Gossip, for any sets of peers, failure periods, window and *)
(* delay of tasks.                                                         *)
(*                                                                         *)
(* The inductive invariant IInv has three parts: the types, with ages up   *)
(* to their bounds; the cache and its history, of which the code reads     *)
(* only the first (CacheInv); and the peer index (IndexInv).               *)
(***************************************************************************)
EXTENDS Gossip, TLAPS

IsAges(f, bound) == \A p \in DOMAIN f : f[p] \in 0..bound

\* Nobody sends a heartbeat to oneself, so the local peer is never expired.
BeatType ==
    \/ beat = Idle
    \/ /\ DOMAIN beat = {"pc", "peer", "now"}
       /\ beat.pc \in {"info", "remove", "replicas", "cache"}
       /\ beat.peer # local_peer_id
       /\ beat.now \in 0..MaxDelay

InboundMessage ==
    [pc: {"record", "contains", "filter", "add", "wallets"}, from: Peers,
     listed: SUBSET Remote, peers: SUBSET Remote, merge: BOOLEAN, now: 0..MaxDelay]

TypeInv ==
    /\ IsAges(peer_map, MaxAge)
    /\ IsAges(peer_expiry_cache, MaxExpiryAge)
    /\ IsAges(last_expired, EXPIRY_INVISIBILITY_WINDOW)
    /\ BeatType
    /\ inbound = Idle \/ inbound \in InboundMessage

\* An expiry in its window is in the cache, with its age; and a message that has
\* passed the cache carries such a peer only if the expiry came later.
CacheInv ==
    /\ \A p \in DOMAIN last_expired :
         p \in DOMAIN peer_expiry_cache /\ peer_expiry_cache[p] = last_expired[p]
    /\ \A p \in DOMAIN last_expired : PassedTheCache(p) => p \in excused
    /\ ExpiryHides

IndexInv == local_peer_id \in Known /\ ReplicasIndexed /\ ExpiredWasSilent

IInv == TypeInv /\ CacheInv /\ IndexInv

-----------------------------------------------------------------------------
\* What the periods, the window and the delay are to each other.
LEMMA Bounds ==
  /\ MaxDelay \in Nat \ {0} /\ EXPIRY_INVISIBILITY_WINDOW \in Nat
  /\ MaxAge \in Nat /\ MaxAge = HEARTBEAT_FAILURE + MaxDelay
  /\ MaxExpiryAge \in Nat /\ MaxExpiryAge = EXPIRY_INVISIBILITY_WINDOW + MaxDelay + 1
  /\ CLUSTER_HEARTBEAT_FAILURE \in Nat /\ HEARTBEAT_FAILURE \in Nat
  /\ CLUSTER_HEARTBEAT_FAILURE <= HEARTBEAT_FAILURE
  /\ local_peer_id \in Peers
  BY PeriodsAssumption DEF MaxAge, MaxExpiryAge


\* Time passes: an age and the clock it is compared with grow together, and an age
\* that has reached its bound is past every period.
LEMMA StepTick ==
  ASSUME IInv, Tick
  PROVE  IInv'
  <1> USE Bounds DEF Tick, RecentlyExpired, index, timers, history
  <1>1. TypeInv'
    <2>1. IsAges(peer_map', MaxAge) /\ IsAges(peer_expiry_cache', MaxExpiryAge)
      BY DEF IInv, TypeInv, IsAges, Older
    <2>2. IsAges(last_expired', EXPIRY_INVISIBILITY_WINDOW)
      BY DEF IInv, TypeInv, IsAges
    <2>3. BeatType'
      BY DEF IInv, TypeInv, BeatType, Waited
    <2>4. inbound' = Idle \/ inbound' \in InboundMessage
      <3>1. CASE inbound = Idle
        BY <3>1 DEF Waited
      <3>2. CASE inbound # Idle
        <4>1. inbound \in InboundMessage /\ inbound' = [inbound EXCEPT !.now = @ + 1]
          BY <3>2 DEF IInv, TypeInv, Waited
        <4>2. inbound.now + 1 \in 0..MaxDelay
          BY <4>1 DEF InboundMessage
        <4> QED BY <4>1, <4>2, Zenon DEF InboundMessage
      <3> QED BY <3>1, <3>2
    <2> QED BY <2>1, <2>2, <2>3, <2>4 DEF TypeInv
  <1>2. CacheInv'
    <2>1. \A p \in DOMAIN last_expired' :
            /\ p \in DOMAIN last_expired
            /\ last_expired[p] < EXPIRY_INVISIBILITY_WINDOW
                 /\ last_expired'[p] = last_expired[p] + 1
      OBVIOUS
    <2>2. \A p \in DOMAIN last_expired' :
            p \in DOMAIN peer_expiry_cache' /\ peer_expiry_cache'[p] = last_expired'[p]
      BY DEF IInv, TypeInv, IsAges, CacheInv, Older
    <2>3. \A p : PassedTheCache(p)' => PassedTheCache(p)
      BY DEF PassedTheCache, Waited
    <2>4. \A p \in DOMAIN last_expired' : PassedTheCache(p)' => p \in excused'
      BY <2>3 DEF IInv, CacheInv
    <2>5. ExpiryHides'
      BY Zenon DEF ExpiryHides
    <2> QED BY <2>2, <2>4, <2>5 DEF CacheInv
  <1>3. IndexInv'
    <2>1. Known' = Known
      BY DEF Known, Older
    <2>2. \/ beat = Idle /\ beat' = Idle
          \/ /\ beat'.pc = beat.pc /\ beat'.peer = beat.peer /\ beat'.now = beat.now + 1
             /\ beat.now \in 0..(MaxDelay - 1)
      BY DEF IInv, TypeInv, BeatType, Waited
    <2>3. ReplicasIndexed'
      BY <2>1, <2>2 DEF IInv, IndexInv, ReplicasIndexed
    <2>4. ExpiredWasSilent'
      <3> SUFFICES ASSUME beat'.pc = "remove", beat'.peer \in Known'
                   PROVE  \/ peer_map'[beat'.peer] - beat'.now >= FailurePeriod(beat'.peer)
                          \/ peer_map'[beat'.peer] <= beat'.now
        BY DEF ExpiredWasSilent, FailurePeriod
      <3>1. beat # Idle /\ beat'.peer = beat.peer /\ beat'.now = beat.now + 1
            /\ beat.now \in 0..(MaxDelay - 1) /\ beat.pc = "remove"
        BY <2>2 DEF Idle
      <3>2. peer_map[beat.peer] \in 0..MaxAge
        BY <2>1, <3>1 DEF IInv, TypeInv, IsAges, Known
      <3>3. peer_map[beat.peer] - beat.now >= FailurePeriod(beat.peer)
            \/ peer_map[beat.peer] <= beat.now
        BY <2>1, <3>1 DEF IInv, IndexInv, ExpiredWasSilent, FailurePeriod
      <3>4. FailurePeriod(beat.peer) \in 0..HEARTBEAT_FAILURE
        BY DEF FailurePeriod
      <3>5. peer_map'[beat.peer] = IF peer_map[beat.peer] < MaxAge THEN peer_map[beat.peer] + 1 ELSE MaxAge
        BY <3>1 DEF Older, Known
      <3> QED BY <3>1, <3>2, <3>3, <3>4, <3>5
    <2> QED BY <2>1, <2>3, <2>4 DEF IInv, IndexInv
  <1> QED BY <1>1, <1>2, <1>3 DEF IInv

\* A heartbeat is sent to another peer than oneself, with a fresh clock.
LEMMA StepSendHeartbeat ==
  ASSUME IInv, send_heartbeat
  PROVE  IInv'
  <1> USE Bounds DEF send_heartbeat, index, timers, history
  <1>1. TypeInv'
    BY DEF IInv, TypeInv, BeatType
  <1>2. CacheInv'
    BY DEF IInv, CacheInv, ExpiryHides, PassedTheCache, Known
  <1>3. IndexInv'
    BY DEF IInv, IndexInv, ReplicasIndexed, ExpiredWasSilent, Known, Idle
  <1> QED BY <1>1, <1>2, <1>3 DEF IInv

\* A peer goes on to be removed when its age is a full period, or wraps.
LEMMA StepMaybeExpire ==
  ASSUME IInv, maybe_expire_peer
  PROVE  IInv'
  <1> USE Bounds DEF maybe_expire_peer, HeardFrom, Below, FailurePeriod, index, timers, history
  <1>1. TypeInv'
    BY DEF IInv, TypeInv, BeatType, Idle
  <1>2. CacheInv'
    BY DEF IInv, CacheInv, ExpiryHides, PassedTheCache, Known
  <1>3. IndexInv'
    BY DEF IInv, TypeInv, IsAges, BeatType, IndexInv, ReplicasIndexed, ExpiredWasSilent,
    Known, Idle
  <1> QED BY <1>1, <1>2, <1>3 DEF IInv

\* The peer leaves the index before the replicas.
LEMMA StepRemoveFromIndex ==
  ASSUME IInv, RemoveFromIndex
  PROVE  IInv'
  <1> USE Bounds DEF RemoveFromIndex, remove_peer, index, timers, history
  <1>1. TypeInv'
    BY DEF IInv, TypeInv, IsAges, BeatType, Without, Idle
  <1>2. CacheInv'
    BY DEF IInv, CacheInv, ExpiryHides, PassedTheCache, Known, Without
  <1>3. IndexInv'
    BY DEF IInv, TypeInv, BeatType, IndexInv, ReplicasIndexed, ExpiredWasSilent, Known,
    Without, Idle
  <1> QED BY <1>1, <1>2, <1>3 DEF IInv

\* The peer leaves the replicas.
LEMMA StepRemoveReplicas ==
  ASSUME IInv, remove_peer_replicas
  PROVE  IInv'
  <1> USE Bounds DEF remove_peer_replicas, index, timers, history
  <1>1. TypeInv'
    BY DEF IInv, TypeInv, BeatType, Idle
  <1>2. CacheInv'
    BY DEF IInv, CacheInv, ExpiryHides, PassedTheCache, Known
  <1>3. IndexInv'
    BY DEF IInv, IndexInv, ReplicasIndexed, ExpiredWasSilent, Known
  <1> QED BY <1>1, <1>2, <1>3 DEF IInv

\* Cache and history get the same age; a peer that is back, or past the cache, is
\* excused.
LEMMA StepRecordExpiry ==
  ASSUME IInv, RecordExpiry
  PROVE  IInv'
  <1> USE Bounds DEF RecordExpiry, index, timers, history
  <1>1. TypeInv'
    <2>1. beat.now \in 0..MaxDelay
      BY DEF IInv, TypeInv, BeatType, Idle
    <2>2. IsAges(peer_expiry_cache', MaxExpiryAge)
      BY <2>1 DEF IInv, TypeInv, IsAges, With
    <2>3. IsAges(last_expired', EXPIRY_INVISIBILITY_WINDOW)
      BY <2>1 DEF IInv, TypeInv, IsAges, With, Without
    <2> QED BY <2>2, <2>3 DEF IInv, TypeInv, BeatType
  <1>2. CacheInv'
    BY DEF IInv, CacheInv, ExpiryHides, PassedTheCache, Known, Without, With
  <1>3. IndexInv'
    BY DEF IInv, IndexInv, ReplicasIndexed, ExpiredWasSilent, Known, Idle
  <1> QED BY <1>1, <1>2, <1>3 DEF IInv

\* A message has passed nothing yet.
LEMMA StepInbound ==
  ASSUME IInv, handle_inbound_message
  PROVE  IInv'
  <1> USE Bounds DEF handle_inbound_message, index, timers, history
  <1>1. TypeInv'
    <2>1. inbound' \in InboundMessage
      <3>1. \A pc \in {"filter", "record", "contains"}, p \in Peers, S \in SUBSET Remote,
            m \in BOOLEAN :
              Message(pc, p, S, m) \in InboundMessage
        BY DEF InboundMessage, Message
      <3>2. Remote \subseteq Peers /\ \A p \in Remote : {p} \in SUBSET Remote
        BY DEF Remote
      <3> QED BY <3>1, <3>2, Zenon
    <2> QED BY <2>1 DEF IInv, TypeInv, BeatType
  <1>2. CacheInv'
    BY DEF IInv, CacheInv, ExpiryHides, PassedTheCache, Known, Message
  <1>3. IndexInv'
    BY DEF IInv, IndexInv, ReplicasIndexed, ExpiredWasSilent, Known
  <1> QED BY <1>1, <1>2, <1>3 DEF IInv

\* An age becomes zero, no more than any clock.
LEMMA StepRecordHeartbeat ==
  ASSUME IInv, RecordHeartbeat
  PROVE  IInv'
  <1> USE Bounds DEF RecordHeartbeat, record_heartbeat, index, timers, history
  <1>1. TypeInv'
    <2>1. inbound \in InboundMessage
      BY DEF IInv, TypeInv, Idle
    <2>2. inbound' \in InboundMessage
      BY <2>1, Zenon DEF InboundMessage
    <2> QED BY <2>2 DEF IInv, TypeInv, IsAges, BeatType, Known
  <1>2. CacheInv'
    BY DEF IInv, CacheInv, ExpiryHides, PassedTheCache, Known
  <1>3. IndexInv'
    BY DEF IInv, TypeInv, BeatType, IndexInv, ReplicasIndexed, ExpiredWasSilent, Known,
    Idle
  <1> QED BY <1>1, <1>2, <1>3 DEF IInv

\* The clock of a message is read again before the cache is.
LEMMA StepMergePeerIndex ==
  ASSUME IInv, merge_peer_index
  PROVE  IInv'
  <1> USE Bounds DEF merge_peer_index, index, timers, history
  <1>1. TypeInv'
    <2>1. inbound \in InboundMessage
      BY DEF IInv, TypeInv, Idle
    <2>2. inbound' \in InboundMessage
      <3>1. inbound.listed \ Known \in SUBSET Remote /\ 0 \in 0..MaxDelay
        BY <2>1 DEF InboundMessage
      <3> QED BY <2>1, <3>1, Zenon DEF InboundMessage
    <2> QED BY <2>2 DEF IInv, TypeInv, BeatType
  <1>2. CacheInv'
    BY DEF IInv, CacheInv, ExpiryHides, PassedTheCache, Known
  <1>3. IndexInv'
    BY DEF IInv, IndexInv, ReplicasIndexed, ExpiredWasSilent, Known
  <1> QED BY <1>1, <1>2, <1>3 DEF IInv

\* A peer let through is not in its window, or the history forgets it: the
\* difference of age and clock is negative, or longer than the window.
LEMMA StepAddNewPeers ==
  ASSUME IInv, add_new_peers
  PROVE  IInv'
  <1> USE Bounds DEF add_new_peers, InWindow, Below, index, timers, history
  <1>1. TypeInv'
    <2>1. inbound \in InboundMessage
      BY DEF IInv, TypeInv, Idle
    <2>2. inbound' \in InboundMessage
      BY <2>1, Zenon DEF InboundMessage
    <2> QED BY <2>2 DEF IInv, TypeInv, IsAges, BeatType, Without
  <1>2. CacheInv'
    BY DEF IInv, TypeInv, IsAges, InboundMessage, CacheInv, ExpiryHides, PassedTheCache,
    Known, Without, Idle
  <1>3. IndexInv'
    BY DEF IInv, IndexInv, ReplicasIndexed, ExpiredWasSilent, Known
  <1> QED BY <1>1, <1>2, <1>3 DEF IInv

\* What passed the cache is indexed; if it expired since, it is excused.
LEMMA StepAddToIndex ==
  ASSUME IInv, AddToIndex
  PROVE  IInv'
  <1> USE Bounds DEF AddToIndex, add_peers, index, timers, history
  <1>1. TypeInv'
    <2>1. inbound \in InboundMessage
      BY DEF IInv, TypeInv, Idle
    <2>2. inbound' = Idle \/ inbound' \in InboundMessage
      <3>1. 0 \in 0..MaxDelay
        OBVIOUS
      <3> QED BY <2>1, <3>1, Zenon DEF InboundMessage
    <2> QED BY <2>2 DEF IInv, TypeInv, IsAges, BeatType, With
  <1>2. CacheInv'
    BY DEF IInv, CacheInv, ExpiryHides, PassedTheCache, Known, With, Idle
  <1>3. IndexInv'
    BY DEF IInv, TypeInv, BeatType, IndexInv, ReplicasIndexed, ExpiredWasSilent, Known,
    With, Idle
  <1> QED BY <1>1, <1>2, <1>3 DEF IInv

\* Replicas are added while they are indexed.
LEMMA StepMergeWallets ==
  ASSUME IInv, merge_wallets
  PROVE  IInv'
  <1> USE Bounds DEF merge_wallets, Retained, index, timers, history
  <1>1. TypeInv'
    BY DEF IInv, TypeInv, BeatType
  <1>2. CacheInv'
    BY DEF IInv, CacheInv, ExpiryHides, PassedTheCache, Known, Idle
  <1>3. IndexInv'
    BY DEF IInv, IndexInv, ReplicasIndexed, ExpiredWasSilent, Known
  <1> QED BY <1>1, <1>2, <1>3 DEF IInv

\* A join excuses a peer in its window.
LEMMA StepClusterJoin ==
  ASSUME IInv, handle_cluster_join_job
  PROVE  IInv'
  <1> USE Bounds DEF handle_cluster_join_job, add_peers, index, timers, history
  <1>1. TypeInv'
    BY DEF IInv, TypeInv, IsAges, BeatType, With
  <1>2. CacheInv'
    BY DEF IInv, CacheInv, ExpiryHides, PassedTheCache, Known, With
  <1>3. IndexInv'
    BY DEF IInv, TypeInv, BeatType, IndexInv, ReplicasIndexed, ExpiredWasSilent, Known,
    With, Idle
  <1> QED BY <1>1, <1>2, <1>3 DEF IInv

\* A replica announced by name.
LEMMA StepAddReplica ==
  ASSUME IInv, handle_add_replica_job
  PROVE  IInv'
  <1> USE Bounds DEF handle_add_replica_job, index, timers, history
  <1>1. TypeInv'
    BY DEF IInv, TypeInv, BeatType
  <1>2. CacheInv'
    BY DEF IInv, CacheInv, ExpiryHides, PassedTheCache, Known
  <1>3. IndexInv'
    BY DEF IInv, IndexInv, ReplicasIndexed, ExpiredWasSilent, Known
  <1> QED BY <1>1, <1>2, <1>3 DEF IInv

\* The replicas are overwritten; the local peer is always indexed.
LEMMA StepReplicate ==
  ASSUME IInv, handle_replicate_request
  PROVE  IInv'
  <1> USE Bounds DEF handle_replicate_request, index, timers, history
  <1>1. TypeInv'
    BY DEF IInv, TypeInv, BeatType
  <1>2. CacheInv'
    BY DEF IInv, CacheInv, ExpiryHides, PassedTheCache, Known
  <1>3. IndexInv'
    BY DEF IInv, IndexInv, ReplicasIndexed, ExpiredWasSilent, Known
  <1> QED BY <1>1, <1>2, <1>3 DEF IInv

\* Initially the relayer knows itself, and nothing has expired.
LEMMA InitIInv == Init => IInv
  <1> SUFFICES ASSUME Init PROVE IInv
    OBVIOUS
  <1> QED BY Bounds DEF Init, IInv, TypeInv, IsAges, BeatType, CacheInv, ExpiryHides,
     IndexInv, ReplicasIndexed, ExpiredWasSilent, Known, Idle

\* A step that changes nothing.
LEMMA StepStutter == IInv /\ UNCHANGED vars => IInv'
  BY DEF IInv, TypeInv, BeatType, CacheInv, ExpiryHides, PassedTheCache, IndexInv,
  ReplicasIndexed, ExpiredWasSilent, Known, vars, index, history

\* Every step keeps the invariant.
LEMMA NextIInv == IInv /\ [Next]_vars => IInv'
  <1> SUFFICES ASSUME IInv, [Next]_vars PROVE IInv'
    OBVIOUS
  <1>1. CASE Tick \/ handle_inbound_message \/ UNCHANGED vars
    BY <1>1, StepTick, StepInbound, StepStutter, Zenon
  <1>2. CASE Heartbeat
    BY <1>2, StepSendHeartbeat, StepMaybeExpire, StepRemoveFromIndex, StepRemoveReplicas,
    StepRecordExpiry, Zenon DEF Heartbeat
  <1>3. CASE Merge
    BY <1>3, StepRecordHeartbeat, StepMergePeerIndex, StepAddNewPeers, StepAddToIndex,
    StepMergeWallets, Zenon DEF Merge
  <1>4. CASE Cluster
    BY <1>4, StepClusterJoin, StepAddReplica, StepReplicate, Zenon DEF Cluster
  <1> QED
    BY <1>1, <1>2, <1>3, <1>4, Zenon DEF Next

-----------------------------------------------------------------------------
\* The inductive invariant holds in every reachable state.
THEOREM Inductive == Spec => []IInv
  BY InitIInv, NextIInv, PTL DEF Spec

\* An expired peer is not indexed again during its invisibility window, but for
\* its own join and for a message that its expiry raced.
THEOREM ExpiredStaysHidden == Spec => []ExpiryHides
  <1>1. IInv => ExpiryHides
    BY DEF IInv, CacheInv
  <1> QED BY <1>1, Inductive, PTL

\* maybe_expire_peer removes only peers silent for their failure period, or heard
\* from after its clock was read.
THEOREM OnlySilentExpires == Spec => []ExpiredWasSilent
  <1>1. IInv => ExpiredWasSilent
    BY DEF IInv, IndexInv
  <1> QED BY <1>1, Inductive, PTL

\* The replicas of the wallet are indexed peers, but for those announced by name
\* and the one being expired.
THEOREM ReplicasAreIndexed == Spec => []ReplicasIndexed
  <1>1. IInv => ReplicasIndexed
    BY DEF IInv, IndexInv
  <1> QED BY <1>1, Inductive, PTL
=============================================================================
