------------------------------- MODULE Gossip -------------------------------
(***************************************************************************)
(* The peer index of one relayer and the gossip server that maintains it:  *)
(* heartbeats sent by two timers, peers expired when they stay silent, the *)
(* invisibility window that keeps an expired peer out, peers and replicas  *)
(* learnt from the heartbeats of other relayers, and cluster joins.        *)
(*                                                                         *)
(* The gossip server spawns every job as a task of its own                 *)
(* (gossip/server.rs), so a job may be interrupted at each lock it awaits. *)
(* Two tasks run here: `beat', the heartbeat job in progress, and          *)
(* `inbound', the message in progress; each has one step per lock.         *)
(*                                                                         *)
(* Times are kept as ages.  The code stores the second of the last         *)
(* heartbeat and subtracts it from a `now' that was read before the lock;  *)
(* here the entry holds the seconds since that heartbeat, the task the     *)
(* seconds since its `now', and the code's difference is the difference of *)
(* the two.  It is a u64 and wraps below zero (release builds).            *)
(***************************************************************************)
EXTENDS Integers, Sequences, FiniteSets, SequencesExt

CONSTANTS
    local_peer_id,     \* this relayer
    PeerOrder,         \* all peers, in the iteration order of the hash maps
    ClusterPeers,      \* the peers of this relayer's cluster, itself included
    CLUSTER_HEARTBEAT_FAILURE,  \* ticks of silence that expire a cluster peer
    HEARTBEAT_FAILURE,          \* and any other peer
    EXPIRY_INVISIBILITY_WINDOW, \* ticks an expired peer is not learnt again
    MaxDelay           \* ticks a task may wait between `now' and its last lock

Peers == ToSet(PeerOrder)
Remote == Peers \ {local_peer_id}

\* A silent peer can be told from a live one; the local peer is in its cluster.
ASSUME PeriodsAssumption ==
    /\ CLUSTER_HEARTBEAT_FAILURE \in Nat \ {0}
    /\ HEARTBEAT_FAILURE \in Nat /\ HEARTBEAT_FAILURE >= CLUSTER_HEARTBEAT_FAILURE
    /\ EXPIRY_INVISIBILITY_WINDOW \in Nat /\ MaxDelay \in Nat \ {0}
    /\ local_peer_id \in ClusterPeers /\ ClusterPeers \subseteq Peers

VARIABLES
    peer_map,           \* known peer -> ticks since its last heartbeat
    cluster_peers,      \* the known peers of the local cluster
    peer_expiry_cache,  \* expired peer -> ticks since the `now' it expired at
    replicas,           \* replicas of the wallet this relayer manages
    jobs,               \* heartbeat jobs in the work queue
    beat,               \* the heartbeat job in progress, or Idle
    inbound,            \* the message in progress, or Idle
    inter_index,        \* peer_index of the loop over all peers
    intra_index,        \* peer_index of the loop over the cluster
    \* history, read by no action's guard
    last_expired,       \* peer -> ticks since its last expiry, for the length of
                        \* the window, or until a message with an older clock
                        \* makes the cache forget it
    excused,            \* re-indexed by a join, or by a task its expiry raced
    announced           \* replicas announced by name, not learnt by heartbeat

index == <<peer_map, cluster_peers>>
timers == <<jobs, inter_index, intra_index>>
history == <<last_expired, excused, announced>>
vars == <<index, peer_expiry_cache, replicas, timers, beat, inbound, history>>

\* Ages saturate where no comparison in the code can tell them apart.
MaxAge == HEARTBEAT_FAILURE + MaxDelay
MaxExpiryAge == EXPIRY_INVISIBILITY_WINDOW + MaxDelay + 1

Idle == [pc |-> "idle", now |-> 0]
Known == DOMAIN peer_map
Without(f, S) == [q \in DOMAIN f \ S |-> f[q]]
With(f, S, age) == [q \in DOMAIN f \cup S |-> IF q \in S THEN age ELSE f[q]]

\* Is the u64 difference of two ages below the period?  Wrapped, it never is.
Below(age, now, period) == age - now >= 0 /\ age - now < period

Init ==
    /\ peer_map = [p \in {local_peer_id} |-> 0]
    /\ cluster_peers = {local_peer_id}
    /\ peer_expiry_cache = <<>>
    /\ replicas = {local_peer_id}
    \* bootstrap_into_network: a heartbeat to every peer known at start
    /\ jobs = <<local_peer_id>>
    /\ beat = Idle /\ inbound = Idle
    /\ inter_index = 0 /\ intra_index = 0
    /\ last_expired = <<>> /\ excused = {} /\ announced = {}

-----------------------------------------------------------------------------
(* The peer index (state/peers.rs, state/state.rs)                          *)

\* add_peer for each peer whose info verifies: the entry of a known peer keeps
\* its own heartbeat, a new one starts with a dummy heartbeat.
add_peers(peer_ids) ==
    /\ peer_map' = With(peer_map, peer_ids \ Known, 0)
    /\ cluster_peers' = cluster_peers \cup (peer_ids \cap ClusterPeers)

remove_peer(p) ==
    /\ peer_map' = Without(peer_map, {p})
    /\ cluster_peers' = cluster_peers \ (IF p \in Known THEN {p} ELSE {})

record_heartbeat(p) ==
    peer_map' = [q \in Known |-> IF q = p THEN 0 ELSE peer_map[q]]

-----------------------------------------------------------------------------
(* The heartbeat timers                                                     *)

\* The known peers of a set, in iteration order; nth is None past its end.
Listed(S) == SelectSeq(PeerOrder, LAMBDA p : p \in S)
nth(S, i) == IF i < Cardinality(S) THEN {Listed(S)[i + 1]} ELSE {}

\* The mutant of NextIndex starts over one peer too late.
FirstPeerSkipped(i, count) == IF i + 1 >= count THEN 1 ELSE i + 1
NextIndex(i, count) == IF i + 1 >= count THEN 0 ELSE i + 1

Older(f, bound) == [p \in DOMAIN f |-> IF f[p] < bound THEN f[p] + 1 ELSE bound]
Waited(task) == IF task = Idle THEN Idle ELSE [task EXCEPT !.now = @ + 1]

RecentlyExpired ==
    {p \in DOMAIN last_expired : last_expired[p] < EXPIRY_INVISIBILITY_WINDOW}

inter_cluster_execution_loop == SetToSeq(nth(Known, inter_index) \ ClusterPeers)
intra_cluster_execution_loop ==
    SetToSeq(nth(cluster_peers, intra_index) \ {local_peer_id})

\* A tick is one time quantum: both timer loops wake once, and everything ages.
Tick ==
    /\ jobs = <<>>
    /\ beat.now < MaxDelay /\ inbound.now < MaxDelay
    /\ jobs' = inter_cluster_execution_loop \o intra_cluster_execution_loop
    /\ inter_index' = NextIndex(inter_index, Cardinality(Known))
    /\ intra_index' = NextIndex(intra_index, Cardinality(cluster_peers))
    /\ peer_map' = Older(peer_map, MaxAge)
    /\ peer_expiry_cache' = Older(peer_expiry_cache, MaxExpiryAge)
    /\ last_expired' = [p \in RecentlyExpired |-> last_expired[p] + 1]
    /\ excused' = excused \cap RecentlyExpired
    /\ beat' = Waited(beat) /\ inbound' = Waited(inbound)
    /\ UNCHANGED <<cluster_peers, replicas, announced>>

-----------------------------------------------------------------------------
(* ExecuteHeartbeat: send_heartbeat, then maybe_expire_peer                 *)

\* No heartbeat is sent to oneself; else the request goes out and `now' is read.
send_heartbeat ==
    /\ beat = Idle /\ jobs # <<>>
    /\ jobs' = Tail(jobs)
    /\ beat' = IF Head(jobs) = local_peer_id THEN Idle
               ELSE [pc |-> "info", peer |-> Head(jobs), now |-> 0]
    /\ UNCHANGED <<index, peer_expiry_cache, replicas, inter_index, intra_index,
                   inbound, history>>

\* The mutant of FailurePeriod swaps the two periods.
PeriodsSwapped(p) ==
    IF p \in ClusterPeers THEN HEARTBEAT_FAILURE ELSE CLUSTER_HEARTBEAT_FAILURE
FailurePeriod(p) ==
    IF p \in ClusterPeers THEN CLUSTER_HEARTBEAT_FAILURE ELSE HEARTBEAT_FAILURE

HeardFrom(p) == Below(peer_map[p], beat.now, FailurePeriod(p))

\* A copy of the peer's info decides, after its lock is released.
maybe_expire_peer ==
    /\ beat.pc = "info"
    /\ beat' = IF beat.peer \notin Known \/ HeardFrom(beat.peer) THEN Idle
               ELSE [beat EXCEPT !.pc = "remove"]
    /\ UNCHANGED <<index, peer_expiry_cache, replicas, timers, inbound, history>>

\* Has the message in progress already looked p up in the expiry cache?
PassedTheCache(p) == inbound.pc = "add" /\ p \in inbound.peers

\* RelayerState::remove_peer, first lock ...
RemoveFromIndex ==
    /\ beat.pc = "remove"
    /\ remove_peer(beat.peer)
    /\ beat' = [beat EXCEPT !.pc = "replicas"]
    /\ excused' = {p \in excused : p # beat.peer \/ PassedTheCache(p)}
    /\ UNCHANGED <<peer_expiry_cache, replicas, timers, inbound, last_expired,
                   announced>>

\* ... and second lock.
remove_peer_replicas ==
    /\ beat.pc = "replicas"
    /\ replicas' = replicas \ {beat.peer}
    /\ announced' = announced \ {beat.peer}
    /\ beat' = [beat EXCEPT !.pc = "cache"]
    /\ UNCHANGED <<index, peer_expiry_cache, timers, inbound, last_expired, excused>>

\* The expiry is recorded at the `now' of the check.
RecordExpiry ==
    /\ beat.pc = "cache"
    /\ peer_expiry_cache' = With(peer_expiry_cache, {beat.peer}, beat.now)
    /\ last_expired' = IF beat.now > EXPIRY_INVISIBILITY_WINDOW
                       THEN Without(last_expired, {beat.peer})
                       ELSE With(last_expired, {beat.peer}, beat.now)
    /\ excused' = excused \cup
                    {p \in {beat.peer} : p \in Known \/ PassedTheCache(p)}
    /\ beat' = Idle
    /\ UNCHANGED <<index, replicas, timers, inbound, announced>>

-----------------------------------------------------------------------------
(* Bootstrap, HandleHeartbeatReq and HandleHeartbeatResp                    *)

\* `listed' are the known peers a message carries; of these, the cluster's
\* peers are also the replicas it names for the wallet.
Message(pc, from, listed, merge) ==
    [pc |-> pc, from |-> from, listed |-> listed, peers |-> listed,
     merge |-> merge, now |-> 0]

\* A message of either kind that authenticates becomes a job of its own.
handle_inbound_message ==
    /\ inbound = Idle
    /\ \/ \E p \in Remote : inbound' = Message("filter", p, {p}, FALSE)
       \/ \E p \in Remote, S \in SUBSET Remote :
            inbound' = Message("record", p, S, TRUE)
       \/ \E S \in SUBSET Remote :
            inbound' = Message("contains", local_peer_id, S, TRUE)
    /\ UNCHANGED <<index, peer_expiry_cache, replicas, timers, beat, history>>

RecordHeartbeat ==
    /\ inbound.pc = "record"
    /\ record_heartbeat(inbound.from)
    /\ inbound' = [inbound EXCEPT !.pc = "contains", !.from = local_peer_id]
    /\ UNCHANGED <<cluster_peers, peer_expiry_cache, replicas, timers, beat, history>>

\* Under a read lock: which of the listed peers are new?
merge_peer_index ==
    /\ inbound.pc = "contains"
    /\ inbound' = IF inbound.listed \subseteq Known
                  THEN [inbound EXCEPT !.pc = "wallets", !.peers = {}]
                  ELSE [inbound EXCEPT !.pc = "filter", !.now = 0,
                                       !.peers = inbound.listed \ Known]
    /\ UNCHANGED <<index, peer_expiry_cache, replicas, timers, beat, history>>

\* In its window, by the u64 difference of two clocks read in different tasks.
NeverInWindow(p) == FALSE
InWindow(p) ==
    /\ p \in DOMAIN peer_expiry_cache
    /\ Below(peer_expiry_cache[p], inbound.now, EXPIRY_INVISIBILITY_WINDOW + 1)

\* add_new_peers, first lock: the peers in their window are left out, the
\* cache entries of the others are dropped.
add_new_peers ==
    /\ inbound.pc = "filter"
    /\ \E visible \in {{p \in inbound.peers : ~InWindow(p)}} :
         /\ inbound' = [inbound EXCEPT !.pc = "add", !.peers = visible]
         /\ peer_expiry_cache' = Without(peer_expiry_cache, visible)
         /\ last_expired' = Without(last_expired,
              {p \in visible \cap DOMAIN peer_expiry_cache :
                  peer_expiry_cache[p] < inbound.now})
    /\ UNCHANGED <<index, replicas, timers, beat, excused, announced>>

\* Second lock: those whose cluster signature verifies are indexed.
AddToIndex ==
    /\ inbound.pc = "add"
    /\ \E verified \in SUBSET inbound.peers : add_peers(verified)
    /\ inbound' = IF inbound.merge THEN [inbound EXCEPT !.pc = "wallets", !.peers = {}, !.now = 0]
                  ELSE Idle
    /\ excused' = excused \cap DOMAIN peer_map'
    /\ UNCHANGED <<peer_expiry_cache, replicas, timers, beat, last_expired, announced>>

\* The mutant of Retained trusts the message's replicas.
AllRetained(S) == S
Retained(S) == S \cap Known

\* merge_wallets, holding the wallet and the peer index; merge_order_book then
\* only asks cluster peers for the orders it does not know.
merge_wallets ==
    /\ inbound.pc = "wallets"
    /\ replicas' = replicas \cup Retained(inbound.listed \cap ClusterPeers)
    /\ inbound' = Idle
    /\ UNCHANGED <<index, peer_expiry_cache, timers, beat, history>>

-----------------------------------------------------------------------------
(* Cluster management (gossip/cluster.rs)                                   *)

\* A join is for this cluster or ignored; it does not consult the expiry cache.
handle_cluster_join_job ==
    /\ \E p \in Remote \cap ClusterPeers :
         /\ add_peers({p})
         /\ excused' = excused \cup ({p} \cap DOMAIN last_expired)
    /\ UNCHANGED <<peer_expiry_cache, replicas, timers, beat, inbound, last_expired,
                   announced>>

handle_add_replica_job ==
    /\ \E p \in Remote \cap ClusterPeers :
         /\ replicas' = replicas \cup {p}
         /\ announced' = announced \cup {p}
    /\ UNCHANGED <<index, peer_expiry_cache, timers, beat, inbound, last_expired,
                   excused>>

\* add_wallets overwrites the wallet, its replicas included.
handle_replicate_request ==
    /\ \E S \in SUBSET (Remote \cap ClusterPeers) :
         /\ replicas' = S \cup {local_peer_id}
         /\ announced' = S
    /\ UNCHANGED <<index, peer_expiry_cache, timers, beat, inbound, last_expired,
                   excused>>

-----------------------------------------------------------------------------
Heartbeat ==
    \/ send_heartbeat \/ maybe_expire_peer
    \/ RemoveFromIndex \/ remove_peer_replicas \/ RecordExpiry

Merge ==
    \/ RecordHeartbeat \/ merge_peer_index
    \/ add_new_peers \/ AddToIndex \/ merge_wallets

Cluster ==
    handle_cluster_join_job \/ handle_add_replica_job \/ handle_replicate_request

Next == Tick \/ Heartbeat \/ handle_inbound_message \/ Merge \/ Cluster

\* Time passes, the timers wake, and a spawned task runs to its end.
Spec ==
    /\ Init /\ [][Next]_vars
    /\ WF_vars(Tick) /\ WF_vars(Heartbeat) /\ WF_vars(Merge)

-----------------------------------------------------------------------------
(* Properties                                                               *)

\* gossip/heartbeat.rs, add_new_peers: an expired peer is not indexed again
\* during its invisibility window.  The exceptions are a peer that joins the
\* cluster itself, and a message that had looked it up, or read its clock,
\* before the expiry was recorded.
ExpiryHides ==
    Known \cap DOMAIN last_expired \subseteq excused

\* maybe_expire_peer: a peer about to be removed has been silent for its
\* failure period, or its heartbeat (or its entry) is no older than the
\* clock of the check: nothing recorded before the check began is missed.
ExpiredWasSilent ==
    beat.pc = "remove" /\ beat.peer \in Known =>
        \/ peer_map[beat.peer] - beat.now >=
             (IF beat.peer \in ClusterPeers THEN CLUSTER_HEARTBEAT_FAILURE
              ELSE HEARTBEAT_FAILURE)
        \/ peer_map[beat.peer] <= beat.now

\* RelayerState::remove_peer takes two locks and merge_wallets holds both: the
\* replicas of the wallet are indexed peers, except while a peer is being
\* expired, and those that were announced by name.
ReplicasIndexed ==
    replicas \ Known \subseteq
        announced \cup (IF beat.pc = "replicas" THEN {beat.peer} ELSE {})

\* The timer loops: a peer that stays silent does not stay indexed, unless the
\* list of peers the loops step through keeps changing under them.
SilentExpires ==
    \A p \in Remote :
        \/ []<>(p \in Known => peer_map[p] < MaxAge)
        \/ []<><<DOMAIN peer_map' # Known>>_vars
=============================================================================
